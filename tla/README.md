# A verification of go-mocklm

go-mocklm is a mock LLM provider: one Go process that answers the OpenAI,
Anthropic and Bedrock APIs, streams responses, and fails in exactly the ways a
test asks for. Tests trust it as an oracle ("request-count is 2", "the
connection is cut after this event", "no request past the limit"), so what has
to be right is the bookkeeping under concurrency and the composition of faults.
This directory holds TLA+ modules of these parts, TLC configurations that check
small instances, and TLAPS proofs of the theorems that matter most for every
value of the constants.

    tlc -config MCRateLimiter.cfg MCRateLimiter     # a run
    tlapm LimitProofs.tla                           # a proof

## 1. The system

The server is a set of handlers (a goroutine per request, `main.go`) around one
`ServerState` (`state.go`).

| Component | State | Operations | Hard behaviour |
|---|---|---|---|
| Rate limiter, `fault.go:151-192` | slice of timestamps, under a mutex | `Allow` | boundary of the window, rounding of `Retry-After` |
| Concurrency gate, `state.go:230-254` | three atomic counters, `max_concurrent` under a lock | `AcquireConcurrency`, `ReleaseConcurrency` | a compare-and-swap loop no lock protects; the limit is swapped under requests in flight |
| Fault gate, `fault.go:194-433`, `state.go:82-177` | configuration and limiter under a lock, atomic attempt counters | snapshot, `applyFaultHeader`, `NextAttempt`, `checkFaults`, `Update`, `Reset`, counter resets | requests that work with a snapshot that is no longer in force; a dozen early returns; cancelable waits |
| Scenario registry, `scenario.go` | two maps under a lock, three atomics per scenario | `Register`, `Delete`, `Clear`, `matchScenario`, `capture`, counter resets | scenarios replaced or taken over while requests hold the old one |
| Streaming injector, `fault.go:436-727`, the stream handlers | fired specs, frame count, block index | `afterFrame`, `matchAndFire`, `fire`, `emitInjected` | faults that fire on frames other faults inject; cuts with frames still buffered; stalls |
| SSE writer, `sse.go` | coalescing buffer | `writeFrame`, `writeRaw`, `splitPoint`, `flushPending`, pings | frames split, joined and interleaved with pings, beside a second writer that knows no knob |
| Request pipeline, the six handlers | the recording, the deferred slot | read, record, decode, match, capture, refuse, count, answer | an order repeated by hand six times, with a release on every path |
| Admin API, `admin.go`, `scenario.go:428-625` | none of its own | configuration, presets, scenarios, counters, recording | act on state the handlers are using |
| Configuration and presets, `config.go`, `presets.go` | builtin tables; the heap behind the slices and pointers of a configuration | lookups, partial JSON over a shallow copy | memory shared between copies, written by `encoding/json` |
| Content, tokens, request helpers, `content.go`, `tokens.go`, `request.go` | none | chunking, token count, JSON fragments | rune and word boundaries, zero and negative counts |
| `cache_control` oracle, strict checkers, validator | compiled schemas | walks over JSON | which body is inspected |
| Event-stream encoding, `eventstream.go` | none | binary frames | widths of length fields |
| Startup, `main.go`, `tls.go` | two listeners | environment parsing | one lane failing |
| Spec synchronisation, `cmd/specsync`, `internal/specsync` | two vendored files, two schema files, the pins | read, close over `$ref`, rewrite, write three files | cycles, dangling references, a run killed between two writes |

How they interact. A handler takes a snapshot (configuration copy and limiter
pointer) under the read lock, a slot of the gate which `defer` gives back,
records the body, matches a scenario (whose configuration then replaces the
copy), captures into it, asserts the `cache_control` oracle, enters
`checkFaults` (header overlay, attempt number, limiter, errors, delays), and
then answers or streams; a streamed answer calls the injector after every
frame. Admin requests run beside all of that: they swap the configuration,
which also rebuilds the limiters and zeroes the provider counters, reset
counters, replace and delete scenarios, and read or clear the recording.

What makes each component correct:

- limiter: no 60 s window holds more than `rpm` admissions; after the
  advertised `Retry-After` the admission that was in the way has left;
- gate: the counter equals the number of requests that were counted in; the
  limit in force is never exceeded by those let in under it; slots always
  return;
- fault gate: attempt numbers are a gapless sequence per counter, `request-count`
  counts every request, `fail_first_n` never fails more than `n`, each request
  gets one outcome and leaves;
- registry: index and scenarios agree, a model belongs to at most one scenario,
  a request is only served on the route of its scenario, a count never precedes
  the capture it counts, resets act on one incarnation only;
- injector: the frames of the real response arrive in order and complete unless
  the stream is cut, every spec fires at most once and on the frame it names,
  injected blocks do not collide with real ones, and streams end;
- pipeline: slots return on every path, the oracles a test reads agree, a
  refusal is not masked by a fault, requests end;
- shared configuration: two configurations point to one place only if one is a
  copy of the other or both are of a third, and what a holder's configuration
  says changes behind its back only while an overlay is decoded over such a copy;
- content and wire: the text read from a stream is the text of the unstreamed
  answer, chunks are cut at runes and words, transport faults strike where they
  are asked for, a count a client asks for is clamped before anything is made of it;
- spec synchronisation: the closure is exactly what the roots reach, written
  schemas are self-contained, the pins vouch for them, every run ends.

`PROJECT.json` lists every hazard at its line with the properties that cover it.

## 2. The modules

Abstract specifications stand alone; a detailed module instances its abstract
one with a refinement mapping and the run checks it as a property.

| Module | Models | Correspondence |
|---|---|---|
| `SlidingWindow` | what a rate limiter promises | the time of every admission; admit if fewer than `rpm` in the window |
| `RateLimiter` | `RateLimiter` of `fault.go` | `Allow` is one step because it holds `rl.mu` throughout; an entry of the slice is the number of its admission, `grants` gives its time |
| `Semaphore` | what the gate promises | deciding and counting in is one step, against a bound that may be out of date |
| `ConcurrencyGate` | `AcquireConcurrency`, `ReleaseConcurrency`, the swap | one action per atomic operation: read the limit under the lock, load, compare-and-swap (succeeds or fails), release; `Update` swaps the limit at any time |
| `FaultGate` | `checkFaults`, the snapshots, `Update`, `Reset`, `ResetAttempts` | one action per shared access or branch of `checkFaults`, in its order; `cfg[r]` is the handler's copy, `reqLimiter[r]` the pointer it snapshotted |
| `ScenarioRegistry` | `ScenarioStore`, matching, `capture`, the admin handlers on counters | a published `*Scenario` is an incarnation number that is never reused, so a handler may hold one that has left the store |
| `OrderedStream` | what a stream promises | the frames sent are a growing prefix of the response; it may be cut |
| `StreamInjector` | `afterFrame`, `matchAndFire`, `fire`, `emitInjected`, the writer's coalescing buffer, the frames of the five stream surfaces, legacy faults, validation | the recursion is an explicit stack of activations, each with the frame it matches and the next spec to try |
| `RequestPipeline` | the six handlers from first check to answer, the recording | each handler is the sequence of its stages in the order of its code; one action per kind of stage |
| `SharedConfig` | the struct copies of `state.go` and `scenario.go`, `json.Unmarshal` over them in `applyFaultHeader` and `handleAdminPostScenario`, and what a put, a preset, a reset, a registration and a deletion make of them | a heap of places; `view[h]` is what the configuration of holder `h` points to; one decoding step per element of `faults`, one for `validate_responses` |
| `Content` | `resolveTokenCount`, the word generators, `joinContent`, `capitalize`, `chunkExact`, `streamDeltas` | operators on sequences of bytes of `Alphabet`; a rune of two bytes is two symbols; what frames a line on the wire (`Framing`) is none of them, as JSON escapes it |
| `EventStream` | `encodeEventStreamMessage`, `encodeHeader`, the corrupt message | a byte is a pair, a number below `ByteLimit` (256) or a symbol; the checksum is symbolic; `Messages` decodes by the format the comment of the file documents |
| `ResponseWire` | the text of one response through handler, SSE or event-stream writer, pings and the corrupt chunk, to the client | one action per write, a fragmented frame is two; the client reads events by the rules for event streams, or messages |
| `SpecSync` | the `specsync` tool | one action per file read, per turn of the loop of `closure`, per document rewritten and per file truncated and written; a document is a function from names to pointers and the hash of a file is its version |

`RequestPipeline` composes the others at their abstract level: its gate is the
atomic semaphore that `ConcurrencyGate` is proved to implement, and
`checkFaults` and the streamed answer are steps with the outcomes `FaultGate`
and `StreamInjector` allow. It has no configuration swap, so what depends on one
is checked in the modules that have it. `ResponseWire` composes `Content` and
`EventStream` with the writers; it and `StreamInjector` split a streamed answer
between them: which frames, and whether the stream is cut, is the injector's; what
bytes carry them, and what text a client makes of the bytes, is the wire's.

Abstractions that hold throughout: one provider per component instance (the
three providers share code and no state, except in the pipeline, which has all
three); bodies, texts and messages are values of small sets; wording and
formatting are left out; a frame counts as one byte for `after_bytes`.

Abstractions of single modules:

- `SharedConfig` has two kinds of references, an array (`faults`) and a pointer
  (`validate_responses`), which are the two ways a copy shares memory; the other
  slice, `attempt_faults`, shares as `faults` does. A fault spec is two of its
  knobs, enough to see that a reused cell keeps what the document leaves out. The
  heap forgets what nobody points to, as the garbage collector does, and hands out
  the first free place: places have no order, so the choice is immaterial.
- `ResponseWire` reduces the frames around the text to one before it and one
  behind it (and the full text the Responses API repeats), and a fault spec to
  an `unknown_event` whose name may be too long for its length field. Newline in
  JSON, a blank, a letter and a two-byte rune stand for the bytes a boundary can
  tell apart. The knobs of a request are those it is answered under; of the members
  of `X-MockLM-Fault` those a count or a text depends on are laid over the
  configuration in the model (`applyFaultHeader`). Once the client has left, the rest of a fragmented frame may be lost.
- `StreamInjector` has the validation of injected frames only. A real frame is taken
  to be valid, as it is the code's own; one that is not would sever the stream
  before it is written (`anthropic.go:318-323`, `openai.go:282-287`).
- `SpecSync` keeps of a schema the pointers in it (`$ref`, discriminator mapping)
  and the flag `nullable` beside a `$ref`, which the normalisation turns into a
  union. `os.WriteFile` truncates before it writes, a crash is possible before
  every step, and the two sources may be refreshed at any time, a run included.
  Versions only grow: a checkout that brings back an old source after a crash
  would escape `PinsVouch`, and is what the regeneration test of the repository
  (`TestVendoredSchemasMatchFreshExtraction`) is for. Discriminator mappings may point out of the
  closure by design, `$ref`s may not.

Actions are named as the functions they model. Operators whose comment begins "Mutant:" are
plausible bugs of the definition that follows them; nothing in a specification
uses them, they are there to show that a property can fail.

## 3. The runs

| Run | Instance | Shows |
|---|---|---|
| `rate_limiter` | 2 admissions per 5 ticks, 2 ticks a second, clock to 13 | the window bound, sufficient `Retry-After`, refinement of `SlidingWindow`. The window is not a whole number of seconds, so rounding matters; 13 ticks are more than two windows |
| `concurrency_gate` | 3 handlers, limits 0, 1, 2 | the tight gate, refinement of `Semaphore`, no livelock. Handlers return for ever; three are needed for one to hold a slot while two race |
| `fault` | 2 requests, 1 scenario, 3 configurations with rates 1, 2 and none, 3 headers of which one claims rate 5, 1 swap, 1 zeroing per counter, clients that leave | attempt sequences, exact counts, the `fail_first_n` budget, one outcome per request, limiters keep their rate, every request leaves fault processing. A budget of one and a request that drew its number before the swap need two requests, not more. The first configuration has a rate, so that requests hold its limiter while it is replaced by one with a higher rate, the same rate or none; the two that hold the old one are enough to exceed a rate of 1 |
| `registry` | 2 ids, 2 models, 9 bodies (4 of them refused), 2 incarnations, 1 request, 1 admin, 1 reset | index and entries agree, matches serve their own route, capture before count, exact counters per incarnation, attempts never ahead of captures, claims move only by registration |
| `stream` | 5 surfaces x every pair of 11 specs x coalescing, and every combination of the legacy knobs with none or one spec; `disconnect_after_chunks` up to the 2 chunks there are | order and completeness, blocks, cuts where they are asked for, cuts after errors, single firing, refinement of `OrderedStream`, termination |
| `pipeline` | 6 surfaces x every pair of 15 defects for one request, every two of 7 contending requests, and every three of 2 that are recorded; a recording of 2 and one clear | slots, recording, agreement of the oracles, unmasked refusals, misplaced scenario headers, termination. Three records where two fit are the fewest that show an order, a gap or the wrong end dropped |
| `shared_config` | 1 request, 1 admin, 1 scenario, 1 preset, 2 overlays, 9 places | sharing and writes along copies only. One overlay fits the array of a copy and one does not; request and admin decode over copies of one preset or scenario at the same time |
| `wire` | every source of a token count from -1 to 3, with no `X-MockLM-Fault` or one that sets `tokens` or `min_tokens`; every text of up to 4 runes in every chunking; 3 texts x 5 surfaces x every combination of CRLF, coalescing, fragmentation, corrupt chunk and pings; names of 1, 63 and 64 symbols | the text arrives, chunks are clean, counts asked for are clamped, faults land where asked. `ByteLimit` 8 makes 63 the longest name whose length two bytes hold, as 65535 is in the code |
| `specsync` | 4 names, documents with cycles, dangling references, missing roots; 2 sources with 3 versions each | exact closure, self-contained schemas, vouching pins, termination. The third version is one that arrives while a run works on the second |

Three runs end in a counterexample on purpose. Each checks a sentence of the
documentation or of a comment which the code does not keep:

| Run | Sentence | What the code does |
|---|---|---|
| `fresh_sequence` | `state.go:50`: counters reset "so a fresh provider fault config starts counting from zero" | a request that snapshotted the old configuration draws its number after the reset, so it takes number 1 of the new sequence |
| `limiter_bypass` | `fault.go:198`, `README.md:369`: `rate_limit_rpm` cannot be targeted by the header | a header with `rate_limit_rpm` 0 makes the request skip the limiter |
| `shared_published` | `scenario.go:144`: "Published scenarios are IMMUTABLE except for the atomics" | the only admin body of this run leaves its preset as it is, and the only header sets the status of one fault. A scenario is registered from the preset; a request matches it and gets a copy whose `faults` point to the same array; its header fits there and is decoded over the first cell (`fault.go:205`), without a lock. The published scenario, and the preset, have that status from then on |

Every bound is a constant: `MaxTime`, `MaxSwaps`, `MaxZeroings`,
`MaxIncarnations`, `MaxResets`, `MaxPings`, `MaxRecorded` (1000 in the code),
`MaxClears`, `MaxRefs` and `Families` (places and lineages of the heap; what is
dropped is used again, so they bound what is alive and not how long the run is),
`ByteLimit` (256 in the code), `MaxVersion`. Symmetry is declared in
`MCSharedConfig` only, whose properties are an invariant and an action property.
Type invariants are proved for all constants (section 4) and not run again.

Deadlock is checked in `rate_limiter`, `concurrency_gate`, `shared_config` and
`specsync`, where something can always happen. In the other runs a system whose
requests are over and whose bounds are used up really stops, so their
configurations say `CHECK_DEADLOCK FALSE`; that no request is stuck before is
what their liveness properties say.

### Fairness

Weak fairness is assumed of what a goroutine does by itself and of nothing an
outside party decides: a handler in the middle of `checkFaults`, of the
pipeline, of a stream or of the compare-and-swap loop takes its next step, as
the Go scheduler guarantees, and timers of `time.After` fire. No fairness is
assumed of clients (arriving, leaving), of admins, or of the clock of the
limiter, and none that a handler inside the gate ever leaves it. A run of `specsync` that
was started goes on; nothing makes anybody start one, nor refresh a file, and a
crash may always come first. Accordingly
`StreamsEnd` and `RequestsEnd` allow a stall without end only if the client stays
for ever; one that leaves in the midst of a stall must free its handler.
`LoopDecides` is the lock-freedom of the loop, which needs no strong fairness: when all
handlers are in it, a compare-and-swap fails only because another one succeeded,
so some handler is decided.

## 4. The proofs

| Module | Theorem | States |
|---|---|---|
| `LimitProofs`, the limiter | `LimiterTypeCorrect`, `WindowBounded`, `RetryAfterCorrect`, `LimiterIsASlidingWindow` | `TypeOK`, `WindowBound`, `RetryAfterSuffices`, `ImplementsSlidingWindow` |
| `LimitProofs`, the gate | `GateTypeCorrect`, `SlotsAccounted`, `GateIsTight`, `GateIsASemaphore` | `GateTypeOK`, `SlotAccounting`, `GateHolds`, `ImplementsSemaphore` |
| `FaultGateProofs` | `TypeCorrect`, `AttemptsAreInSequence`, `RequestCountIsExact`, `FailFirstIsBudgeted`, `AnswersAreUnique`, `RatesAreKept` | `TypeOK` and every property of the `fault` run but the liveness one: `AttemptsInSequence`, `CountIsExact`, `FailFirstBudget`, `OneAnswer`, `LimitersKeepTheirRate` |
| `ScenarioRegistryProofs` | `TypeCorrect`, `IndexIsSound`, `ClaimsAreUnique`, `RoutesAreKept`, `CaptureComesFirst`, `CountsAreExact`, `AttemptsFollowCapture`, `ClaimsMoveOnlyByTakeover` | every property of the `registry` run, and that an id claims one model |
| `RequestPipelineProofs` | `TypeCorrect`, `SlotsComeBack`, `RecordingKeepsTheNewest`, `OraclesAlwaysAgree`, `LeaksAreAnswered`, `UnwiredComesFirst` | every safety property of the `pipeline` run, and that a misplaced scenario header takes no slot and leaves no record |
| `StreamInjectorProofs` | `UncutStreamsAreComplete`, `StreamsAreOrdered`, `CutsAreWhereAsked`, `CutsFollowErrors`, `BlocksStayApart`, `SpecsAreOneShot` | every property of the `stream` run but the liveness one: `UncutIsComplete`, `ImplementsOrderedStream`, `CutsAreExact`, `CutFollowsError`, `BlocksDoNotCollide`, `SpecsFireOnce` |
| `SharedConfigProofs` | `SharingIsInherited`, `WritesAreInherited` | `SharingStaysInTheFamily`, `WritesStayInTheFamily` |
| `ResponseWireProofs` | `ChunksAreAlwaysClean`, `AskedCountsAreAlwaysClamped`, `StreamedTextArrives`, `FaultsAlwaysLandWhereAsked` | every property of the `wire` run: `ChunksAreClean`, `AskedCountsAreClamped`, `TextArrives` on the four SSE surfaces, `FaultsLandWhereAsked` |
| `SpecSyncProofs` | `ClosureWalkIsExact`, `SchemasStayInside`, `PinsAlwaysVouch` | `ClosureIsExact`, `SchemasAreSelfContained`, `PinsVouch` |

They hold for every number of requests, scenarios, configurations, limits, rates
and windows that the named assumptions of the modules allow: the set of requests
is finite where counting needs it, the definitions an admin posts have the fields
of `Scenario` (which of them are published, `validate` in the model decides), in
the pipeline every request comes to one of the six surfaces and has one of the
outcomes `checkFaults` can have, a stream is of one of the five stream surfaces,
has a natural number of chunks, an integer `disconnect_after_chunks` and specs
whose `repeat` is at least one (`fire` takes a smaller one for one), start-up
configurations occupy places of their own, token counts, `coalesce_frames` and
`fragment_offset` are integers, configured, exact and generated texts are over an
alphabet that holds the blank and the full stop, is closed under `ToUpper` and has
none of the bytes that frame a line (`AlphabetAssumption`; a newline of a text is
the symbol `lf`, and `Marshal` escapes it, as `json.Marshal` does), exact texts
are valid UTF-8 (a text begins with a rune, and the byte before one that continues
a rune is no blank: the blanks of the model are single bytes), and the shipped
OpenAPI files define what their roots reach.

- Limiter. The invariant adds to the properties that the slice is a contiguous
  run of the newest admissions, that everything pruned from it is older than the
  window, and that times never decrease. With it the pruned slice and the
  unpruned history contain the same admissions of any current window, which is
  both the bound and the refinement.
- Gate. `GateInv` relates each handler's stage to what it has acquired, bounds
  what it loaded by the limit it read, and keeps the accounting. The bound on
  those let in under the limit in force follows because every one of them holds
  a slot, and a compare-and-swap succeeds only where the counter still is below
  that limit. The refinement reads the abstract bound of a handler off the limit it
  read; a successful swap is the abstract entry, and loads and failed swaps
  stutter.
- Fault gate. Neither sequence property is inductive. `GateInv` adds `Numbers`
  (between two zeroings of a counter the numbers drawn are distinct and exactly
  one to its value) and `StageInv` (at which stages a handler has drawn, and
  from which counter); `CopyInv` says that the copy a handler counts against does
  not change once it has drawn. A budget of `n` then follows by injecting the
  requests that failed into `1..n`. That a request is answered once needs
  `StageInv` too: a handler that is not over has not answered. `RateInv` keeps
  the limiters apart by the swap that built them: the one in force is of the last
  swap, those of swaps to come are empty, and a snapshot names a swap that
  happened, so a swap cannot change the rate of a limiter somebody still holds.
- Registry. The invariant says of the store that what is published is valid and
  that an id leads to a scenario of that id; with it a registration that moves to
  another model, or takes one over, leaves the index sound. What a request is
  served follows from the scenario it holds, whatever has since left the store:
  `StageInv` ties the stage of a handler to what it has stored and counted, and
  `HistoryInv` orders its marks before the resets of that incarnation, so that a
  reset empties the set being counted.
- Pipeline. The handlers differ in length, so the argument first shows what they
  have in common (`HandlersAreOrdered`: the position of the gate, the recording,
  the capture, the oracle and the faults in each) and that a request at a stage
  is at its position (`StageTellsPosition`). `ReqInv` then says of one request,
  by its position alone, whether it holds a slot, is recorded and is captured, and
  that a leak or a misplaced header has stopped it in time; other requests do
  not see its steps. The counters follow by counting the holders, the recording
  from `NewestOfAppend`, a lemma on sequences of any length.

- Injector. Six theorems, each from an invariant of its own.
  - *Completeness.* As long as nothing has cut the stream, the connection and
    the coalescing buffer together carry exactly the frames the handler has
    passed, in order, and the buffer comes behind the connection (`FlowInv`). A
    frame written beside the real ones has no number, so it disturbs neither; a
    cut gives the claim up; and at the end the buffer goes out with `[DONE]`. The
    frames of every surface are shown to be a finite sequence (`ScriptIsFinite`)
    for any number of chunks.
  - *Refinement.* At every moment, cut or not, the real frames on the connection
    are a prefix of the response; a write makes the prefix longer, and after the
    end nothing is written. `Positions` and the sum in `SpecsFireOnce` are
    recursive functions. The provers do no induction, so what they return is
    shown by contradiction at the least index where it would fail (`Least`,
    `FirstFailure`), which is ordinary arithmetic.
  - *Cuts.* The chunks of a script are adjacent and numbered from one
    (`ScriptIsChunked`), so the number of the next chunk counts those sent. The
    frame count has not gone past a disconnect that is still to fire: every call
    of `matchAndFire` that has gone by it found the count not reached
    (`ScheduleInv`). No frame was passed at which the legacy disconnect would have
    cut (`ChunkInv`), and the event of `disconnect_after_event` is the last that
    is sent (`CutInv`).
  - *Errors.* An injected error is sent only where it passes the validation of
    emitted frames; from then on the call of `matchAndFire` made for it waits for
    every disconnect keyed on it, and nothing the calls above it do gets the
    handler past that (`ErrorInv`).
  - *Blocks.* The block of a real start comes from the response and is below 50, that
    of an injected one lies between 50 and the next index to be taken; a start that is
    owed is the next item of the top of the stack and its index is still free,
    and an owed stop has its start behind it or directly before it (`BlocksInv`).
  - *One shot.* What has been injected and what the activations on the stack still
    owe is paid for: by the pings, the corrupt chunk, and the repeats of the
    specs that have fired (`FireInv`). Items owed are counted from the back of
    their lists, so that the ones which remain keep their places when one is
    sent. A spec is marked as fired in the step that owes its repeats, and no step
    unmarks it.
- Chunks. The two scans of `chunkExact` are recursive functions over the text;
  the provers do no induction, so the value of a recursion is characterized
  once, by its first value and its step (`Paths`, `PathsAgree`, from `Least`).
  Both scans then are one walk over the places where a unit (a rune, a word)
  starts (`RunesWalk`, `WordsWalk`): it cuts there whenever a multiple of
  the size has been counted. `Progress` holds at every byte of the walk: the chunks
  so far join to what is behind the cut, each of them lies between two
  starts and holds exactly the size, and the count is a multiple of it plus
  what has been seen since the cut. `WordsWalk` needs to know that the flag
  `prevSpace` tells whether the byte before is a blank, which is where the
  texts have to be valid UTF-8.
- Counts. That a count a client asks for is clamped follows from `resolveTokenCount`
  case by case, with the configuration the request is answered under, which is the
  provider's or the scenario's with the members of `X-MockLM-Fault` laid over it. The
  theorem does not say that no header makes a handler panic: a negative `tokens` in
  `X-MockLM-Fault` does (section 5).
- Wire. A client sees bytes, and `TextArrives` speaks of what it makes of all of
  them, so it is nothing like inductive. The argument has three layers.
  - *The reader undoes the writer.* `Spells(x, E)` says that a reader between two
    events, whatever it has read, reads the bytes `x` as the events `E` and then
    is between two events again. A frame spells its payload, with either line end,
    a ping spells nothing, the corrupt chunk one message, and what spells can be
    concatenated (`SpellsConcat`), because the reader goes byte by byte
    (`ReadConcat`, from `Upwards`). Hence it does not matter how writes cut the
    bytes; and bytes that stop inside a frame, the rest of which is still to be
    written, are read as the events before it (`PartRead`). It is here that no byte
    of a marshalled text may be one that frames a line.
  - *The deltas join to the answer.* `DeltasSay`: words with their blanks, capital
    and full stop for the generated and the pinned text, the theorem on chunks for
    exact output; `PayloadRead` takes the text out of a payload again, `ItemsAre`
    shows the frames of the four surfaces to have one shape, and `PayloadsText` is
    the sum.
  - *The invariant.* `WireInv` says in `Heard` that the bytes on the connection
    and the rest of a frame being fragmented spell some `W`, that what the buffer
    of `coalesce_frames` holds spells some `P`, and that `W` without the corrupt
    chunk, followed by `P`, is what the handler has told: the payloads before the
    frame it is at (`Accounted`). `Laid` keeps the place of the corrupt chunk: it
    is the one that was due, and at most that many frames precede it, exactly that
    many if nothing waits in a buffer. `Placed` is the same from the side of the
    handler: as long as the chunk is not written it was not yet due, and a stream
    is over only when all is told and nothing waits; this is what makes the counts
    at the end exact. `CutsRight` says of every write where it was cut, and of the
    rest that it may follow the last write (`Fits`). A step adds a frame to what
    is told and moves, with `WriteStep`, some of what waits to what is written;
    there is one lemma per action.
- Shared configuration. The invariant speaks of families: a place is live only
  if a holder points to it, two holders that point to one place are of one
  family, and an array and a pointer never share a place. A copy inherits the
  family with the pointers; fresh memory is not live, so it belongs to nobody
  else; a decoding step writes one place, which only the family of the one who
  decodes can see. All other steps write none.
- Spec synchronisation. While the closure is taken, what was seen and what is
  still on the stack together lie within `Reachable` and contain the roots, and
  the references of every name seen are seen, dangling or on the stack; with
  an empty stack that is a closed set, hence all of `Reachable`. Of the files,
  a schema is the closure of a version that was read, and the pins name a
  version only when the schemas of it are already written; versions that are
  read are never newer than the source, and a refresh makes a pin stale before
  it can be wrong.

Only model-checked: liveness (`LoopDecides`, `FaultProcessingEnds`, `StreamsEnd`,
`RequestsEnd`, `RunsEnd`), which with fairness and ENABLED is out of the reach of
the prover, and `TextArrives` on the AWS event-stream of the Converse surface. For
that surface it is no theorem for all constants: the length field of a message has
four bytes, so a text of `ByteLimit^4` bytes (4 GiB in the code) would be framed
by a length that is too small. For shorter texts it holds on the instance of the
`wire` run; a proof would have to compute with powers of `ByteLimit`, and the
provers know nothing of exponentiation. All other safety properties, invariants
and refinements that a run checks are proved.

## 5. Not modelled, and why

- Startup and TLS (`main.go`, `tls.go`): blocking listeners and environment
  variables; the one decision is that the first listener to fail ends the
  process, although the other lane could go on (`main.go:31`).
- JSON schemas and the third-party validator behind `validator.go`: the model
  has its verdict as an input.
- The walk of the `cache_control` oracle and of the strict checkers over a body:
  pure functions of it; the pipeline has their verdicts and when they are asked.
- The tables of configuration and presets, the TOML file, defaults and answers
  of the admin handlers, embedding vectors: data and formatting.
- Contents of reasoning and tool-call frames; the injector has the
  frames, the wire only those that carry text.

Disagreements seen while reading that have no run of their own:

- `disconnect_after_chunks` severs "after N content chunks" (`README.md:161,379`),
  but a response of exactly N chunks is never severed, because the check comes
  before the next chunk; `CutsAreExact` states what the code does;
- `README.md:214` says that all resolved token counts are clamped to `min_tokens`,
  but the count of the configuration is returned as it is (`tokens.go:35`): a
  `tokens` below `min_tokens` gives shorter answers. `X-MockLM-Fault` is decoded
  into the configuration of its request after the defaults were applied
  (`fault.go:205`), so its `{"tokens":-1}` reaches `make([]string, n)`
  (`content.go:34`), which panics; `AskedCountsAreClamped` says that the counts
  asked for by `X-MockLM-Tokens` and by the body are clamped and that a negative
  `tokens` or `min_tokens` is what panics;
- the listing of recorded requests "returns all" (`admin.go:94`), but one recorded
  body that is not JSON makes the whole listing fail (`admin.go:101`);
- the list of presets is commented "sorted by name" and is not sorted
  (`admin.go:200`);
- `malformed_chunk` is written by a second writer, so it overtakes frames held
  back by `coalesce_frames` (`fault.go:445`): `FaultsLandWhereAsked` says how far;
- the strict checker asks for an `input_schema` object and for typed blocks
  (`strict.go:20-25`), but Go decodes JSON `null` into a map or a string without
  an error, so a null `input_schema`, `content` or block `type` passes
  (`strict.go:124,142,203`);
- the `cache_control` oracle unmarshals the whole body while handlers decode its
  first value (`cachecontrol.go:36`).

## 6. Plan

Done: all modules of section 2 with their runs, and the proofs of all safety
properties, `TextArrives` on the Converse surface excepted.

1. Prove further: the decoder of event-stream messages inverts the encoder for
   messages below `ByteLimit^4` bytes, with the digits of `PutUint` written as
   divisions one after the other.
2. Model further: the `cache_control` walk and the strict checkers as algorithms
   against a reference definition; the start-up decision.
