# Formal verification of the AI SDK for Go

TLA+ models of this repository's concurrent and stateful parts and of the codecs
between its message types and the providers, checked with TLC, with theorems
proved by TLAPS. The source is the reference: every action and operator is
translated from the lines that `PROJECT.json` ("map") names.

## 1. Inventory of the system

The SDK gives one interface (`api.LanguageModel`: `Generate` and `Stream`) over
several providers. HTTP providers (OpenAI, Anthropic, OpenRouter) are thin
calls around codecs. The CLI providers (codex, claude code) are where the
program's own state and concurrency live: a language model owns a child process
and talks to it through pipes while several goroutines use the model.

| Component | State | Operations | Modules |
|---|---|---|---|
| JSON-RPC client, `provider/openai-codex/codec/jsonrpc/client.go` | `pending`, `nextID`, `closed`, `readErr`, a channel of 100 notifications, `mu` | `Call`, `readPump`, `handleResponse`, `handleNotification`, `Close` | `JsonRpcClient`, `RemoteCalls` |
| App-server process, `provider/openai-codex/process/appserver.go` | `cmd`, `client`, `running`, `initialized`, `reaped`, `threadID`, `mu` | `Start`, `Initialize`, `StartThread`, `StartTurn`, `Stop`, `Wait`, the reaper goroutine | `AppServerProcess` |
| Codex language model, `provider/openai-codex/llm.go` | `proc`, `cachedKey`, `callMu`, `mu` | `Generate`, `Stream` and its iterator, `ensureProcess`, `RestartProcess`, `Close` | `CodexModel`, `CodexStream` |
| Claude code model and process, `provider/anthropic-claudecode/llm.go`, `process/process.go` | `proc`, `cachedKey`, `resumeSessionID`, `mu`; `cmd`, pipes, `running`, `sessionID`, `reaped` | `Generate`, `Stream`, `ensureProcess`, `RestartProcess`, `Close`; `Start`, `Stop`, the reaper | `ClaudeCodeModel`, `ClaudeStream` |
| CLI helpers, `provider/internal/cli`, and what the providers make of them | one `Execute`; token counters, thresholds, budget; the managed process and its key; a channel being drained | `RetryPolicy.Execute` and the classifiers; `TokenTracker.Add`, `CostMonitor.TrackUsage`, `Reset`; `GetOrCreateProcess`, `SetProcess`, `Stop`; `ChannelToStreamIterator` | `RetryPolicy`, `ErrorClassifier`, `UsageAccounts`, `ProcessManager`, `ChannelStream`, `CliHelpers` |
| Response builder, `builder/` | content under construction, tool calls by id, finished or not | `AddEvent`, `Build`, `StreamToResponse` | `ResponseBuilder`, `EventStreams` |
| Stream decoders of OpenAI, codex, claude code, OpenRouter | partial tool calls, finish reason | one event of the provider to SDK events | `OpenAIStream`, `CodexStream`, `ClaudeStream`, `OpenRouterStream`, `ModelStream` |
| Prompts, options and answers: `api/`, the codecs' encoders and decoders | the caller's messages, which the codecs hold pointers to | `EncodePrompt`, `Encode`/`EncodeParams`/`buildRequestBody`, `DecodeResponse`, JSON form | `Messages`, `AnthropicPrompt`, `OpenAIPrompt`, `OpenRouterPrompt`, `CliPrompt`, `RequestOptions`, `Requests` |
| Entry points, model list, mocks, examples | none over time | | not modelled |

The CLI providers' language models call their process, the process the client;
callers share the model. All providers share the message types and the stream
events; decoders are iterators that the response builder (or the program) pulls.

What is hard to test in it, with the line where it bites, is the list "hazards"
of `PROJECT.json`. In short, correct means:

- *JSON-RPC client*: no panic on a channel although one is used after the mutex
  is released; each caller gets its own answer or an error that is true, nobody
  is forgotten, no entry leaks, and a response does not overtake the
  notifications before it.
- *Process objects*: one child at a time, the fields tell the truth, each reaper
  reaps its own child, every child gets its handshake, and `Stop` returns even
  when the child ignores it.
- *Codex model*: one turn at a time, only its own notifications, the config the
  call asked for, no orphan child, and a lock that is always given back.
- *Claude model*: calls that share one pipe without a call lock; the answer of
  one's own turn, a session that survives a restart and is spent once, no orphan.
- *CLI helpers*: permanent failures are final, alerts come once, a process that
  was started is owned by somebody, a stream neither loses nor invents events.
- *Builder and decoders*: the events of each decoder must be a stream the
  builder accepts, and must mean what the non-streaming decoder would return.
- *Prompts and options*: a request carries what the caller wrote, an answer can
  be sent back, a call leaves the prompt as it was, storage changes nothing, and
  every option is sent or warned of.

## 2. Plan

Most important behaviour first. All of it is done.

1. `JsonRpcClient`: the client, its callers, pump and child; safety proved.
2. `AppServerProcess`: the process object across restarts, with its reapers.
3. `CodexModel`: concurrent calls over one app-server.
4. `ResponseBuilder`, `ModelStream` and the stream decoders, composed in
   `EventStreams` as `StreamToResponse` composes them; the builder proved.
5. `ClaudeCodeModel`: calls that share one claude process with no call lock.
6. `RemoteCalls`: what `Call` promises; that the client implements it is checked
   and proved.
7. `RetryPolicy`, `ErrorClassifier`, `UsageAccounts`, `ProcessManager`,
   `ChannelStream`, run by `CliHelpers`.
8. The prompts and options of every provider, composed in `Requests`.
9. The safety of `AppServerProcess`, `CodexModel`, `ClaudeCodeModel`,
   `RetryPolicy`, `ProcessManager` and `ChannelStream`, proved.
10. The decoders and the builder together (`EventStreams`), proved.
11. The prompts, options and answers (`Requests`), proved.

Left: a longer prompt of claude (several messages to a call).

No module uses a RECURSIVE operator; sequences are folded and flattened with the
community modules.

## 3. The modules

### JsonRpcClient

One variable per field of `Client`, plus where each goroutine is (`pc`, `pump`)
and the two pipes. A response channel is named by the id it was made for:
`buffer[i]` is the response in it, `chClosed` the closed ones. Every critical
section is one action that needs `mu` free; `Encode` alone can block inside the
mutex, so there the mutex has a holder (`LockEncode`, `Written`,
`WriteFailed`, and `MarshalFailed` for params that do not marshal, which writes
nothing). `Call` is cut where it releases the mutex or blocks: `Register`,
the write, the `select` (`SelectDone`, `SelectResponse`, `SelectClosed`, the
runtime may take any that is ready), and the second critical section of each
exit. `readPump` is cut the same way: `Lookup` (mutex) and `Deliver` (no mutex)
are two steps, and so are the three parts of its end. The child answers what it
has read, in any order, twice if "duplicate" is in `Faults`, sends notifications,
writes lines the client cannot use, and dies; death truncates its unread output,
because `cmd.Wait` closes the pipe.

Abstractions: a result and an error response differ only in what `Call` returns
and are one kind; the payload is the id of the request, and (for the properties
about order) how many notifications had been written before it. `released` is a
history variable, `nextID` at the release of the pending calls: `Stranded` tells
with it which calls nobody will answer or release any more. A message of the
child that has an id is taken for a response, as in `IsResponse`; requests of
the server to the client are not in the model.

### RemoteCalls

The abstract specification: callers, ids, replies and four honest reasons to
fail, with neither channels nor pump, pipes or mutex. `JsonRpcClient!Promise` is
the refinement mapping: `busy` is where `pc` is inside a call, `served` what the
child has answered, `writable` an open stdin, `over` a pump at its end. A step of
the client that returns is a return of the promise, `Register` begins a call,
everything between is a stutter.

### AppServerProcess

One `AppServerProcess` object over several incarnations, seen from the users of
`llm.go`: a turn holds `callMu`, `ensureProcess` and `Close` hold `m.mu`. The
k-th successful `Start` makes child k, client k, reaper k and channel k of
`p.reaped`; `cmd`, `client` and `reaped` say which one the fields point at now,
`mine` which one a method captured before it released `p.mu`. The reaper reads
`p.cmd` and `p.reaped` when it gets to them, as the code does. A child exits when
it was interrupted or killed, or at any time when `Crashes` is TRUE.

`overlap` is a history variable: a `Start` ran while some reaper was between its
unlock (appserver.go:103) and its `close` (appserver.go:105). From there on the
invariants do not hold (section 4, exceptions), so they are stated up to it.

`Stop` closes the client with `p.mu` held (appserver.go:272), and `Close` waits for
the client's own mutex, which a call keeps while it writes to a full pipe. What a
step does is not affected, so `StopClosesClient` stays one action; that it may not
come is said in `Fairness`, which promises no progress to a call on a child that
lives, nor to a `Stop` that waits for such a call (`CloseWaits`).

### CodexModel

Calls of `Generate` and `Stream` on one `LanguageModel`, `RestartProcess` and
`Close` at any time. A call runs once and names what it makes: the process
object created in it, the child started in it (with its context), the turn it
started. The app-server is seen through its interface, one action per method:
what happens inside is the business of the two modules above. `m.callMu` is a
variable; `m.mu` is held from end to end by `RestartProcess` and `Close` (one
action each) and by `ensureProcess` (nothing that needs `m.mu` can run between
`EnsureStop` and `EnsureStart` and find a difference). A turn goes on in the
child whether or not somebody waits for it. `Take` is the receive both loops
share; a stream may be stopped by its consumer at any event.

Abstractions: a turn has one text delta and one completion; usage is one token a
turn; the attempts of the retry policy are one outcome (`RetryPolicy` has them);
the second range over a stream, which the API does not forbid, is left out.

### ClaudeCodeModel

The `LanguageModel` of claude code and the `CLIProcess` below it in one module,
because their state is shared by calls that no call lock orders. A call goes
through `ensureProcess` (`EnsureReuse`, `EnsureStop`, `EnsureStart`, `EnsureFails`,
with `m.mu` kept between the stop of one process and the start of the next),
`Capture` (llm.go:260, a critical section of its own), `Send`, `Open`, the
scan and, after a failed write, an over-long line or an output that ended, the
stderr (`DrainStderr`, of a child that lives until it exits, `StderrEnds`, or
writes 4096 bytes, `StderrFull`, which nobody makes it do); between any two of them other calls, `RestartProcess` (which saves the
session), `Close`, the reaper and the child may act. A scanner reads ahead: `Fill`
moves any number of lines from the pipe to the call's own buffer, and what is
left there when the call ends is gone. The child answers the turns it was asked
one after the other, whether or not somebody waits: its init line once, a delta,
a result; the delta may be a line that `ParseEvent` refuses or one over the
scanner's limit, the result may be an error. `exposed`, `stale`, `taken`, `pulled`,
`revived`, `late` are history: who was overlapped, on which child part of a turn
was left, which turn's lines went to somebody else, and so on.

`Scenarios` bounds a behaviour: which calls are made in which order, how many at
a time, with which configurations, and which faults may happen.

Abstractions: a prompt is one message; the attempts of the retry policy are one
outcome; lines arrive whole; the token tracker, which the stream feeds, is in
`UsageAccounts`; the queries (`IsProcessRunning`, `ConfigNeedsRestart`, `SessionID`)
change nothing.

### RetryPolicy, ErrorClassifier, UsageAccounts, ProcessManager, ChannelStream, CliHelpers

- `RetryPolicy`: `Execute` as a loop of calls and waits (a call fails with any of
  `Errors`, the context ends, the timer fires). `addJitter` is a set of delays;
  of a delay under 2 ns it panics.
- `ErrorClassifier`: the rules of the three classifiers as sequences in the code's
  order. An error is the set of phrases its text contains, the code of a
  JSON-RPC error or an `*ErrorInfo`; the first rule that applies wins.
- `UsageAccounts`: the token tracker's thresholds and the cost monitor's warning
  and budget, fed with the same responses and reset at any time, and what
  `CanAfford` answers.
- `ProcessManager`: two callers over one manager; a call holds the lock from check
  to return, with a process that may exit, a factory, a start and an
  initialization that may fail in between.
- `ChannelStream`: the select of `ChannelToStreamIterator` over context, channel
  and buffered events, with the state its decoder keeps for the finish event.

They share no state, so `CliHelpers` runs one per behaviour (`scene`).

### ResponseBuilder, ModelStream, OpenAIStream, CodexStream, ClaudeStream, OpenRouterStream, EventStreams

`ResponseBuilder` has one variable per field of the builder and one operator per
handler of `AddEvent`; `result` is what `StreamToResponse` returns. A decoder is
an `iter.Seq`: it reads one event of the provider, yields at most one event of
the SDK, and the builder has consumed it before the next one is read. So an
action of a decoder module is: the provider sends an event, the decoder changes
its state, the builder takes what is yielded (`AddEvent`) or nothing is
(`Silent`). When the builder refuses an event the loop ends, and the iterator
with it.

`errors` collects the kinds of errors a stream has met, whether a decoder makes an
event of them or not: what the provider reports as an error, a response that
failed, error chunks and statuses of OpenRouter, what is cut or cannot be read, a
turn over the budget.

`ModelStream` is the far side: a model that writes items one fragment after the
other, tool calls and commands in parallel, everything else in sequence. The k-th
fragment of item i is the pair `<<i, k>>`, and its place in the content is the
pair of a block and a position in it. `Sent` (what was written) and what is at
the `Places` of a type are compared at every step: `Arrives` says that they are
the same fragments, and that a later place holds a later fragment, so that each
is there once. `EventStreams`
composes the four decoders and adds a provider whose events come in any order,
for the handlers no decoder of the repository reaches (files, signatures) and
the orders none of them produces. A call of OpenRouter is named by its item; on
the wire it is told by its place among the calls (`Place`).

Abstractions: newlines between reasoning summaries, timestamps, model ids, file
changes and provider metadata other than the reasoning and the command
executions are left out; usage is one token; the input of a claude tool call
starts as `{}`, fragment 0; OpenAI's item that opens a function call has no
arguments yet (the event passes on those it has, decode_stream.go:244). Of the
non-streaming decoder of OpenAI the finish reason and the usage are compared.

Not in the environment of these runs: what an abandoned turn of codex has left in
the channel (`CodexModel` has that), and choices after OpenRouter's finish reason.
`InterleavedIsOwn` names the providers whose deltas bear an id or a place; a claude
message writes one block after the other, and its deltas bear none.

### Messages, AnthropicPrompt, OpenAIPrompt, OpenRouterPrompt, CliPrompt, RequestOptions, Requests

Pure functions, and a caller who composes them. A prompt is a sequence of
messages of blocks; a text, picture or argument is what a codec tells apart (is
there any; URL, data, empty data; which media type; whose metadata). A codec turns
a prompt into items, each with its kind, the place of the block it comes from,
the form its data takes and whether it bears a mark; or refuses it. With places, "every block once and in order" is a statement
about the items (the places they bear are those of the prompt, and of two items
the earlier one bears the place that is ahead) instead of a second encoder. `Messages` also has what writing a prompt as JSON and reading it back
changes. `RequestOptions` is the same for settings, formats, tools and choices:
what is sent, what is warned of.

The arguments of a tool call are raw JSON that nobody has checked: a value, `null`,
nil, empty, or not JSON. The decoders of OpenAI and OpenRouter keep what the model
wrote; `Written` is what `json.Marshal` makes of it.

`Requests` is a conversation: the caller adds messages and blocks, sets options,
sends the prompt to any provider, adds what the provider answered (`Answers`,
decoded by that codec), stores the prompt and loads it again. Anthropic's codec
writes a message's metadata into the caller's blocks (`AfterSend`), so a call can
matter to the next one.

Abstractions: names, ids and texts are there or not; the JSON schema of a tool or
of the answer is an object, another type or missing, and whether it is strict is
left out; of the metadata of a call, OpenAI's reasoning effort stands for what
`applyProviderMetadata` copies; OpenAI's codec looks at tools only when tools or a
choice are set, which makes no difference here; Anthropic's encoder passes
arguments on and its client library fails on those that are not JSON, so such a
request counts as one the codec accepts; usage, response metadata and log
probabilities are copied by the code and left out. A prompt with arguments that
are not JSON cannot be written as JSON at all, so it is not stored (`Storable`).

## 4. The runs

| Run | Bounds | Shows |
|---|---|---|
| `jsonrpc_safety` | 2 callers, 2 calls, 2 notifications, notification channel of 1, stdin of 1, stdout of 2; Close, cancel, death, duplicate, ignored lines (before the notifications), unencodable params; symmetric callers | `TypeOK`, `NoChannelPanic`, `NoStalePending`, `OwnAnswer`, `WaitingIsReachable`, `NoOvertaking` |
| `jsonrpc_liveness` | 2 callers, 2 calls, pipes of 1; Close, cancel, death, over-long lines; fair | `CallReturns`, and the refinement `KeepsPromise` (with notifications, duplicates and unencodable params, it is proved) |
| `appserver` | 2 users, 2 starts, crashes; fair | `TypeOK`, `ProcessIsReal` (one child, true fields, own reapers), `HandshakeUnlessCrash`, `OwnerReturns` |
| `codex_safety` | 1 Generate, 2 Streams, 2 configs, channel of 2, budget of 2; cancel, break, crash, restart; symmetric streams and configs | `TypeOK`, `SingleFlight`, `ProcessIsStable` (with no orphan), `ConfigUnlessRevived` |
| `codex_liveness` | 1 Generate, 1 Stream, every fault; fair | `CallEnds` |
| `codex_own_turn` | 1 Generate, 1 Stream, a consumer that stops early; violation | `OwnTurn` |
| `claude_code` | 3 calls one after the other or 2 of them at a time, in 10 scenarios with one or two configurations and up to two kinds of faults; fair | `TypeOK`, `NoOrphan`, `OwnAnswer`, `SessionSurvives`, `PanicIsExplained`, `CallEnds` |
| `claude_reaped` | the same; violation | `ReapedHasExited` |
| `cli_helpers` | 3 classifiers, 17 policies, errors of one and two phrases; 3 threshold lists, 3 budgets, 4 usages between two resets; 2 callers, 3 processes, 2 keys; 4 events in a channel of 2 | `RetriesAreSound` (of permanent errors, attempts and delays), `AlertsOnce`, `ManagerOwnsProcess`, `StreamIsFaithful` |
| `event_streams` | 3 items, 2 fragments each, 2 sources, 2 claude messages, 3 blocks of events in any order | `TypeOK`, `ToolCallsIndexed`, `ContentArrives`, `InterleavedIsOwn`, `ErrorsSurface`, `AgreesWithGenerate`, `RejectedAsKnown`, `ContentGrows` |
| `stream_finish` | claude, 1 item, 2 messages; violation | `FinishIsFinal` |
| `requests` | prompts of up to 3 messages and 3 blocks, every kind of block, arguments and metadata, every option alone and all together, up to 2 tools, answers of 1 item (claude: 2 blocks); 9 providers | `NothingLost`, `RepliesCanBeSent`, `OptionsAccounted`, `SendIsQuiet`, `StoredIsSame` |

**Why these bounds.** Two callers with one call each are enough for every race
of `Call` with the pump, with `Close` and with each other; one id more adds only
a later call. Capacities of 1 and 2 instead of 100 and 64 KB make full channels
and full pipes ordinary. Two starts are the least at which a reaper can meet the
next incarnation. Three codex calls are the least in which the rest of a
cancelled turn can be read: the first call starts the child, and cancelling *it*
kills the child, so the turn left behind must be a second call's and its reader a
third. For claude the third call is the one that finds what a failed start or a
restart has left; two at a time are enough to take each other's lines. Two
configurations are enough for a change and a change back. Of a stream, three
items are two that interleave and one before or after them, and two fragments
are the least that can be put in the wrong order or lost behind each other. Three
messages are the least in which Anthropic merges two and not a third, or finds a
second system message behind another kind; options are encoded apart from the
prompt in every codec, so they are given to a prompt of one text. An error of two
phrases is the least in which the order of the rules matters. Deadlock is not
checked: every system here stops when its bounded calls are done.

**Fairness.** Goroutines that can run do (weak fairness of each caller's steps,
of the pump, of each reaper, of a call's steps), and timers fire. Nobody is
forced to make a call, close or restart. Of a child it is assumed that it reads
its stdin and answers each request it has read (strong fairness: the pipe may be
full again and again while it waits), or works on the turns it has; a killed
child exits, an interrupted one need not. Reading is assumed of the child in
`JsonRpcClient` only: in `AppServerProcess` a call on a child that lives, and a
`Stop` whose `Close` waits for it, may stay where they are, and a claude child is
not assumed to write to its stderr. `CallEnds` also assumes that a
stream is ranged over: an iterator that nobody runs keeps `callMu` for ever.

**What the violations show.**

- `codex_own_turn`: a turn that is given up is not interrupted, and the next call
  reads what is left of it.
- `claude_reaped`: process.go:30 says the reaped channel is closed after the child
  has been waited for; a `Start` between the reaper's unlock (process.go:112) and
  its close makes it close the next child's.
- `stream_finish`: a claude stream sends a finish event per message and one more
  at its end; the builder refuses all after the first.

**Exceptions.** A property of a passing run that names an exception names one
that is known to happen, so that a further way to break it would be found:

- `Stranded` (`WaitingIsReachable`, `CallReturns`): a call registered after readPump
  has released the pending ones (an over-long line, client.go:61) while the child
  lives is written and never answered, because the release (client.go:96) is done
  once; and a call in progress when readPump returns through `c.done` after `Close`
  (client.go:65) is not released at all. Nothing but its context ends either.
- `CloseWaits` (`OwnerReturns`): a `Stop` whose `client.Close` (appserver.go:274) waits
  for a call that is writing to a child that lives. Nothing has been sent to the
  child by then, so nothing makes it go, and `m.mu` and `p.mu` stay taken.
- `overlap` (`appserver`) and `late` (`claude_code`): after a restart in the gap
  between the reaper's unlock and its `close(p.reaped)` the old reaper closes the
  new channel; `Stop` and `Wait` then return while the child lives, and the second
  reaper closes the channel again, which panics.
- a crash in `HandshakeUnlessCrash`: `initialized` survives it (appserver.go:118),
  so the next child is used without `initialize`.
- `revived` in `ConfigUnlessRevived` and `OwnAnswer`: a process that died is
  started again with its old config (and session), under the key of the new one.
- `lost`, `taken` and a process stopped under a call in `CallEnds`: a dropped
  notification (which no other property sees: the type invariant has the bound of
  the channel only), a result line that another call took, a call that listens to
  another child than the one that has its messages, and one that waits for the
  stderr of a child that lives: the one that sent it an over-long line, or the one
  its process was started again with. llm.go:234 says that `drainStderr` reads what
  is available; its `io.ReadAll` (llm.go:241) waits for 4096 bytes or the end.
- a panic counts as an end of a call, or of a retry: codex's nil interface after
  `RestartProcess` (llm.go:206), which `ProcessIsStable` does not rule out either,
  and the jitter of a delay below 2 ns (retry.go:234).
- `OwnAnswer` excepts calls that overlap or meet the rest of a turn on their
  child: they share one pipe, so each takes the lines the other needs.
- `Masks` in `RetriesAreSound`: the text of a permanent failure that also contains
  a phrase an earlier rule takes for temporary is retried.
- `displaced` in `ManagerOwnsProcess`: `SetProcess` forgets a running process.
- `RejectedAsKnown`: the OpenAI decoder announces a function call with deltas and
  sends it whole when it is done, under the same id, which the builder refuses;
  reasoning after anything else (an empty text of OpenRouter included) is refused
  too; of claude code, all that follows the first finish event; of OpenRouter, an
  error after it.
- `AgreesWithGenerate`: hosted tools and the usage of incomplete and failed
  responses. Both disagreements are exempted, so the property says that there is
  no third.
- `PassedOver` in `ErrorsSurface`: OpenAI's decoder makes no event of
  response.failed (decode_stream.go:337; the comment at 343 weighs one and leaves
  it), so that a failed response is built, with the reason "stop" when it bears
  none; OpenRouter's stream does not look at the HTTP status and skips chunks
  without choices, errors among them.
- the signature in `ContentGrows`: an event replaces it (builder.go:149), of the last
  block only, although llm_events.go:78 calls the event an incremental update, as
  the others are. No decoder of the repository emits it yet.
- the exactly met limit in `AlertsOnce`: a request that `CanAfford` accepts (`<=`,
  cost_monitor.go:239), which the README of openai-codex calls safe (line 324), is
  refused afterwards by `TrackUsage` when it meets the budget (`>=`, line 142), and
  lines 39 and 108 speak of a maximum that is allowed and of an error when it is
  exceeded; so does tokens.go:52 of a threshold, which tokens.go:88 reports when it
  is met. The property states the code, and that no other refusal surprises
  `CanAfford`.
- `LeftOut`, `GapOf` (`NothingLost`): claude drops pictures, files, reasoning and
  sources without a word; OpenAI and OpenRouter send a function's `Result`, never
  its content; claude only its texts, never the `Result`; Anthropic prefers a
  content that is empty.
- `Unsendable` (`RepliesCanBeSent`): reasoning and, with OpenAI, sources of an
  answer are refused when they are sent back; so are, with OpenAI and OpenRouter,
  calls whose arguments are empty or malformed, which their decoders keep
  (decode.go:142) although llm_prompt.go:532 warns of them.
- `MarksArrive`, a part of `NothingLost`, is one-sided: a cache control on a message
  that is merged with no other is not sent (merge_messages.go:41), and the property
  says only that no mark goes astray.
- `SetOnMessage` (`SendIsQuiet`): OpenAI metadata on a message is moved onto its
  last block by Anthropic's codec, where OpenAI's then finds it.
- `ChangesByStorage` (`StoredIsSame`): metadata read from JSON is a map, which no
  codec recognises: cache marks, redacted reasoning, image details are lost.
- `SilentlyDropped`, `SentAndWarned` (`OptionsAccounted`): headers with Anthropic
  and OpenAI, top-k, stop sequences and unknown choices of a tool with OpenRouter;
  sampling settings under Anthropic's thinking are sent although a warning says
  they are not supported; a choice of no tool is obeyed by sending none. OpenAI
  refuses a call with a function, or a format, whose schema is not an object
  (jsonschema.go:23), so of such a call nothing is left to account for.

**Further facts met while modelling**, that no run is about: the app-server child
lives no longer than the context of the call that started it (appserver.go:56);
an OpenAI stream that is cut ends with "stop" like a complete one
(decode_stream.go:118); a claude stream whose output ends without a result ends
without an event (llm.go:476), and claude's `Generate` does not look at its
context while it scans (llm.go:281); a function tool without a schema is a nil
dereference in Anthropic's encoder (jsonschema.go:64), modelled as a refused
request; `README.md` of openai-codex (line 324) asks `CanAfford` before a call, but
nothing is reserved, so two calls may both be told yes and go over the budget.

## 5. The proofs

`JsonRpcClient_proofs` proves, for any set of callers, any capacities and bounds
and any set of faults, that the specification implies `TypeOK`,
`NoChannelPanic`, `NoStalePending`, `WaitingIsReachable` and `OwnAnswer`, from
the assumptions `CallersAssumption`, `BoundsAssumption` and `FaultsAssumption`
alone. None of the last four is inductive. The inductive invariant `IInv` adds to
`TypeOK`:

- `IDsInv`: an id belongs to one caller, is not above `nextID`, and a pending one
  belongs to a caller that is still in its call;
- `ChannelsInv`: a pending channel is open, a filled channel is closed and holds
  the response with its own id, and the id that the pump is about to deliver is
  neither pending nor closed. This is what makes the send outside the mutex
  safe: `Lookup` takes the id out of the map before `Deliver` uses the channel;
- `ReachableInv`: a caller before or in its `select` is pending, has a closed
  channel, or is the one the pump is about to deliver to;
- `ReleasedInv`: once the pump is over, what is pending was registered after its
  release, or the pump returned without one because the client was closed. With
  `ReachableInv` it gives `WaitingIsReachable`, in which being pending counts only
  while the pump runs;
- `AnswersInv`: a response anywhere in the system was written by the child for a
  request it had read.

The proof goes in layers, each using the ones before: `TypeOK` (`TypeCorrect`),
then `IDsInv`, `ChannelsInv` and `ReachableInv` (`CoreCorrect`), then `ReleasedInv`
(`ReleaseIsComplete`) and `AnswersInv`; each has one step per action of `Next`.

`JsonRpcClient_proofs` also proves `ClientKeepsPromise`: the client implements
`RemoteCalls`. `IInv` does not know *why* a call fails, so it is strengthened by
`CausesInv`: a caller about to return an error has its cause (its context has
ended, stdin is closed or its params do not marshal, the pump is at its end), an empty closed channel was
closed by the pump's end, and only ids that were given out reach the child. Then
each action is shown to be one step of the promise, or a stutter; the mapping of
functions (`result`, `cancelled`) is done once, in lemmas about one caller.

`NoOvertaking` is proved beside it, from `OrderInv`, which follows a line through
stdout, the pump, the response channel or the queue, and its reader: the pipe is
in the order of writing (`PipeInv`); whatever has left the pipe was written
before everything that is still in it (`PastInv`); the queue, the line in the
pump and the last notification read are in order (`QueueInv`). The pump is one
goroutine, so it is enough that each step either takes the front line, or passes
on what it holds (`NextMove`); nothing need be known about callers.

`AppServerProcess_proofs` proves `TypeOK`, `ProcessIsReal` and
`HandshakeUnlessCrash` for any users and any number of Starts
(`StartsAssumption`). `IInv` says what each mutex keeps still
(`LocksInv`: the methods under `m.mu` and the turns see no Start but their own),
that fields and children are those of the last Start (`FieldsInv`), how far every
reaper is (`ReapersInv`, up to `overlap`), that without a crash a child goes only
when somebody waits for it (`OrderlyInv`: this is why no overlap, and so no
exception, is possible without one), and who may hold an `initialized` left over
(`HandshakeInv`).

`CodexModel_proofs` proves `TypeOK`, `SingleFlight`, `ProcessIsStable` and
`ConfigUnlessRevived` for any calls, configurations, capacity, budget and faults.
`LockInv` (whoever is in a call has `callMu`) gives the first half of
`SingleFlight`; the other half is `TurnsInv`: what is in a channel belongs to a
turn of that very child, and so does what a call has seen. `KeyInv` ties
`cachedKey`, the process and the key of the call that is about to take it
together; `FreshInv` says that nothing refers to a process object before its call
has made it, without which a new object could be an old one.

`ClaudeCodeModel_proofs` proves `TypeOK`, `NoOrphan`, `OwnAnswer`,
`SessionSurvives` and `PanicIsExplained` for any set of scenarios. No call lock
orders these calls, so the invariant is about what they share: how objects,
children and reapers refer to each other (`WiringInv`), what a call has done by
the place it has reached (`ProgressInv`), that replaced children are reaped to the
end (`ReapInv`, up to `late`), that whoever keeps `m.mu` between two steps has
removed `m.proc` (`MuInv`). `OwnAnswer` needs the pipes too: a turn is where it was
sent or on its way from there (`PlaceInv`), a result is the last line of its turn
(`LastInv`), a child that nobody left part of a turn on has turns in progress only
(`LeftInv`), so a call that nobody overlapped (`AloneInv`) finds only its own
(`OwnTurnInv`). The five actions of the scanner have one effect in common
(`ScanEffect`), and the proof is about that.

`CliHelpers_proofs` has a part for each helper, and joins them with one lemma
(`NextOfEach`: a step of a helper leaves the others alone):

- `ManagerOwnsProcess`, for any callers, processes and keys
  (`ManagerAssumption`). `RunningInv` is the strengthening of
  `NothingLeftRunning` to the time when a call is in progress: what runs is
  managed, displaced, or in the hands of the call that has the lock;
- `RetriesAreSound`, for any policy and errors (`PoliciesAssumption`: no option of a
  policy takes a number below one). The core of `PermanentIsFinal` is about the
  classifiers and not about time: `FirstRule` says what `ClassifyError` returns
  for a sequence of rules, `PermanentNotRetryable` that a permanent phrase which
  no earlier rule masks makes the error one that is not retried;
  `DelayInv` ties the delay that comes next to the last wait, from which each
  delay follows from the one before;
- `AlertsOnce`, for any thresholds, budget and usages, negative ones included
  (`TokensAssumption`). `SumInv` says that the counter is the sum of the last
  record, `OnceInv` that the one alert sent is that of the first record that
  reached the limit, exactly met limits included, and that an entry which has
  not fired has none; the monitor's `WarnedOnce` and `EachCritical` say the same
  of its alerts and add what was used, from which it follows that `CanAfford`
  foretells every refusal but one that meets the budget exactly;
- `StreamIsFaithful`, for any events and capacity (`SentAssumption`). `Gives`
  says with a monotone map from what was given to what was sent that nothing is
  lost, repeated or reordered; each receive extends the map by one
  (`GivesNext`) or skips an event that is not for the consumer (`GivesSkipped`).
  `Noted` is what the decoder's state knows at any moment of what the finish
  event will say.

`ResponseBuilder_proofs` proves, for any ids, fragments and finish reasons and
for any events in any order (`BuilderSpec`, of which a stream of a decoder is a
special case), that the builder's fields keep their types
(`BuilderTypeCorrect`), `ToolCallsIndexed` and `ContentGrows`. The type
correctness has what the others need: an index in the map is that of a block.
The argument is in one lemma, `AddEventShape`: whatever the event, either the
blocks stay and one of them may get longer (`BlocksStay`), or one block is added
at the end, with its index when it is a tool call whose id is not in the map yet
((`BlockAdded`). Both theorems follow from the two shapes alone (a signature goes
to the last block and to nothing else); a new event type
needs a case in that lemma and nowhere else.

`EventStreams_proofs` proves all that the run `event_streams` checks of the
decoders and the builder together, for any number of items, fragments, sources
and messages, from `WireAssumption` (the ids, fragments and reasons on the wire
are among those the builder is given), `ProvidersAssumption` and `StreamBounds`:

- `StreamsFeedTheBuilder`: every stream is a behaviour of `BuilderSpec`, so
  `ToolCallsIndexed` and `ContentGrows` hold of it. The steps of the four decoders
  are first brought to one form (`StepOf`): the model opens an item, sends a
  fragment or closes an item, or something else is said, with the one event that
  is yielded, and its type. Everything after is proved about the form, and a
  new decoder has to be brought to it and no more;
- `TypeOK`, from `VarsInv`: the variables of the decoder of this stream follow
  its items (`OpenAIRun`, `CodexRun`, `ClaudeRun`, `OpenRouterRun`), those of the
  others are as they were made. The core is what the maps are for: OpenAI's
  ongoing calls are the tool items that are open, codex's command outputs are
  those of the open commands, the n-th call of OpenRouter is the n-th tool item
  (`PlaceIs`);
- `ContentArrives`: an item that does not interleave is the last one while it is
  open (`ItemsInv`), so its new fragment comes after all that were sent
  (`LastFragment`); the place it gets comes after all places of its type
  (`ExtendsMore`, `AddsMore`: the last block, or a new one); and no other
  event touches such a block (`EventAdds`). Sources are numbered by the counter
  (`Numbered`);
- `InterleavedIsOwn`, from `ToolsOwn`: every tool block is that of a call and holds
  just the arguments sent for it so far, and every call has a block, of OpenRouter
  once it has arguments. With the map of tool calls exact (`OneBlock`), a delta
  finds its own block, or makes it and then it is the call's first;
- `ErrorsSurface`, from `ErrInv`: an error that the stream has met is in `err`, or
  the stream was refused, or it is one of which the decoders make no event;
- `RejectedAsKnown`, from `StateInv`, which says what must have been sent for the
  builder to be in each of its states, and that a finish event is the last of
  OpenAI, codex and OpenRouter; then each refusal is one on the list;
- `AgreesWithGenerate`, from `AgreeInv`: the finish event is made of what the
  decoder knows at the end, and nothing comes after it.

`Requests_proofs` proves all that the run `requests` checks, for prompts of any
length and any metadata, any options, any number of tools and any answers, from
`RequestsAssumption` (the messages, blocks and options a caller may use have the
types of `api/`). The argument has four parts:

- *What flattening computes.* The codecs concatenate what they make of each
  block, so their results are found by induction over the length of a prompt. It
  is induction over a set of numbers and not over an operator: `Induction`
  follows from the library's well-founded order of the numbers. `FlattenIsFlat`
  says that a flattened sequence has each element of each of its parts, at its
  place and in the order of places; nothing after it looks into the recursion;
- *What a codec sends.* `EncodesInOrder` brings the nine encoders to one form: a
  prompt with a message out of place (`Misplaced`: Anthropic's system messages
  apart from each other, and what a completion cannot hold) is refused; of any
  other the items are determined (`InOrder`) by the places, by what becomes of
  the block at each (`OfBlock`: an item, nothing, or an error) and by which place
  is `Ahead` of which. A new codec has to be brought to this form and no more.
  `NothingLost` is then about one block of one provider at a time
  (`AcceptedBlocks` and the lemmas about results and marks);
- *What makes two requests the same.* Items in the same order with the same
  content are the same sequence (`OrderDetermines`), so two prompts whose blocks
  differ in nothing that the codec reads (`CodecReads`) make the same request
  (`SameRequests`). That is why a merge by Anthropic's codec (`MergeIsQuiet`) and
  storage (`StorageIsQuiet`) change nothing, up to the exceptions of section 4;
  both `SendIsQuiet` and `StoredIsSame` follow;
- *What is accepted.* A request is accepted exactly when no message is misplaced
  and no block is an error (`Accepted`). The blocks a decoder can make are few
  (`Made`), and of these exactly those in `Unsendable`, by their type or by their
  arguments, are errors, so an answer put behind a prompt that was accepted is
  accepted or not by its own blocks (`ReplyIsAccepted`).

`NothingLost` is not inductive: `Send` changes the prompt after the request was
made of it, and the property compares the two. `IInv` therefore says more: the
last request is the one that would be made of the prompt and the options *now*
(`LastInv`), which `SendIsQuiet`'s argument keeps when Anthropic's codec writes to
the blocks; the prompt and the options are typed (`TypeInv`); and the prompt that
ends with an answer is accepted exactly when that answer has no block its
provider is known to refuse (`ReplyInv`), which needs the first, because the
answer is put behind a prompt of which a request was accepted.
`OptionsAccounted` needs of it only that the parameters were made of the options.
(Given these two as invariants with the constants of `MCRequests`, TLC finds no
violation either.)

Only model-checked: liveness (`CallReturns`, `OwnerReturns`, `CallEnds`), because
TLAPS does not reason about `ENABLED` and fairness here.

## 6. What is not modelled

`PROJECT.json` lists every component with its status.

- The codecs of `codex exec` (`openai-codex/codec/decode.go`, `decode_stream.go`)
  are no longer used by the language model.
- The command lines and environments of the children (`env.go`, the arguments made
  of a config): strings for a program outside the repository. Which configuration
  and session a child was started with is modelled.
- JSON on the wire: the codecs hand parameters to the SDKs of the providers, which
  the repository imports; lines of the CLIs are whole and parsed or not.
- The fields of hosted tools, usage, ids, timestamps and response metadata that a
  codec copies one by one; log probabilities; the conversion of a JSON schema.
- Requests of the app-server to the client (an id and a method): `IsResponse` takes
  them for responses (types.go:73).
- Queries that read one field under its lock; the prices.
- The model list of OpenRouter is generated; entry points, options and examples
  have no behaviour over time; the mocks are test code.
