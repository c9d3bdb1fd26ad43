# TLA+ models of LiteLLM-Go

LiteLLM-Go is an HTTP gateway in front of LLM providers: it checks API keys,
limits and budgets, applies guardrails, looks into a cache, routes a request to
a provider with retries, cooldowns and fallback chains, translates between the
formats of the providers, streams answers, and records what they cost. Around
that core it offers a batch API, assistants with runs, an agent loop, the
Responses API, and the administration of keys, organisations, teams and users.
State is kept in PostgreSQL, in Redis and in memory.

The models here follow the Go code, not its documentation. Each SQL statement,
Redis command, atomic, channel operation and locked call of a shared object is
one step, because those are the points between which other requests get in.
Where one goroutine works alone (a conversation, a stream) the steps are the
calls and the lines of an event stream instead.

## 1. Inventory

| Component | Code | State | Operations | Correct means |
|---|---|---|---|---|
| Worker pool | `workerpool/pool.go` | buffered channel, `started`, `closing`, context, counters | `Start`, `Submit`, `SubmitBlocking`, workers, `ShutdownGraceful`, `Shutdown` | accepted tasks run once, a shutdown that returns nil has waited |
| Batch API | `batch/processor.go`, `handler/batch.go` | tables `batches`, `batch_items`; items in the pool | `Submit`, `Cancel`, `processItem`, `checkBatchComplete` | counters, results and status agree; a batch ends |
| Routing | `routing/*.go`, `provider/fallback.go` | failure counts and cooldowns, in-flight counts | `ChatCompletion`, `ChatCompletionStream`, retries, fallback chain | trackers match what happened, calls are bounded, requests return |
| Streaming | `handler/stream.go`, the parsers of `provider/*.go` | a socket, the parser's variables | `ChatCompletionStream`, `ExecuteStream`, `parse...SSE` | a client can put one answer together, and knows when it is whole |
| Providers | `provider/*.go` | - | `translateTo...`, `translateFrom...` of six formats | a conversation survives the change of the provider |
| Registry, tool prompts, web search | `provider/provider.go`, `capabilities.go`, `tool_injection.go`, `websearch/*.go` | registered providers, aliases, search cache | `ResolveProvider`, `InjectToolsAsPrompt`, `Augment`, `SearchDirect` | what is written into the request reaches the model |
| Chat pipeline | `handler/chat.go` | none of its own | `ChatCompletion` | restrictions hold, accounting is right, what is cached is filtered |
| Budgets and spend | `budget/*.go` | tables `budgets`, `spend_log` | `CheckBudget`, `RecordSpend` | overshoot is bounded, budget follows log |
| Guardrails | `guardrails/*.go`, `handler/guardrails.go` | table `guardrail_configs`, environment | `LoadConfig`, `Check`, `Filter`, upsert, delete | the configuration of the key decides |
| Response cache | `cache/cache.go` | Redis strings with a lifetime | `Get`, `Set` | an entry answers its question |
| Virtual keys | `middleware/keystore.go`, `handler/keys.go` | table `virtual_keys`, map of hashes | `KeyGenerate`, `KeyDelete`, `KeyRotate`, `LoadFromDB` | the map is the set of active keys |
| Organisations, teams, users, audit | `handler/orgs.go`, `teams.go`, `users.go`, `audit/audit.go` | one table each, `audit_log` | create, delete | references hold without foreign keys, one organisation remains, the log is true |
| Rate limits | `middleware/ratelimit.go` | Redis sorted set and counter per key | `CheckRateLimit`, `GetRateLimitInfo`, `RecordTokenUsage` | the window is kept, no refusal below the limit |
| Assistants and runs | `handler/assistants.go` | tables of assistants, threads, messages, runs | create, delete, post, `CreateRun`, `CancelRun` | a run ends and keeps its end |
| Agent loop, Responses API, completions | `handler/agents.go`, `responses.go`, `completions.go` | one conversation | `AgentRun`, `runAgentLoop`, `CreateResponse`, `Completions` | tool calls are found and answered, the limit is kept and reported |
| Strategies, trackers, queue | `routing/strategy*.go`, `latency.go`, `usage.go`, `queue.go` | rings and counters | selection | not modelled |
| Configuration reload | `config/*.go`, `gateway.go` | file hash, current objects | poll, `Swap` | not modelled |
| Fine-tuning, files, settings | `handler/finetune.go`, `files.go`, `settings.go` | one table each | single statements | not modelled |
| Embeddings, images, audio, moderations, rerank, cost, UI | `handler/*.go`, `cost/*.go`, `admin/` | - | one call each | not modelled |

How the parts interact: `main` starts one worker pool and shuts it down after
the server. The batch handler runs `ProcessBatch`, which hands items to the
pool; each item calls a provider. The chat handler calls the key checks, the
rate limiter, the budget, the guardrails, web search, the cache and the router
in this order; the router's trackers are shared by all requests, and the
fallback chain uses the router's cooldown tracker. A provider translates the
request, posts it and translates the answer; what it returns becomes the
history that the client, or the agent loop, sends to the next provider. Runs
call the router through the agent loop. Key administration writes the table and
the map that the middleware reads; the administration of organisations, teams
and users writes the rows that the creation of keys checks.

What is hard: goroutines that overlap between a check and the use of its
result; handlers made of several statements without a transaction, of which one
may fail; work that goes on with the context of a request that has been
answered; clients that go away; a full queue; panics; clocks read in whole
seconds; restarts; streams that break half way and are started again on the
same socket; conversations that change formats from turn to turn. `PROJECT.json`
lists these hazards with their lines and the properties that would show them
going wrong.

## 2. Modules

| Module | Models | Uses |
|---|---|---|
| `TaskPool` | what a worker pool promises: bounded FIFO queue, at most `NumWorkers` running, each accepted task run once, refusals with a reason, `drained` only when nothing is left | - |
| `WorkerPool` | `workerpool/pool.go` | implements `TaskPool` |
| `Batch` | batch handlers and processor | `TaskPool` as the pool |
| `Router` (`MCRouter`) | router, retries, trackers, fallback chains | - |
| `Chat` (`MCChat`) | the chat handler with budget, guardrails and cache | - |
| `Translate` | what each provider makes of a request and of a reply, as operators | - |
| `Dialogue` (`MCDialogue`) | conversations of the chat API, the agent loop, the Responses API and completions, with web search, tool prompts and the registry | `Translate` |
| `Streams` (`MCStreams`) | streamed answers: handler, attempts, chain, parsers, error classes | `Translate` |
| `KeyStore` (`MCKeyStore`) | key administration and the map | - |
| `Tenants` (`MCTenants`) | organisations, teams, users, their keys and the audit log | - |
| `RateLimit` (`MCRateLimit`) | requests and tokens per minute | - |
| `Runs` | runs, threads, the agent loop | - |

`WorkerPoolProofs`, `BatchProofs`, `RouterProofs`, `ChatProofs`,
`TenantsProofs`, `RunsProofs` and `StreamsProofs` each extend the module they are
named after, `MiddlewareProofs` the two modules of `middleware/*.go`, `RateLimit`
and `KeyStore`; they hold the inductive invariants and theorems of section 5.
(`KeyStore` says `place`, `failures` and `StoreSpec` where the other modules say
`pc`, `faults` and `Spec`, so that it can be extended next to `RateLimit`.)

The MC modules only add values of constants and symmetry sets. Operators whose
comment begins with "Fault" are the altered forms of the definition that follows
them, used to see that each property notices a plausible slip in the code.

### WorkerPool and TaskPool

A task has a submitting goroutine of its own (`submitPC`), each `Start` call a
starter, each shutdown call a closer; a worker is `<<starter, number>>`, so two
overlapping `Start` calls would launch two sets of workers. `fn` is the
goroutine in which `executeTask` runs the task's function. `StartLoad`,
`StartStore` and `StartLaunch` are the three parts of `Start`;
`SubmitLoadClosing`, `SubmitLoadStarted` and the send the three of `Submit`; the
select of `executeTask` is `SelectDone` or `SelectCtx` followed by `DrainDone`.
`SerialStart` says that nobody uses the pool while `Start` runs, as `main`
guarantees. `ImplementsTaskPool` is `Pool!Spec` under the mapping given with
`Pool == INSTANCE TaskPool WITH ...`: a task that a worker holds is running,
one whose function has ended and that no worker holds has ended.

### Batch

Item `n` of batch `b` is `<<b, n>>`. `InsertBatch`, `InsertItem`,
`MarkProcessing`, `LoadItems`, `SubmitItem`, `StoreRefused`, `CountRefused` are
the statements of `Submit` and `ProcessBatch` in order; `TakeItem`,
`CallProvider`, `StoreItem`, `CountItem`, `CheckBatchComplete` those of
`processItem`. The pool is the instance of `TaskPool` that `WorkerPool`
implements. `CtxDone(b)` ends the request context that the tasks of `b` keep
using; `Crash` empties the pool and stops the handlers, the tables stay.

### Router

Three routes: `direct` and `global` (the composite provider `fallback`) go
through the router and its retry loop, `perkey` is the chain that `chat.go`
calls itself. `failures` and `cooldownUntil` are the cooldown tracker,
`inFlight` the in-flight tracker; each locked call is a step. The clock `now`
moves at any time. Errors are `transient` (retryable), `token_limit` (which
makes the chain try a larger model) and `other`. Latency, usage and backoff
length are left out: no decision here reads them.

### Chat

A request is a program counter and its key, question, guardrail configuration
and response. The actions follow the handler: `LookUpUser`, `CheckBlocked`,
`CheckAllowedModels`, `CheckLimit`, `CheckBudget`, `CheckGuardrails`,
`CacheGet`, `CallAnswers` or `CallFails`, `InsertLog`, `Charge`, `CacheSet`;
`ChainAnswers` is the per-key path; `CompletionGet` and `CompletionAnswers` are
legacy completions, which share the cache and none of the checks. Failing checks
let the request pass, as in the code. Money is counted in units of the last
digit of `spend_log.cost`; `Scale` of them make one unit of
`budgets.current_spend`, to which `Rounded` converts a charge. `peak`,
`restricted` and `redacting` are history variables: the most requests of a key
ever between check and charge, whether there has been an objection to a request
since it arrived, and whether the guardrails of its key have been redacting
since. A question stands for what the cache key is made of. What a provider
answers is its cost; what the text matching of the guardrails finds is a choice.

### Translate and Dialogue

A text is the sequence of the pieces it was put together from, so that a
property can say which of them arrived and in which order. Arguments of a tool
call are told apart by what `json.Unmarshal` makes of them: an object, another
value, null, or no JSON. A message of an upstream is a role and blocks - text,
the call of a tool, the result of one - whatever the fields of its format are.
`translateToX(req)` and `translateFromX(reply)` have the names of the functions
in `provider/x.go`; Azure, Hugging Face and OpenAI send and decode the gateway's
own format.

In `Dialogue` a conversation goes through `Ask` (the front end builds a
request), `Augment` or `SearchDirect` (web search), `Resolve` (alias, prefix,
default, and for chat the tool prompt for models without tools), `Send`,
`Receive` or `Fails`, and back to the front end: `ClientReads` (a client of the
chat API, which may answer tool calls in either order and ask any provider
next), `AgentReads`, `ResponseReads`, `CompletionReads`. `said` records what the
upstreams said in their own words; the properties compare it with what the next
upstream receives. Which replies an upstream gives is external: one or two
texts, one or two calls with and without text, arguments of every sort, cut at
the token limit, refused for safety, or no candidate at all.

### Streams

One streamed request. `Open` and `Done` are the handler, `CheckCooldown` and
`Attempt` the router, `NextInChain` the loop of the fallback chain, `Judge` and
`Backoff` `ExecuteStream` after a call. `AnthropicStream` to `VertexStream` post
the translated request and say which parser reads the answer. An upstream's
answer is a sequence of lines (external, one operator per format);
`parseAnthropicSSE`, `parseGeminiSSE`, `parseCohereSSE`, `readOllama` and
`parseOpenAISSE` give for the parser's variables and a line the new variables,
the chunks written and whether the parser returns. `EndOfBody` and `ReadFails`
may come after any line. Each attempt has a chunk id of its own, as in the code.
An error is the phrases of its text before and after `status <n>:`, from which
`ClassifyFromError` works as `routing/errors.go` does.

### KeyStore, Tenants, RateLimit, Runs

`KeyStore`: each statement of `KeyGenerate`, `KeyDelete` and `KeyRotate`, and
each access to the map, is a step; `Stop` and `LoadFromDB` are a restart.
`Tenants`: a call of the administration is a program counter and the row it is
about; checks (`CheckOrg`, `CheckTeam`, `CheckUser`) and counts (`CountOrgs`,
`CountTeams`, `CountUsers`, `CountKeys`) are steps of their own, and a failing
count counts as 0, as in the code. `done`, `overlapped` and `racing` are
history. `RateLimit`: `Trim`, `Card` and `AddEntry` are the Redis commands of
`CheckRateLimit`; an entry is a second, because member and score are the time in
whole seconds; `Remaining` is `GetRateLimitInfo`; `ReadTokens` and `AddTokens`
are `RecordTokenUsage` on a counter with a lifetime. `Runs`: one assistant and
one thread; a call is a run or an agent call; a message is its role, its number
of tool calls and whether it has text.

## 3. Runs

Every run takes between seconds and two minutes.

| Run | Instance | Shows |
|---|---|---|
| `pool` | 2 tasks (one blocking), 2 workers, queue of 1, a graceful and an immediate shutdown | `TaskConservation`, `GracefulDrains`, `CancelReachesTasks`, `StatsAddUp`, `ImplementsTaskPool`, `AcceptedTaskRuns`, `ShutdownReturns` |
| `batch` | 1 batch of 2 items, 2 workers, queue of 1, one failing statement, one crash | `BatchInv`, `CompletedIsTrue`, `EndedStays`, `ItemsLeavePool`, `BatchEndsIfContextLives` |
| `router` | 2 requests (one streaming, one with a larger model), 2 providers (one streaming), 1 retry, threshold 2 | `TrackersExact`, `UpstreamBound`, `EveryRequestReturns` |
| `chat` | 2 requests, 2 keys (one with a chain and one permitted question), 2 questions, any guardrail rows, 1 failing statement, 1 edit | `OvershootBounded`, `Accounting`, `RestrictionsHold`, `RedactionHolds` |
| `dialogue` | 9 providers, 1 alias, 1 model without tools, 1 unknown provider, 2 tools; 6 kinds of requests with up to 2 (chat) or 3 (agent) replies | `HistorySurvives`, `ResultsAnswerCalls`, `PromptsReachUpstream`, `FinishSignalsCalls` |
| `streams` | every provider by name and a chain of three of which one does not stream; 1 retry, 2 streams that begin; a text, and a text with two calls; 5 errors of requests (one a 403 that speaks of a deadline), 2 of connections | `PostedFits`, `OneAnswerPerID`, `DoneHidesNoError`, `NoNeedlessRestart`, `StreamEnds` |
| `keystore` | 3 calls, 3 hashes, 1 failing statement, 1 restart | `DatabaseFirst`, `ActiveKeysAccepted` |
| `tenants` | 3 calls; 2 organisations, 1 team, 1 user, 2 keys; 1 failing statement | `TenantsInv`, `OrgRemains`, `AuditIsTrue` |
| `ratelimit` | 3 requests, 2 seconds and 3 tokens per window of 3, 1 failing command | `WindowInv`, `RefusedForReason`, `SecondsWithinLimit`, `TokensCounted` |
| `runs` | 1 call of either kind, up to 2 iterations with up to 2 tool calls, 1 posted message, 1 failing statement | `LoopInv`, `EndedRunStays`, `RunEndsIfContextLives` |
| `batch_context` | 1 batch, nothing fails, only its request ends | violates `BatchEnds` |
| `tool_calls` | the instance of `dialogue` | violates `ToolCallsReachFrontEnd` |

The invariants that end in `Inv`, `TrackersExact`, `DatabaseFirst`,
`HistorySurvives` and `PostedFits` contain their module's type invariant. All
invariants but those of `dialogue`, `PostedFits` and `OneAnswerPerID` are also
proved for every value of the constants (section 5).

Why the bounds are enough for what they are used for. Two tasks and a queue of
one fill the queue while both workers are busy or not yet there; the two
shutdown functions may overlap. Two items make one worker count last and the
other not, and overflow the queue of one. Two requests give every pair of
overlapping steps on the shared trackers, and a threshold of two needs both.
Two chat requests overlap on one key or use two; one failure at any of the
statements is enough to separate the two writes of `RecordSpend`; `Scale = 3`
with costs 1 and 2 rounds once down and once up, and a budget of one unit is
reached by one charge. A request can find what the other stored, by way of the
chain, of completions or of a key that does not redact, whatever the rows of the
two keys say. One edit blocks, deactivates or changes a row in the middle of a
request; that a block is set and lifted again is covered by the proof. In a dialogue two replies are enough for every ordered
pair of formats to follow each other (a third request carries both), two calls
in one reply and two tools for results to be mixed up, in either order; the
agent loop keeps its model and runs for three. Two streams that begin let the
second overlap the leftovers of the first on the socket; a text of two pieces
and two calls of two pieces can be cut at every place. Three key operations, or
three calls of the administration, allow two to overlap and a third to follow;
two organisations are the least of which one may be deleted, and one team, user
and key beside them give every reference there is. Three requests reach a limit
of two with one left to be refused, and a clock of 4 leaves the window of 3;
they are too few for a check that counts after a later one has trimmed, which
only the proof of `SecondsWithinLimit` covers (section 5). A
single call is enough for runs, whose rows and conversations are never shared
between calls.

`CHECK_DEADLOCK FALSE` is set because every system here may come to rest: all
requests answered, the pool closed, the clock at its bound.

### Fairness

- `WorkerPool`: weak fairness for each starter, worker, task function and
  closer that has been called. The Go scheduler runs goroutines that can run,
  and task functions are assumed to return or panic. Nothing obliges anyone to
  submit or to shut down, and no deadline has to pass.
- `Batch`: weak fairness for the handler's own steps, for the second statement
  of a cancellation, and for the workers; none for the end of a request
  context, for `Crash` or for failures.
- `Router`, `Runs`: weak fairness for the steps of a request that has arrived.
  A provider call, a tool or a statement returns, with an answer or an error.
- `Streams`: weak fairness of `Next`: the one goroutine goes on, and a request
  or a body is answered, ends or fails. Which of these happens is open.
- `KeyStore`, `Tenants`, `RateLimit`, `Dialogue` and `Chat` are checked for
  safety only.

The two liveness properties of `Batch` differ in one condition: with a context
that lives on, an undisturbed batch ends (`BatchEndsIfContextLives`, passes);
with the context of an answered request it does not have to (`BatchEnds`,
violated).

## 4. What the violations show

1. `batch_context`: the items keep the context of the request that submitted
   them (`processor.go:82`); it ends with the answer, every later statement
   fails, and the batch stays in `processing`.
2. `tool_calls`: Anthropic, Gemini, Vertex, Ollama, Cohere and Bedrock put the
   tool calls of a reply into the choice (`anthropic.go:456`), upstreams of the
   OpenAI format into its message. The agent loop reads only the message
   (`agents.go:104,217`) and ends without executing anything; the Responses API
   reads only the choice (`responses.go:142`) and shows no calls of OpenAI.

## 5. Theorems

Proved with TLAPS for every value of the constants that satisfies the named
assumptions.

**`WorkerPoolProofs`** (from `PoolAssumption`): `TypeCorrect`, `TasksConserved`,
`CancelReaches`, `GracefulShutdownDrains`, `StatsAreExact` and
`PoolRefinesTaskPool`. `TaskConservation` is not
inductive by itself: that a task in the buffer runs once needs to know that
what is in the buffer was accepted, has not run and is there once (`QueueInv`),
and that a worker holds a task exactly while it executes it, no two workers the
same one (`HoldInv`). `Inv` is the conjunction of `TypeOK`, these two and
`CancelReachesTasks`; there is one step per action. `GracefulShutdownDrains`
has the hypothesis `SerialStart` and needs `DrainInv`: workers leave only when
the channel is closed and empty, and a shutdown that succeeds has seen all
workers leave - which says something only if all of them had been launched.
`StatsAreExact` relates the counters to the tasks whose outcome `executeTask`
has counted; one action moves one task into that set and one counter by one.
`PoolRefinesTaskPool`, also under `SerialStart`, shows that each step of the pool
is a step of `TaskPool` or stutters: the buffer is its queue, and a task runs
there as long as a worker holds it here. Next to `Inv` and `DrainInv` it needs
`PhaseInv`: at most one call of `Start` launches workers (so no more than
`PoolSize` tasks run), a task is sent only to a started pool, and the channel is
closed only after `closing` is set.

**`BatchProofs`** (from `BatchAssumption`): `RowsFitCounters`,
`CompletedBatchesAre`, `EndedBatchesStay`. The counters of a batch are not
tied to its rows by any one statement, so `BatchIInv` says for every place of an
item what has been done about it: in the queue once and untouched (`QueueInv`),
with a worker, counted, or refused (`PlaceInv`), and adds up the counters over
these places (`LedgerInv`): an item is counted at most once whatever fails, and
as long as nothing has failed the counters plus what is owed are exactly the
items that ended or were refused. `EndedStays` follows because no worker is left
that could count another item of a completed batch.

**`RouterProofs`** (from `RouterAssumption`): `TrackersAreExact`,
`UpstreamIsBounded`. `PlaceInv` says where a request can be on which route and
`CallsInv` what it has cost so far: `PerAttempt` for each attempt that is over,
and for the one under way what the members of the chain it has passed can cost.
The in-flight count is a cardinality, so each action that moves a request over
`Increment` or `Decrement` changes one set by one element.

**`MiddlewareProofs`, on `KeyStore`** (from `KeyStoreAssumption`): `DatabaseIsFirst`,
`ActiveKeysAreAccepted`. `HashInv`: a generated hash is nobody else's and has no
row before its INSERT, and what is about to be added has one. `CoverInv`: as long
as nothing failed, an active key that the map lacks is about to be added, and
what is about to be removed is inactive. `SerialInv` is its converse for calls
that do not overlap, `DownInv` says that no call outlives the process.

**`ChatProofs`** (from `ChatAssumption`): `ChatTypeCorrect`,
`BudgetOvershootBounded`, `RestrictedRequestsAreRefused`,
`UnredactedAnswersHaveASource`, `AnswersAreLoggedOnce` and `SpendIsAccounted`.
That the spend of a key stays below `MaxBudget + (peak + faults) *
Rounded(MaxCost)` is not inductive, since nothing in it says who is still going
to charge. `BudgetInv` pays one charge in advance for each request between check
and charge (`Open`): what was spent plus `|Open| * MaxCharge` is covered by
`MaxBudget - 1` plus one charge per unit of `peak` and of `faults`. The budget
check may add a request to `Open`, but then it saw less than the budget (or, for
a key without a row, nothing is ever charged) and is counted in `peak`; or the
query failed, which is counted in `faults`; or the client has gone, and the
request will not be charged at all. The charge takes its request out of `Open`
and uses up what was paid. All other actions are `Quiet`. The arithmetic rests
on the monotonicity of `\div` and `*` and on the library's facts about
cardinality. `RestrictionsHold` needs that a request under a lasting objection
is still in front of the check that will refuse it (`Held`); edits of the tables
that lift the objection also lift the mark. `RedactionHolds` is about what a
client is sent, and needs to know where answers come from. `OwnInv` follows each
request: before its answer it has none, an answer of the router was filtered
under the configuration the request loaded, and that is the one of the key's row
as long as the row stays and the query succeeds. `LeakInv` says the same of the
cache: what is stored, or was taken from it, without having been redacted has a
source, a request for the same question that has returned and was not filtered;
once returned a request keeps its answer and its configuration, so a source
stays one after the entry has expired or was replaced. `AccountedOnce` follows
from `AnswerInv`, which says at each place of the handler whether the request's
row of `spend_log` has been written. `SpendIsAccounted` adds the other half of
`Accounting`, that `current_spend` is the sum of the rows but for half a unit of
rounding each. `SpendInv` says so of the requests that are past their charge, as
long as no statement failed and no client has gone; the charge moves one request
into the sum, and `Rounded` is off by at most half a unit.

A sum over a set of requests (`MapThenSumSet`) is defined by recursion over the
set, and what it is has to be shown by induction. `ChatProofs` and
`MiddlewareProofs` each begin that with the same few lemmas: the recursive
definition has a solution, the sum of the empty set is 0, and one more request
adds its value. The library's induction theorems cannot be used, so each lemma
takes a least counterexample among the finite subsets instead, which exists
because the strict subset ordering on them is well-founded
(`FS_StrictSubsetOrderingWellFounded`, `WFMin`).

**`TenantsProofs`** (from `TenantsAssumption`: the ids of the four tables are
different things, organisations and calls are finite in number):
`ReferencesAreKept`, `AnOrgRemains`, `AuditTellsTheTruth`. That a user or key is
in the organisation of its team holds although calls overlap and no foreign key
enforces it: a team's organisation never changes and its id is made once
(`OneMaker`, `Unborn`), so what a call has checked about it stays true even
after the team is gone (`TeamFits`, `CallTeam`). References need more, what a
call has checked or counted is still so (`Checked`), and this only for calls
that follow one another. `OrgInv`: as long as no two calls of `DeleteOrg`
overlapped, the other organisation that one has counted is still there.
`Logged`: the audit entries plus the calls that are about to write one are
at most what was done, and exactly that as long as nothing failed.

**`RunsProofs`** (from `RunsAssumption`): `LoopKeepsItsProtocol`,
`EndedRunsStay`. `Followed` generalises the protocol to the middle of an
iteration: every answer is followed by its results, but for those that are still
to be appended, which can only belong to the last answer. `Counts` says which
iteration is under way; `EndsLast` that a run ends in the last statement of its
handler. The thread's messages make no calls (`Plain`), so a conversation that is
loaded from it is followed trivially.

**`MiddlewareProofs`, on `RateLimit`** (from `RateLimitAssumption`): `WindowIsWhole`,
`RefusalsHaveAReason`, `SecondsAreLimited`, `TokensAreCounted`. The first needs that a request reads
a time that has passed, and that each entry has a request that was let through
(`Times`, `Backed`). The second relates what a request has trimmed to the
requests let through since (`ReasonOf`). For the third each window is in one of
two conditions. `Whole`: none of its seconds has been trimmed, so every request
that was let through has counted them all, but for those added at the same time
(one per further request being checked). `Over`: one has been trimmed, hence the
clock has left the window, no new request can enter it, and those that are still
being checked for it were under way together with the one that trimmed: one more
each. The proof found the bound that was first stated here, one per overlapping
request, to be wrong: with four requests, a limit of 1 and a window of 3, a
request that stands still between reading its clock and counting finds the
entries trimmed by a later one. The bound of two is reached in that example;
`ratelimit` has three requests, for which both bounds hold. `TokensAreCounted`
rests on `TokensInv`, in the manner of `BudgetInv`: what requests have compared
with the limit and are still to add is paid in advance, and what was added less
than a window ago is in the counter, because each addition also renews the
counter's lifetime.

**`StreamsProofs`** (from `StreamsAssumption` and `ErrorsAssumption`):
`StreamsAreWellFormed`, `DoneIsHonest`, `RestartsAreNeeded`, for any chain, any
number of retries, any answers and any errors. `FlowInv` follows the error of
the latest stream through the places of the handler: while it is read it has
none, in `Judge` it is the one that is judged, and in front of another attempt
it is one that may be followed by another (`Excused`): not Nil, and for a
provider asked for by name nothing that `IsRetryable` refuses. `FinalInv` says
that nothing follows the finish chunk of Cohere or Ollama but `[DONE]`: their
parsers return with that chunk, so there is no error to retry after. That the
chunks are sequences at all, whatever lines an upstream sends to a parser, is a
lemma for each of the parsers. The proof found `NoNeedlessRestart` as it was
first stated to be wrong: `ClassifyError` looks for `deadline exceeded` in the
whole text before it looks at the status (`errors.go:62`), so an answer 401 or
403 that mentions one is a timeout and is retried. `Denied` now excludes it, and
`streams` has such an error.

Only model-checked, and why:

- `AcceptedTaskRuns`, `ShutdownReturns`, `ItemsLeavePool`,
  `BatchEndsIfContextLives`, `EveryRequestReturns`, `StreamEnds` and
  `RunEndsIfContextLives`: liveness under fairness is out of the prover's reach.
- The invariants of `Dialogue`, and `PostedFits` and `OneAnswerPerID` of
  `Streams`: they compare the blocks of some type of a conversation before and
  after `Translate`, with `SelectSeq`, which tlapm cannot expand and has no
  facts about, not even for sequences of one element. They are checked over all
  short conversations and streams instead.


## 6. Observations

Behaviour met while reading and modelling that no run is devoted to.

- Worker pool: `Submit` checks `closing` and sends later (`pool.go:158,167`); a
  shutdown that closes the channel in between makes the send panic in the
  caller, where `pool.go:156` promises an error. Two overlapping `Start` calls
  both launch workers (`pool.go:94`); `main` calls it once.
- Batch: when the last item to be counted is one the pool refused, nobody calls
  `checkBatchComplete` (`processor.go:90`) and the batch stays in `processing`.
  The update to `processing` (`processor.go:46`) has no condition and undoes a
  cancellation that came before it; a worker that is already at work replaces
  the status of a cancelled item (`processor.go:130`). After a restart nobody
  takes up the items of a running batch. The task timeout does not reach the
  provider call: tasks ignore the context the pool gives them
  (`processor.go:86`).
- Routing: an answer on the second try with a larger model is not recorded as a
  success, the failure before it is (`fallback.go:98`). The cooldown is looked
  at once, before the retries (`router.go:52`). The timeouts of the providers
  (`README.md:630-641`) are never applied: the derived context is thrown away.
- Streams: a stream that fails after some chunks is started again from the
  beginning (`retry.go:88`) under a new id; since the OpenAI, Anthropic and
  Gemini parsers read on after the finish chunk, even a finished answer may be.
  The counter of tool calls moves at every `content_block_stop`
  (`anthropic.go:285-289`; its comment speaks of tool blocks), so the first call
  after a text has index 1; Gemini and Ollama number calls within one event, so
  calls in separate events share index 0. Ollama's finish reason is never
  `tool_calls` in a stream, and `dec.More()` takes a broken connection between
  two messages for the end. A body that ends early is followed by `[DONE]` in
  every format. Anthropic's `error` events are skipped, errors of the socket are
  ignored, and the handler makes none of the checks of the chat pipeline.
- Translation: of several text blocks Anthropic's last one is kept
  (`anthropic.go:429`), of several system messages Anthropic's and Gemini's last
  one. A tool's result loses the id of its call in Ollama's format
  (`ollama.go:445-466`), and in Gemini's and Vertex's it keeps the name of the
  function only (`gemini.go:390`): results of parallel calls (with Gemini, of one
  function) that the client gives in another order than that of the calls are tied
  to nothing, or by position to the wrong call. `ResultsAnswerCalls` allows this
  and shows that it is the only case. The Responses API puts search results into a system message of its own
  before the instructions, so those two formats lose them; it also turns
  `function_call_output` items into empty user messages. `tool_choice` does not
  reach Ollama, Cohere and Bedrock. `Augment` leaves `web_search_options` in the
  request when it finds nothing (`service.go:36-44`). Nothing calls
  `ExtractToolCalls`, so the calls a model makes by the tool prompt stay text.
- Keys: a key deleted between the INSERT and the `Add` of its generation stays
  accepted until a restart (`keys.go:133`, against `keystore.go:12`). A rotation
  that fails after the deactivation leaves the old hash in the map
  (`keys.go:267`); two overlapping rotations of one key produce two active keys
  (`keys.go:254`).
- Tenants: two overlapping calls of `DeleteOrg` can delete the last two
  organisations (`orgs.go:97`). Its comment speaks of keys, which it does not
  count (`orgs.go:105`). A count that fails counts as 0 and the row is deleted
  (`orgs.go:107`, `teams.go:122`); a creation that overlaps a deletion leaves a
  reference to a row that is gone, as does a rotation that overlaps
  `DeleteTeam`. The audit log names a created user by `user_id` and a deleted
  one by its row number.
- Rate limit: requests of one second share one entry (`ratelimit.go:36`), so the
  limit counts seconds with requests, not requests. The boundary of the window
  is included by one command and excluded by the other (`ratelimit.go:59`). The
  result of the token counter is ignored (`chat.go:156`): it refuses nothing.
- Runs: the last message of the conversation is stored as the assistant's reply
  (`agents.go:251`, `assistants.go:543`), also when it is a tool result or the
  client's own message. `CreateRun`'s later statements overwrite the status of a
  run that was cancelled meanwhile (`assistants.go:561`). Messages are ordered
  by whole seconds (`assistants.go:471`).
- Budgets: no handler creates rows in `budgets` or `blocked_users`; the
  `max_budget` of a key is stored in `virtual_keys` and never looked at, though
  `README.md:155` promises budget enforcement per key, user, team and
  organisation. `reset_period` is never used. `current_spend` has four digits,
  so calls below half of the last one are never charged, while `spend_log`
  keeps six. `CheckAndAlert` reports a threshold on every charge above it, not
  when it is crossed (`alerts.go:12`).
- Chat: the per-key fallback path skips output guardrails, cost and accounting
  and stores the answer, unfiltered, in the cache that other keys read
  (`chat.go:102-110`), and so do completions; a cached answer is returned
  without the filter of the key that asks (`chat.go:133`). So `README.md:117`,
  "Replace PII in responses", is not kept for a key with a fallback chain, nor for
  one that asks what was asked before over a chain, by completions or under other
  guardrails; `RedactionHolds` allows these and shows that there are no others
  unless a query fails. The cache key leaves
  out tools, `top_p`, `stop` and the provider. Guardrail rows of a key count only
  when guardrails are on globally. A key that is deactivated between two checks
  passes the rest. The other endpoints skip the key checks altogether.
- Fine-tuning: no code moves a job out of `queued` or writes an event, and
  `proxyOpenAIFineTuning` returns nothing, which is answered as `null`.
- Configuration: the watcher remembers the hash of a file before it has loaded
  it (`watcher.go:60`), so a file that was read half-written is not tried again
  until it changes once more. `main` starts neither the watcher nor `Gateway`,
  and `createProvider` of the builder returns nil for five provider types.

## 7. Not modelled

- Embeddings, images, audio, moderations and rerank: one call of a provider and
  a decoded body, no state and no decision after it.
- Prices (floating point), the admin UI, the pages and the read-only handlers.
- Fine-tuning jobs and files: single statements on rows nothing else acts on.
- Selection strategies, latency and usage trackers and the request queue: the
  router never calls a strategy, and no decision reads the trackers.
- The configuration watcher, the builder and `Gateway`: `main` uses none of them.
- Sampling parameters, headers, signatures and the layout of prompts and search
  results: data that no decision of the gateway reads.

Requests without a key skip all checks and accounting; `Chat` starts after the
key has been accepted.

## 8. Plan

The modules were written in this order, most important behaviour first:
`TaskPool`, `WorkerPool` with its proofs, `Batch` on top of `TaskPool`,
`Router`, `KeyStore`, `RateLimit`, `Runs`, `Chat` with its proofs, `Translate`,
`Dialogue`, `Streams`, `Tenants`. What could follow: the order of messages of
one second in `Runs`; the selection strategies as functions against reference
definitions; the watcher and `Gateway.Swap`, should `main` come to use them.

Proofs: all safety properties of eight of the ten modules with a run are proved,
and those of `Streams` that are not about the contents of messages. What is
left: the six invariants named in section 5, which need a filter of sequences
that the prover can expand in the place of `SelectSeq`, and facts about it and
`Concat` by least counterexamples, as for the sums.
