# A TLA+ model of the Prefab Go client

This directory holds a TLA+ specification of `prefab-cloud-go`, a client library
for feature flags and dynamic configuration. It models the parts of the library
that run concurrently or depend on what the network does: the store of
configurations and its event stream, the construction of a client and the
waiting for its initialization, the evaluation of a config while the store
changes, and the telemetry pipeline. It also models what decides a client's answers
without concurrency: the options and the sources, the YAML parser, the conversion of
values, semantic versions, and contexts on their way from a caller to a report. TLC
checks all of it on small instances. TLAPS proves, for every value of the constants,
every invariant and every action property that these runs check, some of them under a
hypothesis that is named, and that the store implements its abstract specification; what
is left to TLC alone is liveness.

## The system

| Component | State it keeps | Operations | Where |
|---|---|---|---|
| API config store | `configMap`, `highWatermark`, `contextSet`, `projectEnvID`, `Initialized`, a read-write lock | first fetch with retries, `SetFromConfigsProto`, reads | `pkg/internal/stores/apiconfigstore.go` |
| SSE client | the subscription and its header `x-prefab-start-at-id` | subscribe, handle a message, reconnect | `pkg/internal/sse/sseclient.go` |
| HTTP client | none | `Load` over a list of URLs | `pkg/internal/httpclient.go` |
| Client | the stores, the channel `initializationComplete`, a `sync.Once`, the telemetry submitter | `NewClient`, value getters, `Keys`, `GetConfig` | `pkg/client.go` |
| Composite store | a list of stores | first store that has a key; first that has a context value | `pkg/internal/stores/composite_config_store.go` |
| Local, dump, memory stores | a map, never written after construction | load a file or a Go map | `pkg/internal/stores/` |
| Telemetry submitter | a bounded channel, a mutex, the aggregators | record, consume, submit, retry | `pkg/internal/telemetry/submitter.go` |
| Aggregators | one map and one mutex each | `Record`, `GetData`, `Clear` | `pkg/internal/telemetry/*_aggregator.go` |
| Config resolver | none of its own (a shared random source) | `ResolveValue` | `pkg/internal/config_resolver.go` |
| Rule evaluator | none | rows, criteria, segments | `pkg/internal/config_rule_evaluator.go` |
| Weighted values, hashing | a random source | pick a variant | `pkg/internal/weighted_values.go` |
| Semantic versions | none | parse, compare | `pkg/internal/semver/semver.go` |
| Contexts | maps of the caller | merge, look up, group | `pkg/internal/contexts/context.go` |
| Options and sources | plain values | the `With...` functions | `pkg/internal/options/`, `pkg/option_helpers.go` |
| Parsers, config values | none | YAML and JSON files, conversions, ISO durations | `pkg/internal/local_config_*`, `pkg/internal/utils/` |
| Encryption | none | AES-GCM of the standard library | `pkg/internal/encryption.go` |

How they interact. `NewClient` builds one store for each source. The API store
starts a goroutine that loads a snapshot over HTTP from its watermark; when that
succeeds it writes the store, calls back `finishedLoading` - which closes the
client's channel - and starts the stream; when it gives up it starts the stream
only. The stream's goroutine sends the watermark as a header, writes each message
into the store and goes round when the connection ends. A call merges contexts,
queues them for telemetry, waits for the channel or for its timeout, finds the
config in the first store that has it, evaluates its rows (asking the store for
the environment id, then for context values and segments), and queues the match
for telemetry. One goroutine moves queued items into the aggregators; a ticker
and explicit calls to `SendTelemetry` empty these and post what they held.

What is hard about it, and what makes it correct:

- *The store.* `SetFromConfigsProto` replaces the context set without the lock
  and the rest under it; readers take the lock once for each read. Ids and
  tombstones decide what replaces what, and the watermark decides what the stream
  resumes after. Correct means: no update below the watermark is missed, nothing
  goes back to an older version, there is one writer, an evaluation finds an
  environment and a context that fit its config, and the store converges unless the
  first request is never answered.
- *Initialization.* The load races the constructor, several timed-out calls and the
  load all want to close one channel, the timer races the channel. Correct means: no
  panic, every call returns, calls answer from loaded data when they are meant to,
  and an initialized client does not time out.
- *Evaluation.* The config, its environment, each property and each segment are
  read apart, while the store may change; segments nest; a decryption key is a
  second evaluation. Correct means: the rule taken is the one that what was read
  means, a negated operator is the negation, no call runs for ever, and nothing
  confidential comes out unmarked or still encrypted.
- *Options, sources and values.* Options overwrite each other in order, the API key
  and the URLs are read from the environment at different times, maps of YAML are
  iterated in random order, and a value goes through a protobuf and back. Correct
  means: a key has the value that the first source declaring it gives it, the value
  that was given comes back from the getter of its type, an offline client asks the API
  for nothing, one key serves every connection, and construction panics for known
  reasons only.
- *Contexts.* Sets hold pointers to named contexts, merged without copying; the queue
  is read after the call, when its caller may have written to the values. Correct
  means: a call is answered for its own contexts, and what is reported is what calls
  saw, counted under the right config, rule and value.
- *Telemetry.* Aggregators are cleared before the request is made, requests fail in
  the middle or are never answered, two submissions and the consumer interleave, the
  queue overflows. Correct means: no submission brings what another one brought, nothing
  is lost but what was dropped or given up, success is only reported for what the server
  has, and calls return unless a request is never answered.

## The modules

| Module | What it is |
|---|---|
| `ConfigReplica` | abstract specification: the view of a log at a position that only moves forward |
| `ApiConfigStore` | API store, HTTP load, SSE goroutine and evaluations, with the server as environment |
| `MCApiConfigStore` | instances of it for TLC |
| `ApiConfigStoreProofs` | its theorems and their proofs |
| `SemVer` | reads, compares and prints semantic versions, from their characters |
| `Encryption` | when `DecryptValue` refuses a text and when it panics |
| `WeightedValues` | the choice among weighted values |
| `Criteria` | the operators of criteria, over values of every kind |
| `CriterionVerdicts` | one criterion after another against one context after another |
| `CriteriaProofs` | theorems on its verdicts, and their proofs |
| `MCCriteria` | values of every kind for TLC |
| `MCCriterionVerdicts` | `CriterionVerdicts` with these values |
| `ConfigResolver` | one call of `ResolveValue` over the list of stores, while the API store changes |
| `MCConfigResolver` | stores and configs for TLC, with the values of `MCCriteria` |
| `ConfigResolverProofs` | theorems about an evaluation and their proofs |
| `MeaningProofs` | the theorem that the rule taken is the one that was meant, and its proof |
| `ClientInit` | `NewClient`, the channel, calls waiting for it, the list of stores |
| `MCClientInit` | instances of it for TLC |
| `ClientInitProofs` | its theorems and their proofs |
| `ConfigValues` | Go values to `ConfigValue`s and back, durations |
| `ClientOptions` | the defaults, the `With...` options, what the environment adds |
| `NewClient` | options, stores, the YAML parser, credentials, the typed getters |
| `SourceValues` | what the sources of a client mean, YAML among them, apart from any order |
| `MCNewClient` | environments, options, files and values for TLC |
| `NewClientProofs` | theorems about options, sources and panics, and their proofs |
| `Calls` | contexts from the caller to the aggregators |
| `MCCalls` | instances of it for TLC |
| `CallsProofs` | its theorems and their proofs |
| `TelemetrySubmitter` | queue, consumer, aggregators, submissions and their retries |
| `MCTelemetrySubmitter` | instances of it for TLC |
| `TelemetrySubmitterProofs` | its theorems and their proofs |

Operators whose name ends in `Mistake` are not part of a specification: each is a
plausible error in the definition that follows it (a dropped guard, a missing
unlock, an off-by-one). Put in its place, it makes a named property fail, which
shows that the property is about that code.

### ApiConfigStore

The server is external. It is an append-only `log` of versions; a version's id is
its position, and a version without rows is a tombstone. A message stands for a
range of ids and carries the newest version of each key that changed in the range.
`configMap` maps a key to the id it holds (0 for none), `contextSet` is the length
of the log when the default context held was sent (-1 for a nil pointer).

- `LoadSucceeds`, `LoadFails`, `LoadHangs`, `Retry`, `FetchSetContext`,
  `FetchSetConfigs`, `FinishedLoading`, `Then` are the steps of `fetchFromServer`; the
  recursion of the code is the loop over `retriesAttempted`. A load may bring an old
  snapshot (a copy in a CDN). `LoadHangs` is a server that accepts the request and never
  answers: `http.DefaultClient` has no timeout (`httpclient.go:67`), so the goroutine
  waits for ever, and there is neither a retry nor a stream.
- `ReadWatermark`, `Connect`, `Deliver`, `StreamSetContext`, `StreamSetConfigs`,
  `SubscribeReturns`, `Reconnect` are the loop of `StartSSEConnection` with its
  handler; `DeliverUndecodable` is the handler's early return, which lets the next
  message raise the watermark past the lost one. `LibraryReconnects` is the SSE
  library's own reconnection, which repeats the old header.
- `SetContextSet` and `SetConfigs` are the two halves of `SetFromConfigsProto`,
  shared by both goroutines. `setConfig` is the code's switch, with Go's precedence.
- `GetConfig`, `GetProjectEnvID`, `GetContextValue` are the reads of an evaluation,
  a step each because no lock is held between them.

Three constants say what the server and the library may do: `SplitCatchUp` (what
a connection missed may come in several messages), `LibraryRetries`, and
`Undecodable`. `NoMissedUpdate` needs that the first two are not both true: if the
library resumes with an old header *and* the server then splits the catch-up, the
first piece can bring back a key whose deletion the store had already applied and
forgotten, below the watermark. TLC finds this at once with both constants TRUE;
whether the server ever does so is not in this repository, so it is stated as an
assumption (`NoSplitReplay` in the theorems) and not as a defect. It is assumed
throughout that every message carries the default context and a config service pointer
with the environment's id: without the pointer `SetFromConfigsProto` sets an id of 0
(`apiconfigstore.go:74`) and without the context an empty one.

A tombstone for a key that is not held is stored as a config without rows, and
`GetConfig` and `Keys` then report it. The model does the same. `ImplementsReplica` does
not tell the two apart, since its mapping shows a config without rows as none: an
evaluation that has this store alone gets no match from either. A client with several
stores can tell: `CompositeConfigStore.GetConfig` stops at the first store that reports
the key, so a source after the API that has the key is not asked, as it would be if the
tombstone had removed the key. Which of these is meant, the repository does not say,
and no property forbids what the code does.

### ClientInit

The API store is reduced to what a caller can tell: whether it has data, and where
its goroutine is. `BuildConfigStore`, `CheckConfigs`, `AssignClient`, `ReturnClient`
are `NewClient` from its loop over the sources to its return. `CloseOnce` is
`once.Do(close(channel))`, used by the load's callback, by timed-out calls and by the
constructor; it panics on a nil channel. `AssignClient` replaces channel and Once
together. A caller starts with `StartCall` (it looks at the channel first unless its
timeout is zero), then `AwaitSucceeds` or `AwaitTimesOut`, then resolves.
`GetContextValue` stands for the rules that ask for a property the caller did not
give: every store is asked, and the API store dereferences its context set.

The variable `options` is chosen once from the constant `Options`, so that one run
looks at several kinds of client. The first load may end while `NewClient` is still
running: an HTTP round trip in that time is unlikely, but nothing in the code
excludes it. A load that succeeds before the channel has been made closes a nil
channel and takes the process down; the model has this, and `NeverCrashes`, which
speaks of the time after `NewClient` has returned a client or an error, does not
forbid it. A load may also never be answered: nothing makes it end.

### The evaluation

`ConfigResolver` has one call at a time, since calls share no state that matters,
and an API store that `UpdateApiStore` may replace between any two steps. The other
stores of the list are constant. `stack` holds the evaluations under way: one of
`EvaluateConfig` for the config, or for the key of an encrypted value, and one more
for each segment being looked at. `SelectRows` asks for the environment and lays out
the rules to try, `EvaluatePropertyCriterion` judges a criterion against the
first context that has the property, `EnterSegment` pushes a segment's config,
`RuleMatches` and `NoRuleMatches` end an evaluation. The other actions are the
branches of `ResolveValueForConfig` with all their errors.

`Criteria` defines every operator but the two on segments. Texts are opaque: whether
one is a prefix of another, a date or matches a pattern are constant
operators, and `Spelling` gives the characters of those that may be numbers or
versions. Numbers have their Go kind; `FloatBits` and `MaxInt` stand for the 53 bits
of a float and for the largest int64, so that rounding to a float is computed and not
assumed away. `WeightedValues` adds weights with the wrap-around of an int32
(`MaxInt32`); the fraction of a user is `Sum32`, a constant, over `MaxUint32`, and
`EveryValueGetsItsShare` counts, for the variants a call is about to choose from, how
many of `Buckets` fractions lead to each: its share to less than one of them.
`coerceValue` makes a provided text the type its config declares, with the `Atoi` of
`SemVer`. A provided value is looked up as `WithEnvLookup` says (`EnvLookup`), but a
secret key that is provided is read from the environment itself (`OSLookupEnv`), and a
secret may also be JSON that is a string (`JsonText`). `Encryption` has every check
around AES-GCM, which is a constant: the digits of the key and of three parts, and the
text too short for its tag, on which the code's slicing panics.

`SemVer` splits, matches and converts sequences of characters as the code does.
A version is printed and read back within `VersionsAreOrdered`, which also says that
`Compare` is a total preorder. The code's order is not that of semver.org, which line
20 of `semver.go` claims to follow: `strconv.Atoi` takes a sign and fails when it
overflows, so the identifiers `-5` and `-05` are numbers, which compare as equal (line
169) though `Equal` (line 208) tells them apart, and a very long number is a text. It is
enough that one of the two has a sign: `1.0.0--0` and `1.0.0-0` compare as equal too.
`VersionsAreOrdered` excepts just the versions with such an identifier.

`CriterionVerdicts` is about what the operators have to do with each other. Its state is
a context value and a criterion value; a step is a call with another context, or the
same call going on to another criterion. Its properties compare the verdicts of several
operators on the same two values: that one is the negation of another, that no
comparison contradicts the order of the numbers and a range does not depend on
whether a number came as an int or as a float, that versions are in one order and
read back as they were printed.

`read` is a history variable: what the call read of each config and property.
`AnswerIsTheMeaning` compares the rule taken with `Meaning`, which defines without
steps or stack what the configs stand for. If the store changed so that one config
or property was read in two versions there is no one meaning and nothing is claimed;
if each was read in one version, be they of different versions of the store, the
answer must be theirs.

Abstracted: a config's `decryptWith` is on strings only; marking a variant as
confidential also writes to the stored variant in the code, which nothing can tell
since a variant is only reached through the value that marks it; an API store that
was never loaded (its nil context set is in `ClientInit`).

### NewClient

`ApplyOption` applies one option, `Build...Store` makes the store of one source,
`MakeClient` is the check of the sources and the telemetry submitter, whose ticker
panics for an interval that is not positive, and `Load` what
the API's goroutine fetches later. An option, a source or a file that is refused ends
in `failed`, a panic in `panicked`. A config stands for the one value its rules yield.
`PanicsForKnownReasons` has five reasons: no source at all (`client.go:124`), the API
without a URL (`apiconfigstore.go:34`), a JSON file without a config service pointer
(`local_config_json_parser.go:19`), a list of nils among the values of a file or a map
(`helpers.go:47`), and an interval of `WithTelemetrySyncInterval` that is zero or less
while there is telemetry to send (`submitter.go:85`). Under `log-level` the parser takes
texts only, unless it is a flag, so that a list of nils there is an error and no panic.

A YAML file is a tree of Go values. `frames` are the maps being iterated, each with
the names not yet visited; `handleMapKeyValue` takes any of these, as Go's iteration
may, and adds the configs it makes to `parsed`; `MapDone` ends an iteration and, at
the end of the outermost, makes a map of the configs in which the last one with a key
stays. Keys are sequences of the segments between their dots, and so are the names of
maps, which may have dots: the same key can be given by two paths. What a tree means
is stated apart, without order, in the module `SourceValues`: `Maps` has the maps of a
tree with the paths that lead to them, level by level down to `MaxDepth`, and `Leaves`
has what each of them declares, from the parser's tests.

The getters are operators over `stores`: `GetConfig`, `fetchAndProcessValue`,
`GetValue`, and those with a default. `ConfigValues` has `Create` and `Extract`
with their odd cases: a list that is not of strings becomes a value without a type
and no error, a list of nils panics, a map is JSON and its numbers come back as
floats, a map that JSON refuses becomes an empty text. A duration is written with
years of 365 and months of 30 days, whose remainders do not nest, and with seconds
rounded half to even unless there are no hours and minutes; it is read with the
library's month and year (constants). `ConfigsComeBack` states what that leaves:
exact if it has whole seconds or is below a minute, within half a second otherwise,
nothing from a month on. The lengths in the run are one of each kind.

`credentials` has the key with which HTTP, stream and telemetry are asked. The HTTP
client completes its own copy of the options from the environment; `api_key_env`
shows that the others are left without.

### Calls

`values` maps a named context to what the caller gave, `global` and `bound` are the
sets of the client and of those made by `WithContext`; a set maps names to named
contexts, which stay shared. `GetValue` is a getter: it merges, queues the merged set,
and starts; `GetConfigMatch` does not queue. `ResolveValue` looks the property up in
the values as they are then, and queues the match. `internalRecordContext` and
`internalRecordEvaluation` are the consumer with the three aggregators: `GroupedKey`
and `ToProto` for examples, the types of fields for shapes, `GroupingKey` and the
counters for summaries. `Submit` takes and clears them in one step, since
`TelemetrySubmitter` has that race. `ChangeValues` is a caller that writes to a map it
gave before.

History is kept in two forms: a set carries the values it stood for when it was made
(`meant`) and the named contexts written to since (`touched`), and `seen` has what each
aggregator was given. The properties speak of what was meant, and except only what was
touched.

A grouped key joins names and keys with separators in the code; they are taken to
have none of these. Configs of files and maps have no id, so the summaries conflate
those that have the same rule and value: `SummariesCountEveryMatch` says what is left.

### TelemetrySubmitter

Each evaluation and each context is an element of its own, so that a counter is the
set of what it counted. `enqueue` never blocks. `SetupQueueConsumer` takes an item
and `Record` gives it to one aggregator at a time, under that aggregator's lock.
`Call`, `Lock`, `Drained`, `Collect` (one aggregator: `GetData` and `Clear`),
`Collected`, `Marshal` and `retryRequest` are `Submit`, from the ticker or from
`SendTelemetry`. One attempt either sends nothing (no connection, or no body left:
`net/http` then reports that the length does not match), or is answered
with 200, or reaches the server and its answer is lost or is not a 200, or is turned
away, or is never answered. All but the first use up the body.

The request is built once and sent again by each attempt, so that after one which used
up its body the next has none over a fresh connection. Over a reused one it may have:
`http.NewRequest` with a `bytes.Reader` (`submitter.go:177`) sets `GetBody`, with which
`net/http` rewinds the body when it finds that nothing was written to the reused
connection. `retryRequest` chooses freely between these (`reused`). A payload is
therefore sent at least once until it is given up, and the server may get it again from
the same submission when its first answer was lost; `recounted` leaves this out and has
only what two submissions brought. `Hangs` is a server that never answers: the client is
`http.Client{}` without a timeout (`submitter.go:22`), so `Submit` never returns, keeps
the mutex, and no other submission gets past `Lock`.

The branch that returns nil because there is no event is taken only when there is
no aggregator: summaries and shapes always give an event, be it empty.

## What is checked

Every run finishes; the numbers are distinct states.

| Run | Instance | Question | States |
|---|---|---|---|
| `store_redelivery` | 2 keys, 3 versions, 1 reader, 1 retry; catch-ups may be split, the library repeats old headers, decoding may fail | types, `SingleWriter`, `EvaluationIsConsistent`, `LoadedStoreIsUsable`, `NoRollback` | 380 370 |
| `store_live` | 2 keys, 4 versions, catch-ups may be split, fairness | `NoMissedUpdate`, `ImplementsReplica`, `EventuallyConverged` (versions and keys), `StreamStartsUnlessLoadHangs` | 92 174 |
| `init_sound` | 5 kinds of client (API with both failure modes, file before API, file and dump, `WithConfigs`), 2 callers, 2 keys, fairness | types, `NeverCrashes`, `AnswersComeFromInitializedStore`, `InitializedClientNeverTimesOut` (nor does one without the API), `EveryCallReturns`, `LoadReleasesCallers` | 7 862 |
| `new_client` | 5 environments and 63 sequences of options; 14 files; values of every kind, durations of 4 lengths | `FirstSourceWins`, `ConfigsComeBack`, `OfflineStaysOffline`, `PanicsForKnownReasons` | 3 527 |
| `calls` | 2 callers, 1 bound client, 2 calls, 1 write to values that were given, 6 named contexts, 3 configs or none, 3 modes | `AnswersAreForTheirContexts`, `ExamplesAreWhatCallsSaw`, `ShapesAreWhatWasSeen`, `SummariesCountEveryMatch`, `PanicsForOddContextsOnly` | 544 710 |
| `resolver` | 3 stores, 9 keys, 2 versions of the API store and 2 changes during a call, 3 contexts, fairness | `AnswerIsTheMeaning`, `SegmentsNestFinitely`, `ConfidentialStaysConfidential`, `ProvidedValueHasItsType`, `EveryValueGetsItsShare`, `EveryCallReturns` | 3 640 |
| `criteria` | 92 context values or none, 83 criterion values, 60 of each texts that are versions or nearly so | `NegationsAreComplements`, `NumbersKeepTheirOrder`, `VersionsAreOrdered` | 7 719 |
| `telemetry_counts` | every combination of options, 2 evaluations, 2 contexts of one key, queue of 2, 2 attempts, ticker and a sender | types, `EverythingCountedOnce`, `DrainMissesAtMostOne`, `OneExamplePerKey`, `SuccessMeansReceived` | 2 656 869 |
| `telemetry_live` | shapes with or without summaries, or no telemetry; 2 evaluations, 1 context, queue of 1, fairness | `EverySubmitReturns`, `EverythingIsSettled` | 136 934 |

### Where the code and its documentation disagree

Each of these runs checks one statement of the repository and ends with a
counterexample; `PROJECT.json` has the quotations.

| Run | What the code does |
|---|---|
| `init_stuck` | after the last failed load the stream may fill the store, but nothing completes the initialization any more |
| `telemetry_retry` | a retry of a request that was sent has no body of its own: over a fresh connection it fails before anything is sent |
| `api_key_env` | an API key from the environment reaches the HTTP client's options only: stream and telemetry are asked without a key |

Four more are part of the model and can be seen by changing `Options <- Sound` in
`ClientInit_sound.cfg`. With `FileFirst`, `ReturnNilMatch` lets a timed-out call on to
an API store with a nil context set: a rule on a property that no one gave panics if
another store has the config. With `ConfigsAndApi`, `NewClient` refuses `WithConfigs`
beside the API only after it started the API's goroutine, whose callback then closes a
nil channel. With `ApiFirst`, a file after the API does not load: `NewClient` returns
the error, and the API's goroutine does the same. All three violate `NeverCrashes`. With
`HalfASecond`, a timeout of 0.5 s becomes 0, and a call on an initialized client may
time out, against `InitializedClientNeverTimesOut`.

### Bounds, and why they are enough

- *Versions* (`MaxId` 3 or 4): the smallest log in which a key is created,
  deleted and created again while another key moves the watermark has four
  entries; every interleaving of three with reconnections is covered in the larger
  runs. *Keys* (2): one to be updated and one to raise the watermark past it.
- *Retries* (`MaxRetries` 1 for 10): first attempt, a retry, the last failure.
- *Readers* (1): readers do not write, so they cannot affect each other.
- *Callers* (2): two that time out, or one and the load, compete for the Once.
- *Queue* (1 or 2 for 10000) and *attempts* (1, 2 or 3 for 5): full, not full;
  first, middle and last attempt.
- *Evaluation*: nine configs, one for each branch of the code, in two versions; in the
  first `staff` asks for `beta`, in the second `beta` for `staff`, so that a call across
  an update can enter a config a second time. Two changes let it see the first version
  again. Three significant bits (`FloatBits`), 31 as the largest int and floats of
  seven bits (`FloatBits + MaxExponent`) suffice for integers that no float holds, ties, and
  bounds that round up. `MaxInt32` is 7 and the weights are 4, 0 and 3, so that their
  sum just fits, a variant has weight zero, and 12 fractions do not divide evenly.
- *Criteria*: versions with every part missing, malformed, signed, zero-led or beyond
  the largest int, and prereleases that are prefixes of each other.
- *Options and sources*: every source alone, each kind of file with each way to be
  refused, and the sequences in which one option undoes another. One YAML tree has a key
  given by two paths, one a flag within a map; all orders of iteration occur. Maps are
  nested `MaxDepth` (2) deep at most.
- *Seconds* of 2 ticks: a half second is the one length that rounding must decide.
- *Calls* (`MaxCalls` 2, `MaxBound` 1, `MaxChanges` 1): a second call finds what the
  first left in an aggregator; one bound client shares its set with the client's; one
  write falls before, between and after the steps of a call.
- `KeySymmetry`, `ItemSymmetry` and `MCSymmetry` are used in runs that check safety
  only.

### Fairness

No HTTP request is assumed to be answered, since neither client has a timeout
(`httpclient.go:67`, `submitter.go:22`). A request ends or hangs, as an action of the
model, and what a hang costs is said in each property.

Store: goroutines that can run do run (weak fairness of the fetch's steps and of the
stream's local steps). That a step of the fetch is taken at `load` means only that the
load succeeds, fails or hangs. `StreamStartsUnlessLoadHangs` and `EventuallyConverged`
except the hang: then there is no stream, and nothing more is received. Connecting and
delivering what is due are strongly fair: the network of the stream fails now and then,
but not each time for ever, and it is assumed that a connection which no longer delivers
ends, upon which the SSE library or the loop of `StartSSEConnection` connects again.
Nothing is assumed about the server publishing or a load succeeding: the stream alone
must bring convergence. Deadlock is not checked in the two runs of the store, since
nothing is left to do once a load hangs and the server publishes no more.

Client: weak fairness of `NewClient`, of `FinishedLoading` once the load has succeeded,
and of each caller in a call. The load need not end: `EveryCallReturns` rests on the
timer alone, and `LoadReleasesCallers` is about a load that did end.

Evaluation: weak fairness of the call's own steps; the store changes at most
`MaxUpdates` times during a call.

Telemetry: weak fairness of the consumer, the ticker and a running submission, where an
attempt ends or hangs; strong fairness of `Lock`, since a `sync.Mutex` hands itself over
to a goroutine that has waited for long. `EverySubmitReturns` and `EverythingIsSettled`
except a request that is never answered, which holds the mutex and the ticker for ever;
they say that nothing else does. No caller is obliged to call.

## What is proved

The theorems hold for all constants, from the assumptions that the modules name and TLC
evaluates. A hypothesis of one theorem only is given with it. Each inductive invariant
was checked by TLC on the instance of its run before it was proved.

Two things about the method concern several modules. The theorems of the library on folds
and on induction take an operator as a parameter, and none of the provers used here can
instantiate these. Sums are therefore cardinalities of unions of disjoint sets, and
induction is the least counterexample, from the order of the naturals being well-founded:
the set of the numbers that fail has a least element, and it is not 0 nor the next of one
that holds. And what is computed by recursion is a recursive function, of which the
proofs first show that it exists.

### The store

`ApiConfigStoreProofs`:

- `TypeCorrectness`: `Spec => []TypeOK`.
- `OneWriterAtATime`: `Spec => []SingleWriter`, inductive by itself.
- `EvaluationsAreConsistent` and `CallersFindAUsableStore`: `EvaluationIsConsistent`
  and `LoadedStoreIsUsable`, with no condition on server or library.
- `NoUpdateIsMissed`: `Spec => []NoMissedUpdate`, given `NoSplitReplay`
  (`~SplitCatchUp \/ ~LibraryRetries`).
- `NoStepRollsBack`: `Spec => NoRollback`, with no such condition.
- `StoreImplementsReplica`: `Spec => ImplementsReplica`, given `NoSplitReplay` and
  that messages decode.

`NoMissedUpdate` is not inductive: nothing in it says that the message about to
be applied starts where the store is. `ResumeInv` adds that. It ties each program
counter to the range of the message in hand: a load's range starts at the watermark
and the stream is not running yet (`SingleWriter` is one of its conjuncts); a
connection's cursor is at least the header it was opened with, which is at most the
watermark; without `LibraryRetries` what was sent and not lost is in the store, and
with it but without `SplitCatchUp` the first message reaches at least as far as the
watermark did at the time of connecting. Each action then preserves each conjunct;
the step of substance is `SetConfigs`, where a lemma on `setConfig` says what
becomes of an entry when the newest version of a range arrives. The refinement needs
`ViewInv`, which says the same of the visible part of the map; a published version
maps to `Publish`, a `SetConfigs` step to `Advance`, all others to stuttering.

`EvaluationIsConsistent` needs `ReadInv`: the context held is at least as new as every
config held or being evaluated and no newer than the log, and the message in either
goroutine's hand brings a context that keeps it so. That the two halves of
`SetFromConfigsProto` come in this order, the context first, is what the proof of
`SetConfigs` uses; the same invariant says what is set when a load has ended.

### Initialization

`ClientInitProofs`, for any callers and any set of options:

- `ClientTypeCorrectness`: `Spec => []TypeOK`.
- `AnswersHaveData`: `Spec => []AnswersComeFromInitializedStore`.
- `LibraryNeverCrashes`: `Spec => []NeverCrashes`, given `SafeOptions`: if the API is a
  source, then `WithConfigs` was not used, the API is the last source, and the failure
  mode is `ReturnError` unless it is the only one. Without each of these the code does
  panic: `ConfigsAndApi`, `ApiFirst` and `FileFirst` above are the counterexamples, one
  for each.
- `InitializedClientsAnswer`: `Spec => []InitializedClientNeverTimesOut`, given
  `PatientOptions`: a timeout of a second or more (`HalfASecond` is the counterexample).

`InitInv` is the invariant they share: the client has all its stores when it exists and
an API goroutine exactly if one of them is the API's (`BuildInv`); its channel is nil
before that, and afterwards closed exactly if the Once is spent (`ChannelInv`); there are
no calls before there is a client (`CallInv`); and under `ReturnError` a closed channel,
and a call past its wait, mean data (`DataInv`). The last depends on who may close: the
load's callback has data, a timed-out call closes under `ReturnNilMatch` only, and the
constructor only without the API. `CrashInv` adds that a panic comes from the load that
overtakes the constructor or not at all, which is what `SafeOptions` is for.

### Calls

`CallsProofs`, for any sets of contexts, configs, callers and clients bound, from
`CallsAssumption` (a named context is set under its own name, a list is a sequence of
values, and what stands for no value is none):

- `AnswersAreMeant`: `Spec => AnswersAreForTheirContexts`.
- `ExamplesAreThoseSeen`: `Spec => []ExamplesAreWhatCallsSaw`, given `PlainValues`: no
  durations, maps or protobuf values among those given. These come back as something
  else than was given (see `ConfigValues`). The property has no case of its own for
  them and the run no such values: what becomes of them in an example is not checked.
- `ShapesAreThoseSeen`: `Spec => []ShapesAreWhatWasSeen`.
- `PanicsForTheseOnly`: `Spec => []PanicsForOddContextsOnly`.
- `SummariesAddUp`: `Spec => []SummariesCountEveryMatch`, given `UniqueIds`: configs with
  an id have different ones. `MatchesAreCounted` is its second half alone; the first, that
  the counts add up to the number of matches, needs no hypothesis.

`BindingInv` says that every binding, be it of a client, of a call or in the queue,
means what its named contexts hold now, but for those touched since it was made. It
survives `ChangeValues` because a set is never written once it is made, so that all of a
write is in `touched`, and `Merge` because a named context has one name. `ShapeInv` and
`ExampleInv` relate each aggregator to what it was given; `SummaryInv` says that a counter
is the number of matches seen with its grouping key, whichever config came first under
it, and `UniqueIds` then makes that key stand for one config, rule and value. `TotalInv`
adds up: the pairs of a counter and one of the times it was counted are as many as the
matches, since a match puts just one more pair into the set, whether its counter is new or
not; and counters of different grouping keys are different, which keeps the union of
`SummariesCountEveryMatch` disjoint.

### The evaluation

`ConfigResolverProofs`, for any stores and any changes of the API store during a call,
from `StoresAssumption` (what stores hold are configs with lists of rows, rules and
criteria; only the API's store answers for properties; its environment does not change):

- `ProvidedValuesAreTyped`: `Spec => []ProvidedValueHasItsType`.
- `NothingConfidentialUnmarked`: `Spec => []ConfidentialStaysConfidential`, given
  `OnlyTextsAreEncrypted`. The code looks at `decryptWith` first when it marks what it
  returns, and a value that names a key and is not a text is never decrypted
  (`config_resolver.go:125-128`); what then comes out unmarked is listed under what is
  not modelled.
- `NestingIsBounded`: `Spec => []SegmentsNestFinitely`, given `NoCircles`: in no version
  of the store do segments lead back to themselves. The code does not look for that, and
  two segments that ask for each other call each other without end.
- `EveryShareIsRight`: `Spec => []EveryValueGetsItsShare`. It is a fact about `Resolve`
  for any non-negative weights whose sum is positive and an int32, and any number of
  fractions above zero. Running sums do not decrease, so the fractions that lead to the
  i-th variant are an interval, from above the share of the sum before it to that of the
  sum with it; counting such an interval is a division, and the two ends together miss
  less than one fraction.

`MeaningProofs`, from the same assumption:

- `RulesAreMeant`: `Spec => []AnswerIsTheMeaning`.
- `MeaningsExist`: `Spec => [](NoCirclesRead => IsMeaning(Meaning))`. `Meaning` is a
  function that for a segment asks for its own value at another key, and such a function
  need not exist; `AnswerIsTheMeaning` supposes that it does. This theorem shows that it
  does wherever the segments that the configs name, as they were read or are now, do not
  lead back to themselves, so that nothing more than that is supposed.

TLC evaluates `OnlyTextsAreEncrypted` and `NoCircles` for the instance of the run.
`SafeInv` ties the stack to the program counter, makes each evaluation one of a config
that some store held, and what was found a value that some store held; a secret is
looked up only for what needs it. The bound on the depth is not inductive, because it
forgets where on the way an evaluation is. In `NestInv` an evaluation is of a config
that the contents after `u` changes lead to, at a depth of `(u + 1) * Cardinality(Key)`
at most, less the number of keys that this config leads to. Entering a segment in the
same version makes that number smaller, since without circles a config is not among
those it leads to (`Under` is the least set closed under segments, so that this needs no
induction); entering it in a later version starts the next `Cardinality(Key)`.

`MeansInv` speaks of every function `first` from keys to rules and all `values` of the
properties that are `Consistent` with what was read: each config that was read means, by
`first` and `values`, what `first` says of its key. For all of these at once, no rule that
an evaluation has passed matches, every criterion that it has passed in the rule at hand
holds (`FramePassed`), and a rule that was taken is the one that `first` has for the key
that was asked for (`MatchMeans`). `LinkInv` says that an evaluation above another on the
stack is of a config that was read for the segment which the one below asks for. `Meaning`
itself could not be in the invariant, because it changes with everything that is read; what
is consistent after a read was consistent before it, so what was known of all such functions
stays known. If a key was read in two versions none may be left, and nothing is claimed, as
in the property.

### Options and given configs

`NewClientProofs`, for any set of lists of options, any environments, files and
configs of the server. What it assumes of these constants is in `NewClient`, where
TLC evaluates it: options have lists where Go has slices, a duration among the given
values is not negative (the sign of an ISO 8601 duration is not modelled), and `nil`
is not one of the records that stand for sources, configs or values.

- `OfflineClientsStayOffline` states `OfflineStaysOffline`: whatever the other options
  are and in whatever order they come, a client whose last option about sources is an
  offline one never asks the API, be it over HTTP or by the stream, and reports contexts
  only if a later option says so. Summaries of its evaluations it still posts.
- `FirstSourceIsServed` states `FirstSourceWins`: the first source that declares a key
  serves it, with a value that this source gives it, and no other key is served; for any
  files, options and environments, and any order in which the maps of YAML are iterated.
- `PanicsAreKnown` states `PanicsForKnownReasons`: a panic has one of the five reasons
  above; the ticker's comes when every source has its store, those of a source while its
  store is built.
- `GivenConfigsComeBack` states `ConfigsComeBack`: for any map of configs the client
  has exactly its keys, and the typed getters return what was given. TLC sees four
  durations at two ticks a second; the theorem is about all of them at any resolution.

The first and the last of these follow from one inductive invariant. `SourcesInv` looks
back over the options applied so far: it names the last that is about sources - that there
is a last one is part of the invariant, which is shorter than to look for a maximum - and
says what it has left in the sources and the telemetry mode. `CredentialsInv` has the
other half, that only a source that is the API makes a client ask with its key.
`StoresInv` ties the i-th store to the i-th source, and a memory store to the configs
of the options; it has to say that while a YAML file is parsed the source is a data
file, or `MapDone` could add a store in the place of another.

`MeantInv` is the invariant of the other two. It has `PanicsForKnownReasons` in it;
every store that was built means its source, that is, has a key exactly if the source
declares it, with a value that the source gives it; and while a YAML file is parsed
there is `Progress`: what was parsed are leaves of the tree, every frame is one of its
maps, and every name of a map that was entered is still left in some frame or done - its
value parsed, or the map under it entered. When no frame is left, the maps entered have
everything in them that leads on, so they are all `Maps` of the tree, by induction over
the levels up to `MaxDepth`, and what was parsed are all its leaves. `FilesAssumption`
is what this needs of the files: their lists are lists, the names in their maps are not
empty, and no map is nested deeper than `MaxDepth`.

`DurationComesBack` is arithmetic: writing takes quotients and remainders by day, hour
and minute, and reading multiplies these back. Remainders nest where one unit divides
the other (`Nested`), which the proof of `Division`, `Unique` and `Remainder` leads up
to; what is left is `Rounding`, half a second at most and nothing for whole seconds.

### Criteria

`CriteriaProofs`, for all context values, present or not, and all criterion values, with
any spelling of texts and any string functions:

- `NegationsHoldExactlyOtherwise`: `Spec => []NegationsAreComplements` of
  `CriterionVerdicts`. A lemma shows that no other branch of `EvaluateCriterion` can hold
  for these operators, another that both look for the same match.
- `NumbersStayInOrder`: `Spec => []NumbersKeepTheirOrder`, for ints and floats of any
  width, from `NumbersAssumption`: the largest int is a power of two less one and within
  the reach of floats, ints fit their width, and floats are finite.
- `VersionsStayInOrder`: `Spec => []VersionsAreOrdered`, from `SpellingAssumption`: the
  spelling of a text is a sequence of characters.

The last two need the types of the two values and no more, since a step only chooses
others; the work is in the functions. `ToFloat64` rounds to a multiple of a spacing that
depends on the size of the number, and keeps the order because no number is rounded beyond
the power of two that it lies below. That powers of two double, which the provers do not
know, comes from counting the subsets of a set with one more element.

For versions, an order is the sign of the first comparison that is not zero. If the signs
for two pairs of neighbours and for the outer pair are `Consistent` at each place, so they
are for the whole: first for lists of identifiers, then for the three numbers and the
prerelease. That versions which compare as equal are equal needs that an identifier is known
by its number: what `Atoi` reads without a sign prints as it was, by induction over its
digits, because a numeral of a version has no leading zero. It needs also that `Split` takes
no two texts apart into the same identifiers. The attempt at this proof found that the
exception for a hyphen has to look at both versions: `1.0.0-0` has no negative identifier,
but is equal to `1.0.0--0`, which has one. Both texts are among those of the run.

### Telemetry

`TelemetrySubmitterProofs`, for any number of evaluations, contexts and senders, any size
of the queue and number of attempts, and all options; the mutex is a submitter's or the
value `"free"`, which the assumption keeps apart:

- `SubmitterTypeCorrectness`: `Spec => []TypeOK`.
- `EverythingIsCountedOnce`: `Spec => []EverythingCountedOnce`.
- `SuccessIsReceived`: `Spec => SuccessMeansReceived`.
- `ExamplesHaveDistinctKeys`: `Spec => []OneExamplePerKey`.
- `DrainMissesOneAtMost`: `Spec => []DrainMissesAtMostOne`.

`TypeInv` says what the code's structure keeps: the queue has no item twice nor one that
was dropped, the consumer's item is no longer in it, aggregators hold items of their kind,
and a submission has taken from those it visited only. `PlaceInv` is
`EverythingCountedOnce` by places: for each
aggregator an item is at one place at most, for its main one at just one, and nowhere
before it was queued. Each step moves items from one place to the next; that a payload is
taken and cleared in one step, and one submission at a time by the mutex, is what
keeps two places from having it. An attempt may bring the server the payload again that
an attempt before it brought: by `AcceptedInv` the server has all of that already, so
nothing moves. Whether the body was used up plays no part in the proof. `DrainInv` says
what a submission that waited for the queue can miss: of what was queued before it, only
the consumer's item at the poll that found the queue empty, which is one item, and which
the consumer leaves only to record it.

### What is only model-checked

Liveness under fairness: `EventuallyConverged` and `StreamStartsUnlessLoadHangs` of the
store, `EveryCallReturns` and `LoadReleasesCallers` of the initialization,
`EveryCallReturns` of an evaluation, `EverySubmitReturns` and `EverythingIsSettled` of
telemetry. Such proofs are about when an action is `ENABLED`, which the prover does not
reason about. The three statements that the code does not keep are refuted by TLC.

## What is not modelled

- Logging, the construction of URLs and headers, and the decoding of JSON, YAML and
  protobuf by libraries, except that it may fail; AES-GCM itself; regular expressions,
  dates and hashes are constants.
- Generated code (`proto`, `internal-proto`), interfaces, pointer helpers, mocks and
  test support. `EnvironmentNames` of the options is read by nothing.
- Data races are modelled where a pointer is swapped (`contextSet`) or a map of the
  caller is written late (`values`, as a whole); the Go memory model below that is not.
- Known from reading and not checked, since nothing in the model could tell the
  difference: the random source of weighted values is shared by all calls without a
  lock (`weighted_values.go:58`), an empty list of variants is indexed (line 44), a
  slice of a type other than `[]string` and `[]any` fails a type assertion
  (`config_rule_evaluator.go:111`), a variant in the store is marked as confidential
  while others read it (`config_resolver.go:127`), and a confidential value with
  `decryptWith` that is not a string comes out as an unmarked one (line 126).

## What could come next

The parts are proved each by itself; what is left is to put more of them together. A module
`PrefabClient` would have `ClientInit` with the real `ApiConfigStore` instead of its
reduction, and show the reduction to be an abstraction of it; and the evaluation against
`ApiConfigStore` instead of `UpdateApiStore`, with the default context moving apart from the
configs.
