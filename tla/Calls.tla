-------------------------------- MODULE Calls --------------------------------
(***************************************************************************)
(* Contexts from the caller to telemetry: sets of named contexts that are  *)
(* built, bound to clients and merged for a call, the property lookups of  *)
(* the call, and what the three aggregators make of the contexts and       *)
(* matches that reach them later, by a queue.                              *)
(*                                                                         *)
(* A set holds pointers to named contexts, and a named context the map of  *)
(* values its caller gave: both are shared, never copied, and the caller   *)
(* may go on writing to the map.  A set is a function from names to named  *)
(* contexts; the sets that Merge makes are fresh and written by no one.    *)
(*                                                                         *)
(* The size of the queue, the draining and the requests are the matter of  *)
(* TelemetrySubmitter; the rules of configs that of ConfigResolver: here a *)
(* config tests one property.                                              *)
(***************************************************************************)
EXTENDS Integers, Sequences, FiniteSets, FiniteSetsExt, TLC, ConfigValues

CONSTANTS
    Caller,          \* goroutines that make calls
    Name, Data,      \* the name and the values at first of each named context
    NamedContext,    \* those that may be set in the set of the options
    Written,         \* the values that a caller may write over those of some
    Global,          \* the set given by WithGlobalContext, and
    GivenToBind,     \* those that WithContext is given
    GivenToCall,     \* those that calls are given
    Config,          \* [key, id, type, property, expects, then, weighted, otherwise]
    Mode,            \* the modes of context telemetry a client may have
    MaxCalls, MaxBound, MaxChanges      \* bounds

\* Values are those of ConfigValues, keys of values sequences of the segments
\* between their dots.

IsRecord(x) == x = [kind |-> x.kind, v |-> x.v] /\ (x.kind = "nil" => x.v = NoValue)

IsValue(x) ==
    /\ IsRecord(x)
    /\ x.kind = "slice" => x.v \in Seq(ToSet(x.v)) /\ \A y \in ToSet(x.v) : IsRecord(y)

\* SetNamedContext and its like put a named context under its name.
Named(set) == \A n \in DOMAIN set : set[n] \in DOMAIN Data /\ Name[set[n]] = n

\* The kinds of scalars and of lists, of Go and of protobuf: NoValue has none.
Kind == DOMAIN TypeOfScalar \cup DOMAIN GoTypeOf

GivenValues == UNION {Range(data) : data \in Range(Data) \cup Range(Written)}

ASSUME CallsAssumption ==
    /\ NamedContext \cup DOMAIN Written \subseteq DOMAIN Data
    /\ \A set \in {Global} \cup GivenToBind \cup GivenToCall : Named(set)
    /\ \A x \in GivenValues :
          /\ IsValue(x)
          /\ NoValue \notin [kind : Kind, v : {x.v}]
          /\ x.kind = "slice" => NoValue \notin [kind : Kind, v : {[i \in DOMAIN x.v |-> x.v[i].v]}]

VARIABLES
    mode,       \* options.ContextTelemetryMode
    values,     \* the values of each named context
    global,     \* the set that the client's pointer leads to
    bound,      \* the clients bound so far, see Binding
    call,       \* what each caller is doing
    queue,      \* of contexts and matches
    examples,   \* ExampleContextAggregator.Data
    shapes,     \* ContextShapeAggregator.data
    counts,     \* EvaluationSummaryAggregator.counts, by grouping key
    matches,    \* EvaluationSummaryAggregator.data, by grouping key
    panicked,   \* the context on which the consumer took the process down, if any
    seen,       \* ghost: what each aggregator was given since its last Clear
    calls, changes   \* ghost: how many there were

callerVars == <<mode, values, global, bound, call, calls, changes>>
aggregated == <<examples, shapes, counts, matches, seen>>
vars == <<callerVars, queue, aggregated, panicked>>

\* Ghosts of a set: `meant` are the values it stood for when it was made, and
\* `touched` the named contexts whose values were changed since.
Binding(set, meant, touched) == [set |-> set, meant |-> meant, touched |-> touched]

Snapshot(set) == [n \in DOMAIN set |-> values[set[n]]]

Idle == [pc |-> "idle"]

Init ==
    /\ mode \in Mode
    /\ values = Data
    /\ global = Global
    /\ bound = <<>> /\ queue = <<>>
    /\ call = [c \in Caller |-> Idle]
    /\ examples = <<>> /\ shapes = <<>> /\ counts = <<>> /\ matches = <<>>
    /\ panicked = <<>>
    /\ seen = [example |-> {}, shape |-> {}, summary |-> <<>>]
    /\ calls = 0 /\ changes = 0

\* Operators named ...Mistake are plausible errors in the definition that
\* follows them; the properties are checked to tell them apart.

-----------------------------------------------------------------------------
\* Context sets

\* A later set's named context replaces an earlier one of its name as a whole.
Merge(first, second) ==
    [n \in DOMAIN first \cup DOMAIN second |->
        IF n \in DOMAIN second THEN second[n] ELSE first[n]]

\* map[key] = x
Put(map, key, x) == Merge(map, [k \in {key} |-> x])

\* Before the first dot is the name of a context, "" if there is no dot.
splitAtFirstDot(path) ==
    IF Len(path) = 1 THEN [context |-> "", key |-> path]
    ELSE [context |-> Head(path), key |-> Tail(path)]

\* In a function from names to values.
GetContextValue(data, property) ==
    LET at == splitAtFirstDot(property)
    IN  IF at.context \in DOMAIN data /\ at.key \in DOMAIN data[at.context]
        THEN data[at.context][at.key] ELSE NoValue

\* NamedContext.ToProto: values that have no ConfigValue are left out.
NamedToProto(data) ==
    [k \in {k \in DOMAIN data : Create(data[k]) # NoValue} |-> Create(data[k])]

ToProto(data) == [n \in DOMAIN data |-> NamedToProto(data[n])]

NewNamedContextFromProtoKeepsNilMistake(proto) == [k \in DOMAIN proto |-> ExtractValue(proto[k], <<>>)]

NewNamedContextFromProto(proto) ==
    [k \in {k \in DOMAIN proto : ExtractValue(proto[k], <<>>) # NoValue} |->
        ExtractValue(proto[k], <<>>)]

NewContextSetFromProto(proto) == [n \in DOMAIN proto |-> NewNamedContextFromProto(proto[n])]

Key(data) == IF <<"key">> \in DOMAIN data THEN data[<<"key">>] ELSE [kind |-> "nil"]

GroupedKeyPanicsOnNoneMistake(data) == \E n \in DOMAIN data : Key(data[n]).kind # "string"

\* A type assertion.
GroupedKeyPanics(data) == \E n \in DOMAIN data : Key(data[n]).kind \notin {"nil", "string"}

KeyText(data) == IF Key(data).kind = "nil" THEN "" ELSE Key(data).v

\* No context has a key, for which GroupedKey is empty.
Keyless(data) == \A n \in DOMAIN data : Key(data[n]).kind = "nil"

\* (The text joins the pairs, sorted, with separators; names and keys are taken
\* to have none of these.)
GroupedKey(data) == {<<n, KeyText(data[n])>> : n \in DOMAIN data}

-----------------------------------------------------------------------------
\* The callers

Running == panicked = <<>>

\* The set that was given with the options is the caller's still.  (The sets of
\* calls are read before the call goes on, and are taken as they are then.)
SetNamedContext(n) ==
    /\ Running
    /\ global' = Put(global, Name[n], n)
    /\ UNCHANGED <<mode, values, bound, call, calls, changes, queue, aggregated, panicked>>

Touch(b, n) == IF n \in Range(b.set) THEN [b EXCEPT !.touched = @ \cup {n}] ELSE b

\* A caller writes to a map of values that it once gave.
ChangeValues(n) ==
    /\ Running /\ changes < MaxChanges
    /\ values[n] # Written[n]
    /\ values' = [values EXCEPT ![n] = Written[n]]
    /\ changes' = changes + 1
    /\ bound' = [i \in DOMAIN bound |-> Touch(bound[i], n)]
    /\ queue' = [i \in DOMAIN queue |->
                    IF queue[i].kind = "context" THEN [queue[i] EXCEPT !.of = Touch(@, n)] ELSE queue[i]]
    /\ call' = [c \in Caller |->
                    IF call[c].pc # "resolving" THEN call[c] ELSE [call[c] EXCEPT !.of = Touch(@, n)]]
    /\ UNCHANGED <<mode, global, calls, aggregated, panicked>>

\* What client h is bound to, 0 being the client and the others the bound ones.
Bound(h) == IF h = 0 THEN Binding(global, Snapshot(global), {}) ELSE bound[h]

MergedWith(h, set) ==
    Binding(Merge(Bound(h).set, set), Merge(Bound(h).meant, Snapshot(set)), Bound(h).touched \ Range(set))

\* WithContext, of a client or of one that is bound already.
WithContext(h, set) ==
    /\ Running /\ Len(bound) < MaxBound
    /\ bound' = Append(bound, MergedWith(h, set))
    /\ UNCHANGED <<mode, values, global, call, calls, changes, queue, aggregated, panicked>>

\* The key of a call leads to a config, or to none: NoValue.
internalGetValue(c, config, merged) ==
    /\ Running /\ call[c].pc # "resolving" /\ calls < MaxCalls
    /\ call' = [call EXCEPT ![c] = [pc |-> "resolving", config |-> config, of |-> merged]]
    /\ calls' = calls + 1

GetValueMergesInPlaceMistake(c, h, set, config) ==
    /\ internalGetValue(c, config, MergedWith(h, set))
    /\ bound' = IF h = 0 THEN bound ELSE [bound EXCEPT ![h].set = MergedWith(h, set).set]
    /\ UNCHANGED <<mode, values, global, changes, queue, aggregated, panicked>>

\* A getter: the merged set is recorded before the config is looked up.
GetValue(c, h, set, config) ==
    /\ internalGetValue(c, config, MergedWith(h, set))
    /\ queue' = IF mode = "None" THEN queue
                ELSE Append(queue, [kind |-> "context", of |-> MergedWith(h, set)])
    /\ UNCHANGED <<mode, values, global, bound, changes, aggregated, panicked>>

GetConfigMatch(c, h, set, config) ==
    /\ internalGetValue(c, config, MergedWith(h, set))
    /\ UNCHANGED <<mode, values, global, bound, changes, queue, aggregated, panicked>>

\* The rule of a config for the value of its property; no value, no match.
Match(config, value) ==
    IF value = config.expects
    THEN [config |-> config, conditionalValueIndex |-> 0, weightedValueIndex |-> config.weighted,
          match |-> config.then]
    ELSE [config |-> config, conditionalValueIndex |-> 1, weightedValueIndex |-> NoValue,
          match |-> config.otherwise]

\* RecordEvaluation takes neither what did not match nor log levels.
Tracked(m) == m.match # NoValue /\ m.match.kind # "LogLevel"

resolutionResultError == [resultType |-> "error"]
resolutionResultSuccess(m) == [resultType |-> "success", match |-> m]

Answer(c, result) == call' = [call EXCEPT ![c] = [pc |-> "answered", answer |-> result]]

\* Only what was resolved is recorded.
ResolveValue(c) ==
    /\ Running /\ call[c].pc = "resolving"
    /\ LET config == call[c].config
       IN  \/ /\ config = NoValue
              /\ Answer(c, resolutionResultError)
              /\ UNCHANGED queue
           \/ /\ config # NoValue
              /\ LET m == Match(config, GetContextValue(Snapshot(call[c].of.set), config.property))
                 IN  /\ Answer(c, resolutionResultSuccess(m))
                     /\ queue' = IF Tracked(m) THEN Append(queue, [kind |-> "match", m |-> m]) ELSE queue
    /\ UNCHANGED <<mode, values, global, bound, calls, changes, aggregated, panicked>>

-----------------------------------------------------------------------------
\* The consumer and the aggregators

FieldTypeForValue(value) ==
    CASE value.kind = "int"                  -> 1
      [] value.kind = "float"                -> 4
      [] value.kind = "bool"                 -> 5
      [] value.kind \in {"strings", "slice"} -> 10
      [] OTHER                               -> 2

\* The example of a key is converted and kept the first time.
ExampleOf(item) ==
    LET data == Snapshot(item.of.set)
    IN  IF Keyless(data) \/ GroupedKey(data) \in DOMAIN examples THEN examples
        ELSE Put(examples, GroupedKey(data), [contexts |-> ToProto(data), of |-> item.of])

\* The first type of a field stays.
ShapesWithLastMistake(data) ==
    [n \in DOMAIN shapes \cup DOMAIN data |->
        (IF n \in DOMAIN data THEN [k \in DOMAIN data[n] |-> FieldTypeForValue(data[n][k])] ELSE <<>>)]

ShapesWith(data) ==
    [n \in DOMAIN shapes \cup {n \in DOMAIN data : data[n] # <<>>} |->
        Merge(IF n \in DOMAIN data THEN [k \in DOMAIN data[n] |-> FieldTypeForValue(data[n][k])]
              ELSE <<>>,
              IF n \in DOMAIN shapes THEN shapes[n] ELSE <<>>)]

ConsumerPanics(data) ==
    /\ mode = "PeriodicExample"
    /\ \/ GroupedKeyPanics(data)
       \/ /\ ~Keyless(data) /\ GroupedKey(data) \notin DOMAIN examples
          /\ \E n \in DOMAIN data : \E k \in DOMAIN data[n] : CreatePanics(data[n][k])

\* A context goes to the aggregators that NewContextAggregators makes.
internalRecordContext ==
    /\ Running /\ queue # <<>> /\ Head(queue).kind = "context"
    /\ queue' = Tail(queue)
    /\ LET item == Head(queue)
           data == Snapshot(item.of.set)
       IN  IF ConsumerPanics(data) THEN panicked' = <<data>> /\ UNCHANGED aggregated
           ELSE /\ IF mode = "PeriodicExample"
                   THEN /\ examples' = ExampleOf(item)
                        /\ seen' = [seen EXCEPT !.example = @ \cup {data}, !.shape = @ \cup {data}]
                   ELSE seen' = [seen EXCEPT !.shape = @ \cup {data}] /\ UNCHANGED examples
                /\ shapes' = ShapesWith(data)
                /\ UNCHANGED <<counts, matches, panicked>>
    /\ UNCHANGED callerVars

intUnlessNil(i) == IF i = NoValue THEN 0 ELSE i

GroupingKeyWithoutIndexMistake(m) == <<m.config.id, 0, intUnlessNil(m.weightedValueIndex)>>

\* The first match of a grouping key stands for all.
GroupingKey(m) ==
    <<m.config.id, m.conditionalValueIndex, intUnlessNil(m.weightedValueIndex), m.match>>

internalRecordEvaluation ==
    /\ Running /\ queue # <<>> /\ Head(queue).kind = "match"
    /\ queue' = Tail(queue)
    /\ LET m == Head(queue).m
           k == GroupingKey(m)
       IN  /\ matches' = IF k \in DOMAIN matches THEN matches ELSE Put(matches, k, m)
           /\ counts' = Put(counts, k, IF k \in DOMAIN counts THEN counts[k] + 1 ELSE 1)
           /\ seen' = [seen EXCEPT !.summary = Append(@, m)]
    /\ UNCHANGED <<callerVars, examples, shapes, panicked>>

\* A submission takes what the aggregators hold and clears each.  (It may do so
\* between two steps of the consumer: see TelemetrySubmitter.)
Submit ==
    /\ Running
    /\ examples' = <<>> /\ shapes' = <<>> /\ matches' = <<>> /\ counts' = <<>>
    /\ seen' = [example |-> {}, shape |-> {}, summary |-> <<>>]
    /\ UNCHANGED <<callerVars, queue, panicked>>

\* What GetData reports of the fields: each context's name and its types.
ReportedShapes == {[name |-> n, fieldTypes |-> shapes[n]] : n \in DOMAIN shapes}

\* And of the matches: for each key and type of config its counters.
Summaries ==
    {[key |-> kt[1], type |-> kt[2],
      counters |-> {[match |-> matches[k], count |-> counts[k]] : k \in
          {k \in DOMAIN matches : <<matches[k].config.key, matches[k].config.type>> = kt}}] :
     kt \in {<<matches[k].config.key, matches[k].config.type>> : k \in DOMAIN matches}}

Next ==
    \/ \E n \in NamedContext : SetNamedContext(n)
    \/ \E n \in DOMAIN Written : ChangeValues(n)
    \/ \E h \in 0..Len(bound) :
          \/ \E set \in GivenToBind : WithContext(h, set)
          \/ \E c \in Caller, set \in GivenToCall, config \in Config \cup {NoValue} :
                GetValue(c, h, set, config) \/ GetConfigMatch(c, h, set, config)
    \/ \E c \in Caller : ResolveValue(c)
    \/ internalRecordContext \/ internalRecordEvaluation
    \/ Submit

Spec == Init /\ [][Next]_vars

-----------------------------------------------------------------------------
\* Properties

Examples == {examples[k] : k \in DOMAIN examples}

\* A call is answered for the contexts that its client was bound to when it was
\* bound (client.go:467), with those of the call itself in the place of the
\* ones they name, whatever other clients are bound to since: unless a caller
\* wrote to the values in between.
AnswersAreForTheirContexts ==
    [][\A c \in Caller : call[c].pc = "resolving" /\ call'[c].pc = "answered" /\ call[c].config # NoValue =>
        LET of       == call[c].of
            property == call[c].config.property
            at       == splitAtFirstDot(property).context
        IN  \/ at \in DOMAIN of.set /\ of.set[at] \in of.touched
            \/ call'[c].answer = resolutionResultSuccess(
                 Match(call[c].config, GetContextValue(of.meant, property)))]_vars

\* A field that the call gave comes back from an example if its value has a type,
\* as it was, or as the list of its strings.
ReadBack(given, back, k) ==
    LET cv    == Create(given[k])
        typed == cv # NoValue /\ GetValueType(cv) # "NOT_SET_VALUE_TYPE"
    IN  /\ k \in DOMAIN back <=> typed
        /\ typed => IF given[k].kind = "slice" THEN back[k].kind = "strings" ELSE back[k] = given[k]

\* However late the queue is read, an example reports the contexts of the call
\* that made it, whose values read back as they were given if they have a type;
\* only values that a caller wrote to before the queue was read are others.
\* Every context that has a key has an example: one with the same names and keys
\* (none and "" being the same).
ExamplesAreWhatCallsSaw ==
    /\ \A e \in Examples :
          LET back == NewContextSetFromProto(e.contexts)
          IN  /\ DOMAIN back = DOMAIN e.of.meant
              /\ \A n \in DOMAIN back :
                    \/ e.of.set[n] \in e.of.touched
                    \/ /\ DOMAIN back[n] \subseteq DOMAIN e.of.meant[n]
                       /\ \A k \in DOMAIN e.of.meant[n] : ReadBack(e.of.meant[n], back[n], k)
    /\ \A data \in seen.example :
          \/ Keyless(data)
          \/ \E e \in Examples :
                /\ DOMAIN e.contexts = DOMAIN data
                /\ \A n \in DOMAIN data : KeyText(e.contexts[n]) = KeyText(data[n])

\* Shapes have just the fields that contexts had since they were last sent,
\* each with a type that one of its values had.
ShapesAreWhatWasSeen ==
    LET fields == UNION {UNION {{<<n, k>> : k \in DOMAIN data[n]} : n \in DOMAIN data} : data \in seen.shape}
    IN  /\ fields = UNION {{<<s.name, k>> : k \in DOMAIN s.fieldTypes} : s \in ReportedShapes}
        /\ \A f \in fields : \E data \in seen.shape :
              /\ f[1] \in DOMAIN data /\ f[2] \in DOMAIN data[f[1]]
              /\ shapes[f[1]][f[2]] = FieldTypeForValue(data[f[1]][f[2]])

\* Each match of a config that has an id is counted under its key, type, rule and
\* value.
EachMatchIsCounted ==
    \A m \in Range(seen.summary) : m.config.id # 0 => \E s \in Summaries :
        /\ s.key = m.config.key /\ s.type = m.config.type
        /\ [match |-> m, count |-> Cardinality({i \in DOMAIN seen.summary : seen.summary[i] = m})]
               \in s.counters

Counters == UNION {s.counters : s \in Summaries}

\* The summaries count every match since they were last sent, and those of
\* configs with ids as what they are.  (Configs of files and maps have none:
\* where their values are the same, the matches of all count for the first.  The
\* counts are added up as sizes of disjoint sets.)
SummariesCountEveryMatch ==
    /\ Cardinality(UNION {{<<i, c>> : i \in 1 .. c.count} : c \in Counters}) = Len(seen.summary)
    /\ EachMatchIsCounted

\* The consumer takes the process down for two kinds of contexts only: a key
\* that is not a string (context.go:74) and a list of nils (helpers.go:47), and
\* only if examples are collected.
PanicsForOddContextsOnly ==
    \A i \in DOMAIN panicked :
        /\ mode = "PeriodicExample"
        /\ \E n \in DOMAIN panicked[i] : \E k \in DOMAIN panicked[i][n] :
              LET x == panicked[i][n][k]
              IN  \/ k = <<"key">> /\ x.kind # "string"
                  \/ x.kind = "slice" /\ ToSet(x.v) = {[kind |-> "nil", v |-> NoValue]}
=============================================================================
