--------------------------- MODULE ConfigResolver ---------------------------
(***************************************************************************)
(* One call of ResolveValue over the list of stores, while the API store   *)
(* is being updated.                                                       *)
(*                                                                         *)
(* The stores are read one at a time and without a lock in between: the    *)
(* config, its environment, each property and each segment may come from   *)
(* different contents of the API store.  Evaluating a segment evaluates a  *)
(* config, so that a call is a stack of evaluations.                       *)
(*                                                                         *)
(* A store is [configs, projectEnvID, context].  A config is a value type  *)
(* and rows; a row is for one environment, <<id>>, or for all, <<>>, and   *)
(* has rules, which the code calls conditional values.                     *)
(***************************************************************************)
EXTENDS Criteria, WeightedValues, Encryption

CONSTANTS
    Key,                    \* names of configs
    Property,               \* names of context properties
    CurrentTime,            \* those that stand for the clock
    Times,                  \* what the clock may show
    Stores,                 \* the list of stores, with ...
    ApiAt,                  \* ... the API store here, and ...
    ApiContents,            \* ... what the server may make of it
    PassedContexts,         \* contexts that a caller may give
    LookupEnv(_),           \* the client's lookup: a variable's text, or NoText
    OSLookupEnv(_),         \* the same of the process, os.LookupEnv
    JsonText(_),            \* the string that a JSON text is, or NoText
    ParseFloat(_),          \* the number that a text is, or NoText
    Sum32(_, _),            \* (key, value): their hash, at most ...
    MaxUint32,              \* ... this
    NoConfig, NoKey,
    MaxUpdates              \* bound: changes of the API store during a call

SegmentOps == {"IN_SEG", "NOT_IN_SEG"}

\* Lists are sequences; segments and secret keys are named by keys; there is a value
\* for each weight.
IsList(list) == DOMAIN list = 1 .. Len(list) /\ Len(list) \in Nat

IsVariant(value) ==
    value = [kind |-> value.kind, is |-> value.is, confidential |-> value.confidential,
             decryptWith |-> value.decryptWith]

IsRule(rule) ==
    /\ IsList(rule.criteria)
    /\ \A n \in DOMAIN rule.criteria :
          IF rule.criteria[n].op \in SegmentOps THEN rule.criteria[n].match.is \in Key
          ELSE rule.criteria[n].property \in Property
    /\ rule.value.decryptWith \in Key \cup {NoKey}
    /\ rule.value.kind = "weighted" =>
          /\ IsList(rule.value.is.weights) /\ rule.value.is.weights # <<>>
          /\ \A i \in DOMAIN rule.value.is.weights : IsVariant(rule.value.is.values[i])

IsConfig(config) ==
    /\ IsList(config.rows)
    /\ \A r \in DOMAIN config.rows :
          /\ IsList(config.rows[r].values)
          /\ \A i \in DOMAIN config.rows[r].values : IsRule(config.rows[r].values[i])

\* What the stores may hold.
StoreContents == ApiContents \cup { Stores[i] : i \in DOMAIN Stores }

ASSUME StoresAssumption ==
    /\ ApiAt \in DOMAIN Stores /\ MaxUpdates \in Nat
    /\ IsList(Stores) /\ IsFiniteSet(Key)
    /\ \A s \in StoreContents, k \in Key :
          s.configs[k] # NoConfig => IsConfig(s.configs[k])
    /\ \A i \in DOMAIN Stores : i # ApiAt =>
          \A p \in Property : Stores[i].context[p] = Absent
    \* The environment goes with the SDK key.
    /\ \A s, t \in ApiContents : s.projectEnvID = t.projectEnvID

VARIABLES
    api,        \* contents of the API store
    updates,    \* its changes during the call
    pc,
    key,        \* of the call
    passed,     \* contextSet of the call
    stack,      \* evaluations under way, the innermost last
    original,   \* rule that matched, or NoRule
    secret,     \* rule that matched for the decryption key, or NoRule
    answer,     \* of the last call
    read        \* history: what the call read of each config and property

vars == <<api, updates, pc, key, passed, stack, original, secret, answer, read>>

Plain(kind, is) == [kind |-> kind, is |-> is, confidential |-> FALSE,
                    decryptWith |-> NoKey]
NoValue == Plain("none", {})
NoRule == [row |-> -1, index |-> -1, type |-> "none", value |-> NoValue]
Nothing == [configs |-> [k \in Key |-> {}], values |-> [p \in Property |-> {}]]
NoAnswer == [error |-> "none", match |-> NoValue, variant |-> 0]

-----------------------------------------------------------------------------
\* Operators named ...Mistake are plausible errors in the definition that follows
\* them; the properties are checked to tell them apart.

\* The list of stores: the first that has something

StoresWith(contents) == [Stores EXCEPT ![ApiAt] = contents]
Contents == StoresWith(api)

FirstConfig(stores, k) ==
    LET Having == { i \in DOMAIN stores : stores[i].configs[k] # NoConfig }
    IN  IF Having = {} THEN NoConfig ELSE stores[Min(Having)].configs[k]

GetConfig(k) == FirstConfig(Contents, k)

GetProjectEnvID ==
    LET Having == { i \in DOMAIN Contents : Contents[i].projectEnvID # 0 }
    IN  IF Having = {} THEN 0 ELSE Contents[Min(Having)].projectEnvID

StoredContextValue(p) ==
    LET Having == { i \in DOMAIN Contents : Contents[i].context[p] # Absent }
    IN  IF Having = {} THEN Absent ELSE Contents[Min(Having)].context[p]

\* multiContextGetter: the caller's context comes first.
GetContextValue(p) == IF passed[p] # Absent THEN passed[p] ELSE StoredContextValue(p)

\* What a criterion on the property p may be given.
PropertyValues(p) ==
    IF p \in CurrentTime THEN { [kind |-> "int", is |-> t] : t \in Times }
    ELSE {GetContextValue(p)}

-----------------------------------------------------------------------------
\* Rows and rules

RowFor(config, env) ==
    LET For == { i \in DOMAIN config.rows : config.rows[i].env = env }
    IN  IF For = {} THEN <<>> ELSE <<config.rows[Min(For)]>>

\* The rules of a row, numbered as ConfigMatch reports them.
RulesOf(config, rows, number) ==
    IF rows = <<>> THEN <<>>
    ELSE [i \in DOMAIN rows[1].values |->
            [row |-> number, index |-> i - 1, type |-> config.type,
             value |-> rows[1].values[i].value,
             criteria |-> rows[1].values[i].criteria]]

RulesDefaultFirstMistake(config, envID) ==
    LET forAll == RowFor(config, <<>>)
    IN  RulesOf(config, forAll, 0)
          \o RulesOf(config, RowFor(config, <<envID>>), Len(forAll))

\* The rules to try in turn: those of the environment's row, then those of the
\* row without one.
Rules(config, envID) ==
    LET forEnv == RowFor(config, <<envID>>)
    IN  RulesOf(config, forEnv, 0)
          \o RulesOf(config, RowFor(config, <<>>), Len(forEnv))

\* What is reported of a rule that matched, with the value type of its config.
Match(rule) == [row |-> rule.row, index |-> rule.index, type |-> rule.type,
                value |-> rule.value]

\* An evaluation is at criterion number `criterion` of rule number `at`; it has
\* not asked for the environment yet while `at` is 0.
Evaluation(config) == [config |-> config, rules |-> <<>>, at |-> 0, criterion |-> 1]

Top == Last(stack)
Rule == Top.rules[Top.at]
Criterion == Rule.criteria[Top.criterion]
WithTop(frame) == Append(Front(stack), frame)

Init ==
    /\ api \in ApiContents
    /\ updates = 0
    /\ pc = "idle"
    /\ key \in Key
    /\ passed \in PassedContexts
    /\ stack = <<>>
    /\ original = NoRule /\ secret = NoRule
    /\ answer = NoAnswer
    /\ read = Nothing

\* Between its reads the store may be replaced in any part.
UpdateApiStore ==
    /\ updates < MaxUpdates /\ pc # "idle"
    /\ \E contents \in ApiContents \ {api} : api' = contents
    /\ updates' = updates + 1
    /\ UNCHANGED <<pc, key, passed, stack, original, secret, answer, read>>

Call ==
    /\ pc = "idle"
    /\ key' \in Key
    /\ passed' \in PassedContexts
    /\ pc' = "lookup"
    /\ updates' = 0
    /\ original' = NoRule /\ secret' = NoRule
    /\ answer' = NoAnswer
    /\ read' = Nothing
    /\ UNCHANGED <<api, stack>>

ReadConfig(k) == read' = [read EXCEPT !.configs[k] = @ \cup {GetConfig(k)}]

Return(error, match, variant) ==
    /\ pc' = "idle"
    /\ stack' = <<>>
    /\ answer' = [error |-> error, match |-> match, variant |-> variant]
    /\ UNCHANGED <<api, updates, key, passed, original, secret>>

\* ResolveValue up to the evaluation.
LookupConfig ==
    /\ pc = "lookup"
    /\ ReadConfig(key)
    /\ \/ /\ GetConfig(key) = NoConfig
          /\ Return("config does not exist", NoValue, 0)
       \/ /\ GetConfig(key) # NoConfig
          /\ stack' = <<Evaluation(GetConfig(key))>>
          /\ pc' = "evaluate"
          /\ UNCHANGED <<api, updates, key, passed, original, secret, answer>>

-----------------------------------------------------------------------------
\* EvaluateConfig

Evaluating == pc \in {"evaluate", "secret"}

JudgedAgainMistake(frame, holds) ==
    IF holds THEN [frame EXCEPT !.criterion = @ + 1] ELSE [frame EXCEPT !.criterion = 1]

\* The criterion of this evaluation holds or fails: on to the next one or to the
\* next rule.
Judged(frame, holds) ==
    IF holds THEN [frame EXCEPT !.criterion = @ + 1]
    ELSE [frame EXCEPT !.at = @ + 1, !.criterion = 1]

SelectRows ==
    /\ Evaluating /\ Top.at = 0
    /\ stack' = WithTop([Top EXCEPT !.rules = Rules(Top.config, GetProjectEnvID),
                                    !.at = 1])
    /\ UNCHANGED <<api, updates, pc, key, passed, original, secret, answer, read>>

AtCriterion ==
    /\ Evaluating
    /\ Top.at \in DOMAIN Top.rules
    /\ Top.criterion \in DOMAIN Rule.criteria

EvaluatePropertyCriterion ==
    /\ AtCriterion /\ Criterion.op \notin SegmentOps
    /\ \E v \in PropertyValues(Criterion.property) :
          /\ stack' = WithTop(Judged(Top,
                 EvaluateCriterion(Criterion.op, v, Criterion.match)))
          /\ read' = [read EXCEPT !.values[Criterion.property] = @ \cup {v}]
    /\ UNCHANGED <<api, updates, pc, key, passed, original, secret, answer>>

EnterSegmentOfCallMistake ==
    /\ AtCriterion /\ Criterion.op \in SegmentOps
    /\ ReadConfig(key)
    /\ stack' = Append(stack, Evaluation(GetConfig(key)))
    /\ UNCHANGED <<api, updates, pc, key, passed, original, secret, answer>>

\* A segment is another config, evaluated on top of this one; where there is none
\* nobody is in it.
EnterSegment ==
    /\ AtCriterion /\ Criterion.op \in SegmentOps
    /\ LET name == Criterion.match.is IN
          /\ ReadConfig(name)
          /\ stack' = IF GetConfig(name) = NoConfig
                      THEN WithTop(Judged(Top, Criterion.op = "NOT_IN_SEG"))
                      ELSE Append(stack, Evaluation(GetConfig(name)))
    /\ UNCHANGED <<api, updates, pc, key, passed, original, secret, answer>>

\* What the match of a segment means to the criterion that asked for it: only a
\* bool counts, anything else is as no match.
InSegment(op, match) ==
    IF match.value.kind = "bool"
    THEN match.value.is <=> op = "IN_SEG"
    ELSE op = "NOT_IN_SEG"

\* An evaluation ends with a match: the one below it goes on, or the call does.
EvaluateConfigReturns(match) ==
    /\ \/ /\ Len(stack) > 1
          /\ LET below == stack[Len(stack) - 1]
                 asked == below.rules[below.at].criteria[below.criterion]
             IN  stack' = Append(SubSeq(stack, 1, Len(stack) - 2),
                                 Judged(below, InSegment(asked.op, match)))
          /\ UNCHANGED <<pc, original, secret>>
       \/ /\ Len(stack) = 1 /\ stack' = <<>>
          /\ pc = "evaluate" /\ pc' = "resolve"
          /\ original' = match
          /\ UNCHANGED secret
       \/ /\ Len(stack) = 1 /\ stack' = <<>>
          /\ pc = "secret" /\ pc' = "decrypt"
          /\ secret' = match
          /\ UNCHANGED original
    /\ UNCHANGED <<api, updates, key, passed, answer, read>>

RuleMatches ==
    /\ Evaluating
    /\ Top.at \in DOMAIN Top.rules
    /\ Top.criterion > Len(Rule.criteria)
    /\ EvaluateConfigReturns(Match(Rule))

NoRuleMatches ==
    /\ Evaluating
    /\ Top.at > Len(Top.rules)
    /\ EvaluateConfigReturns(NoRule)

EvaluateConfig ==
    \/ SelectRows \/ EvaluatePropertyCriterion \/ EnterSegment
    \/ RuleMatches \/ NoRuleMatches

-----------------------------------------------------------------------------
\* ResolveValueForConfig after the evaluation

Original == original.value
NeedsDecryption == Original.kind = "string" /\ Original.decryptWith # NoKey

\* What replaces a confidential value is confidential.
Confidentially(match) ==
    IF Original.confidential /\ Original.decryptWith = NoKey
    THEN [match EXCEPT !.confidential = TRUE]
    ELSE match

\* No rule, or a value to be taken as it is.
ResolvePlain ==
    /\ pc = "resolve"
    /\ Original.kind \notin {"weighted", "provided"} /\ ~NeedsDecryption
    /\ Return("none", Original, 0)
    /\ UNCHANGED read

\* As a bucket.
HashZeroToOne(k, v) == (Sum32(k, v) * Buckets) \div MaxUint32

\* The hash of a property, or any number where there is no such property
\* (Float64 is below 1).
getUserFraction(by) ==
    IF by \in Property /\ GetContextValue(by) # Absent
    THEN {HashZeroToOne(key, GetContextValue(by))} ELSE 0 .. Buckets - 1

ResolveWeightedValue ==
    /\ pc = "resolve" /\ Original.kind = "weighted"
    /\ \E fraction \in getUserFraction(Original.is.hashBy) :
          LET variant == Resolve(Original.is.weights, fraction)
          IN  Return("none", Confidentially(Original.is.values[variant]), variant)
    /\ UNCHANGED read

\* The texts of strconv.ParseBool.
BoolOf == [t \in {"1", "t", "T", "true", "TRUE", "True"} |-> TRUE]
          @@ [t \in {"0", "f", "F", "false", "FALSE", "False"} |-> FALSE]

\* An environment variable's text as a value of a type.
coerceValue(text, type) ==
    CASE type \in {"string", "NOT_SET"} -> Plain("string", text)
      [] type = "int" /\ text \in DOMAIN Spelling /\ isNumeric(Spelling[text]) ->
            Plain("int", Atoi(Spelling[text]))
      [] type = "double" /\ ParseFloat(text) # NoText -> Plain("double", ParseFloat(text))
      [] type = "bool" /\ text \in DOMAIN BoolOf -> Plain("bool", BoolOf[text])
      [] OTHER -> NoValue

ResolveProvidedAsTextMistake ==
    /\ pc = "resolve" /\ Original.kind = "provided"
    /\ LET text == LookupEnv(Original.is)
       IN  \/ /\ text = NoText
              /\ Return("environment variable does not exist", Original, 0)
           \/ /\ text # NoText
              /\ Return("none", Confidentially(Plain("string", text)), 0)
    /\ UNCHANGED read

\* An environment variable's text, as the config's value type says.
ResolveProvided ==
    /\ pc = "resolve" /\ Original.kind = "provided"
    /\ LET text == LookupEnv(Original.is)
           value == coerceValue(text, original.type)
       IN  \/ /\ text = NoText
              /\ Return("environment variable does not exist", Original, 0)
           \/ /\ text # NoText /\ value = NoValue
              /\ Return("type coercion failed", Original, 0)
           \/ /\ text # NoText /\ value # NoValue
              /\ Return("none", Confidentially(value), 0)
    /\ UNCHANGED read

\* handleDecryption evaluates the config of the secret key in the same context.
LookupSecret ==
    /\ pc = "resolve" /\ NeedsDecryption
    /\ LET name == Original.decryptWith IN
          /\ ReadConfig(name)
          /\ \/ /\ GetConfig(name) = NoConfig
                /\ Return("no config value exists", Original, 0)
             \/ /\ GetConfig(name) # NoConfig
                /\ pc' = "secret"
                /\ stack' = <<Evaluation(GetConfig(name))>>
                /\ UNCHANGED <<api, updates, key, passed, original, secret, answer>>

\* ExtractValue of the secret key: a string, also one of JSON, or the text of a
\* variable, here of the process whatever lookup the client was given.
SecretKey ==
    CASE secret.value.kind = "string"   -> secret.value.is
      [] secret.value.kind = "json"     -> JsonText(secret.value.is)
      [] secret.value.kind = "provided" -> OSLookupEnv(secret.value.is)
      [] OTHER                          -> NoText

DecryptFailsOpenMistake ==
    /\ pc = "decrypt"
    /\ LET text == IF secret = NoRule \/ SecretKey = NoText THEN NoText
                   ELSE DecryptValue(SecretKey, Original.is)
       IN  Return("none", IF text = NoText THEN Original
                          ELSE Confidentially(Plain("string", text)), 0)
    /\ UNCHANGED read

\* A panic ends the call; its caller may recover.
Decrypt ==
    /\ pc = "decrypt"
    /\ \/ /\ secret = NoRule
          /\ Return("no match in config value", Original, 0)
       \/ /\ secret # NoRule /\ SecretKey = NoText
          /\ Return(IF secret.value.kind \in {"weighted", "provided"}
                    THEN "secret key lookup failed" ELSE "secret key is not a string",
                    Original, 0)
       \/ /\ secret # NoRule /\ SecretKey # NoText
          /\ LET text == DecryptValue(SecretKey, Original.is) IN
                \/ text = NoText /\ Return("decryption failed", Original, 0)
                \/ text = Panics /\ Return("panic", Original, 0)
                \/ /\ text \notin {NoText, Panics}
                   /\ Return("none",
                             [Plain("string", text) EXCEPT !.confidential = TRUE], 0)
    /\ UNCHANGED read

ResolveValueForConfig ==
    \/ ResolvePlain \/ ResolveWeightedValue \/ ResolveProvided
    \/ LookupSecret \/ Decrypt

ResolveValue == LookupConfig \/ EvaluateConfig \/ ResolveValueForConfig

Next == UpdateApiStore \/ Call \/ ResolveValue

\* A goroutine that has called goes on.
Spec == Init /\ [][Next]_vars /\ WF_vars(ResolveValue)

-----------------------------------------------------------------------------
\* Properties

Some(S, default) == IF S = {} THEN default ELSE CHOOSE x \in S : TRUE

ReadOnce ==
    /\ \A k \in Key : Cardinality(read.configs[k]) <= 1
    /\ \A p \in Property : Cardinality(read.values[p]) <= 1

\* Whether a criterion holds where keys stand for `first` and properties are `values`;
\* one is in a segment if it stands for true.
Holds(criterion, first, values) ==
    IF criterion.op \in SegmentOps
    THEN LET value == first[criterion.match.is].value
         IN  criterion.op = "IN_SEG" <=> value.kind = "bool" /\ value.is
    ELSE EvaluateCriterion(criterion.op, values[criterion.property], criterion.match)

AllHold(criteria, first, values) ==
    \A n \in DOMAIN criteria : Holds(criteria[n], first, values)

\* A config stands for the first of its rules that hold, those for the environment
\* before those for all.
Meant(config, envID, first, values) ==
    LET rows     == config.rows
        Found(r) == { i \in DOMAIN rows[r].values :
                        AllHold(rows[r].values[i].criteria, first, values) }
        FirstRow(r, env) == rows[r].env = env /\ \A j \in 1 .. r - 1 : rows[j].env # env
        Having(env) == { r \in DOMAIN rows : FirstRow(r, env) /\ Found(r) # {} }
        Earliest(r) == [index |-> Min(Found(r)) - 1, value |-> rows[r].values[Min(Found(r))].value]
    IN  IF config = NoConfig THEN NoRule
        ELSE IF Having(<<envID>>) # {} THEN Earliest(Min(Having(<<envID>>)))
        ELSE IF Having(<<>>) # {} THEN Earliest(Min(Having(<<>>)))
        ELSE NoRule

\* The configs and properties as the call read them or, where it did not, as they
\* are now.
ConfigRead(k) == Some(read.configs[k], GetConfig(k))
ValuesRead == [p \in Property |-> Some(read.values[p], GetContextValue(p))]

\* What they mean: what each key stands for, given what the others do.
IsMeaning(first) ==
    first = [k \in Key |-> Meant(ConfigRead(k), GetProjectEnvID, first, ValuesRead)]

Meaning ==
    LET first[k \in Key] == Meant(ConfigRead(k), GetProjectEnvID, first, ValuesRead)
    IN  first

\* Whatever the API store becomes in the meantime: if the call read each config
\* and each property in one version only, and these have a meaning, the rule it
\* took, also for the secret key, is the one they mean
\* (config_rule_evaluator.go:36-90, 234-252).
AnswerIsTheMeaning ==
    ReadOnce /\ pc \notin {"lookup", "evaluate"} /\ IsMeaning(Meaning) =>
        /\ read.configs[key] # {} =>
              /\ original.value = Meaning[key].value
              /\ original.index = Meaning[key].index
        /\ pc = "decrypt" =>
              secret.value = Meaning[Original.decryptWith].value

\* The segments that the rules of a config name.
Segments(config) ==
    { s \in Key : \E r \in DOMAIN config.rows : \E i \in DOMAIN config.rows[r].values :
        LET criteria == config.rows[r].values[i].criteria
        IN  \E n \in DOMAIN criteria : criteria[n].op \in SegmentOps
                                       /\ criteria[n].match.is = s }

\* In no version of the API store are there segments that lead back to themselves:
\* any set of keys has one whose segments are not in it.
SegmentsOf(contents, k) ==
    LET config == FirstConfig(StoresWith(contents), k)
    IN  IF config = NoConfig THEN {} ELSE Segments(config)

NoCircles ==
    \A contents \in ApiContents : \A keys \in (SUBSET Key) \ {{}} :
        \E k \in keys : SegmentsOf(contents, k) \cap keys = {}

\* Segments do not nest deeper than there are configs, each once for every version
\* of the store that the call has seen, if no version has segments in a circle
\* (config_rule_evaluator.go:242); and every evaluation but the innermost waits at
\* a criterion on a segment, to which the one above it will return.
SegmentsNestFinitely ==
    /\ Len(stack) <= Cardinality(Key) * (updates + 1)
    /\ \A i \in 1 .. Len(stack) - 1 :
          /\ stack[i].at \in DOMAIN stack[i].rules
          /\ stack[i].criterion \in DOMAIN stack[i].rules[stack[i].at].criteria
          /\ stack[i].rules[stack[i].at].criteria[stack[i].criterion].op \in SegmentOps

\* Only texts name a key to decrypt them with.
OnlyTextsAreEncrypted ==
    \A s \in StoreContents, k \in Key : s.configs[k] # NoConfig =>
        \A r \in DOMAIN s.configs[k].rows :
            \A i \in DOMAIN s.configs[k].rows[r].values :
                LET value == s.configs[k].rows[r].values[i].value
                IN  value.kind # "string" => value.decryptWith = NoKey

\* A value that is confidential stays so when it is replaced by one of its
\* variants or by an environment variable, and a decrypted one always is: of what
\* was confidential or encrypted a call returns nothing that is neither
\* (config_resolver.go:112-128).
ConfidentialStaysConfidential ==
    pc = "idle" /\ answer.error = "none" /\ original # NoRule =>
        /\ Original.confidential => answer.match.confidential
        /\ NeedsDecryption => answer.match.confidential /\ answer.match # Original

\* A value that comes from the environment is of the type of its config, or the
\* call reports an error (config_resolver.go:97-111, 145).
ProvidedValueHasItsType ==
    pc = "idle" /\ answer.error = "none" /\ Original.kind = "provided" =>
        answer.match.kind = IF original.type = "NOT_SET" THEN "string" ELSE original.type

\* Each variant of a weighted value gets its share: of the fractions above zero,
\* evenly spread, as many choose it as its weight says, but for what does not divide
\* evenly, and none if its weight is zero (weighted_values.go:29-42).  Negative weights
\* and sums that overflow are left out.
EveryValueGetsItsShare ==
    pc = "resolve" /\ Original.kind = "weighted" =>
        LET weights  == Original.is.weights
            total    == SumTo(weights, Len(weights))
            Share(i) == Cardinality({ b \in 1 .. Buckets : Resolve(weights, b) = i })
            Excess(i) == total * Share(i) - weights[i] * Buckets
        IN  (\A i \in DOMAIN weights : weights[i] \in Nat) /\ total \in 1 .. MaxInt32 =>
              \A i \in DOMAIN weights : -total < Excess(i) /\ Excess(i) < total

\* Each call returns, whatever the store turns into meanwhile.
EveryCallReturns == pc = "lookup" ~> pc = "idle"
=============================================================================
