------------------------ MODULE ConfigResolverProofs ------------------------
(***************************************************************************)
(* Facts about an evaluation, whatever the stores hold and however the API *)
(* store changes during it.                                                *)
(***************************************************************************)
EXTENDS ConfigResolver, FiniteSetTheorems, WellFoundedInduction, TLAPS

-----------------------------------------------------------------------------
\* The invariants

\* The stack and the program counter go together; what is looked up as a secret key
\* is wanted.
CallInv ==
    /\ api \in ApiContents /\ updates \in Nat /\ key \in Key
    /\ \E Elements : stack \in Seq(Elements)
    /\ pc \in {"idle", "lookup", "evaluate", "resolve", "secret", "decrypt"}
    /\ Evaluating <=> stack # <<>>
    /\ pc \in {"secret", "decrypt"} => NeedsDecryption

\* A rule that a config has.
RuleOf(rule, config) ==
    \E r \in DOMAIN config.rows : \E i \in DOMAIN config.rows[r].values :
        /\ rule.value = config.rows[r].values[i].value
        /\ rule.criteria = config.rows[r].values[i].criteria

IsEvaluation(frame) ==
    /\ frame = [config |-> frame.config, rules |-> frame.rules,
                at |-> frame.at, criterion |-> frame.criterion]
    /\ IsList(frame.rules)
    /\ \A n \in DOMAIN frame.rules : RuleOf(frame.rules[n], frame.config)

StoredConfig(config) ==
    \E s \in StoreContents, k \in Key : config = s.configs[k] /\ config # NoConfig

\* Each evaluation is of a config that was in the stores.
FrameInv ==
    \A i \in DOMAIN stack : IsEvaluation(stack[i]) /\ StoredConfig(stack[i].config)

StoredValue(value) ==
    \E s \in StoreContents, k \in Key :
        /\ s.configs[k] # NoConfig
        /\ \E r \in DOMAIN s.configs[k].rows :
               \E i \in DOMAIN s.configs[k].rows[r].values :
                   value = s.configs[k].rows[r].values[i].value

\* What was found was in the stores.
OriginalInv == original # NoRule => StoredValue(Original)

SafeInv == CallInv /\ FrameInv /\ OriginalInv

Waits(frame) ==
    /\ frame.at \in DOMAIN frame.rules
    /\ frame.criterion \in DOMAIN frame.rules[frame.at].criteria
    /\ frame.rules[frame.at].criteria[frame.criterion].op \in SegmentOps

WaitInv == \A i \in 1 .. Len(stack) - 1 : Waits(stack[i])

\* The segments that a config leads to: those in every set that has its segments and
\* with each key the segments of that.
Closed(contents, keys) == \A k \in keys : SegmentsOf(contents, k) \subseteq keys

Under(contents, k) ==
    { t \in Key : \A keys \in SUBSET Key :
        SegmentsOf(contents, k) \subseteq keys /\ Closed(contents, keys) => t \in keys }

Height(contents, k) == Cardinality(Under(contents, k))

\* An evaluation is of a config that the API store's contents after u of its changes
\* lead to, and as deep at most as the configs passed on the way allow.
AtDepth(config, depth, u, contents, k) ==
    /\ config = FirstConfig(StoresWith(contents), k) /\ config # NoConfig
    /\ depth <= (u + 1) * Cardinality(Key) - Height(contents, k)

NestInv ==
    \A i \in DOMAIN stack : \E u \in 0 .. updates, contents \in ApiContents, k \in Key :
        /\ u = updates => contents = api
        /\ AtDepth(stack[i].config, i, u, contents, k)

-----------------------------------------------------------------------------
\* Sets of numbers and lists

LEMMA MinIsLeast ==
    ASSUME NEW S \in SUBSET Nat, S # {}
    PROVE  Min(S) \in S /\ \A y \in S : Min(S) <= y
  <1>1. PICK x \in S : \A y \in S : <<y, x>> \notin OpToRel(<, Nat)
    BY NatLessThanWellFounded, WFMin
  <1>2. \A y \in S : ~(y < x)
    BY <1>1, Zenon DEF OpToRel
  <1>3. \A y \in S : x <= y
    BY <1>2
  <1> QED
    BY <1>3 DEF Min

LEMMA EmptyList ==
    ASSUME NEW list, IsList(list), list # <<>>
    PROVE  Len(list) > 0
  <1>1. CASE Len(list) = 0
    <2>1. DOMAIN list = {}
      BY <1>1 DEF IsList
    <2> QED
      BY <2>1
  <1> QED
    BY <1>1 DEF IsList

LEMMA OneIsNotEmpty ==
    ASSUME NEW x
    PROVE  <<x>> # <<>>
  OBVIOUS

LEMMA Pushed ==
    ASSUME NEW Elements, NEW s \in Seq(Elements), NEW x
    PROVE  /\ Append(s, x) \in Seq(Elements \cup {x})
           /\ DOMAIN Append(s, x) = 1 .. Len(s) + 1 /\ Len(Append(s, x)) = Len(s) + 1
           /\ \A i \in 1 .. Len(s) : Append(s, x)[i] = s[i]
           /\ Append(s, x)[Len(s) + 1] = x
  <1>1. s \in Seq(Elements \cup {x}) /\ x \in Elements \cup {x}
    OBVIOUS
  <1> QED
    BY <1>1

LEMMA Shortened ==
    ASSUME NEW Elements, NEW s \in Seq(Elements), NEW n \in 0 .. Len(s)
    PROVE  /\ SubSeq(s, 1, n) \in Seq(Elements) /\ Len(SubSeq(s, 1, n)) = n
           /\ \A i \in 1 .. n : SubSeq(s, 1, n)[i] = s[i]
  OBVIOUS

LEMMA Replaced ==
    ASSUME NEW Elements, NEW s \in Seq(Elements), NEW n \in 1 .. Len(s), NEW x
    PROVE  LET t == Append(SubSeq(s, 1, n - 1), x)
           IN  /\ t \in Seq(Elements \cup {x})
               /\ DOMAIN t = 1 .. n /\ Len(t) = n
               /\ \A i \in 1 .. n - 1 : t[i] = s[i]
               /\ t[n] = x
  <1> DEFINE front == SubSeq(s, 1, n - 1)
  <1>1. /\ front \in Seq(Elements) /\ Len(front) = n - 1
        /\ \A i \in 1 .. n - 1 : front[i] = s[i]
    BY Shortened, n - 1 \in 0 .. Len(s)
  <1> HIDE DEF front
  <1> QED
    BY <1>1, Pushed DEF front

-----------------------------------------------------------------------------
\* Configs and their rules

LEMMA StoredIsConfig ==
    ASSUME NEW config, StoredConfig(config)
    PROVE  IsConfig(config)
  BY StoresAssumption DEF StoredConfig

LEMMA FirstIsStored ==
    ASSUME NEW contents \in ApiContents, NEW k \in Key,
           FirstConfig(StoresWith(contents), k) # NoConfig
    PROVE  StoredConfig(FirstConfig(StoresWith(contents), k))
  <1> DEFINE stores == StoresWith(contents)
             Having == { i \in DOMAIN stores : stores[i].configs[k] # NoConfig }
  <1>1. \A i \in DOMAIN stores : stores[i] \in StoreContents
    BY DEF StoresWith, StoreContents
  <1>2. Having \in SUBSET Nat
    BY StoresAssumption DEF StoresWith, IsList
  <1>3. FirstConfig(stores, k) = IF Having = {} THEN NoConfig
                                 ELSE stores[Min(Having)].configs[k]
    BY DEF FirstConfig
  <1> HIDE DEF stores
  <1>4. Having # {}
    BY <1>3 DEF stores
  <1>5. Min(Having) \in Having
    BY <1>2, <1>4, MinIsLeast
  <1>6. stores[Min(Having)] \in StoreContents
    BY <1>1, <1>5
  <1> QED
    BY <1>3, <1>4, <1>5, <1>6 DEF stores, StoredConfig

LEMMA RowOfConfig ==
    ASSUME NEW config, IsConfig(config), NEW env
    PROVE  \/ RowFor(config, env) = <<>>
           \/ \E r \in DOMAIN config.rows : RowFor(config, env) = <<config.rows[r]>>
  <1> DEFINE For == { i \in DOMAIN config.rows : config.rows[i].env = env }
  <1>1. For \in SUBSET Nat
    BY DEF IsConfig, IsList
  <1>2. CASE For = {}
    BY <1>2 DEF RowFor
  <1>3. CASE For # {}
    <2>1. Min(For) \in For
      BY <1>1, <1>3, MinIsLeast
    <2>2. RowFor(config, env) = <<config.rows[Min(For)]>>
      BY <1>3 DEF RowFor
    <2> HIDE DEF For
    <2> QED
      BY <2>1, <2>2 DEF For
  <1> QED
    BY <1>2, <1>3

LEMMA RulesOfRow ==
    ASSUME NEW config, IsConfig(config), NEW env, NEW number
    PROVE  LET rules == RulesOf(config, RowFor(config, env), number)
           IN  /\ rules \in Seq({ rules[n] : n \in DOMAIN rules })
               /\ \A n \in DOMAIN rules : RuleOf(rules[n], config)
  <1> DEFINE rows  == RowFor(config, env)
             rules == RulesOf(config, rows, number)
  <1>1. CASE rows = <<>>
    <2>1. rules = <<>>
      BY <1>1 DEF RulesOf
    <2> QED
      BY <2>1
  <1>2. CASE rows # <<>>
    <2>1. PICK r \in DOMAIN config.rows : rows = <<config.rows[r]>>
      BY <1>2, RowOfConfig
    <2> DEFINE values == config.rows[r].values
    <2>2. rules = [i \in DOMAIN values |->
                     [row |-> number, index |-> i - 1, type |-> config.type,
                      value |-> values[i].value, criteria |-> values[i].criteria]]
      BY <1>2, <2>1 DEF RulesOf
    <2>3. DOMAIN values = 1 .. Len(values) /\ Len(values) \in Nat
      BY DEF IsConfig, IsList
    <2> HIDE DEF rows, rules
    <2>4. DOMAIN rules = 1 .. Len(values)
      BY <2>2, <2>3
    <2>5. \A n \in DOMAIN rules : RuleOf(rules[n], config)
      BY <2>2 DEF RuleOf
    <2>6. rules \in Seq({ rules[n] : n \in DOMAIN rules })
      <3>1. rules = [n \in 1 .. Len(values) |-> rules[n]]
        BY <2>2, <2>4
      <3>2. \A n \in 1 .. Len(values) : rules[n] \in { rules[m] : m \in DOMAIN rules }
        BY <2>4
      <3> QED
        BY <2>3, <3>1, <3>2
    <2> QED
      BY <2>5, <2>6 DEF rows, rules
  <1> QED
    BY <1>1, <1>2

LEMMA RulesOfConfig ==
    ASSUME NEW config, IsConfig(config), NEW env
    PROVE  /\ IsList(Rules(config, env))
           /\ \A n \in DOMAIN Rules(config, env) : RuleOf(Rules(config, env)[n], config)
  <1> DEFINE a == RulesOf(config, RowFor(config, <<env>>), 0)
             b == RulesOf(config, RowFor(config, <<>>), Len(RowFor(config, <<env>>)))
             A == { a[n] : n \in DOMAIN a }
             B == { b[n] : n \in DOMAIN b }
  <1>1. a \in Seq(A) /\ \A n \in DOMAIN a : RuleOf(a[n], config)
    BY RulesOfRow
  <1>2. b \in Seq(B) /\ \A n \in DOMAIN b : RuleOf(b[n], config)
    BY RulesOfRow
  <1>3. Rules(config, env) = a \o b
    BY DEF Rules
  <1> HIDE DEF a, b, A, B
  <1>4. /\ a \o b \in Seq(A \cup B) /\ Len(a \o b) = Len(a) + Len(b)
        /\ \A n \in 1 .. Len(a) : (a \o b)[n] = a[n]
        /\ \A n \in Len(a) + 1 .. Len(a) + Len(b) : (a \o b)[n] = b[n - Len(a)]
    <2>1. a \in Seq(A \cup B) /\ b \in Seq(A \cup B)
      BY <1>1, <1>2
    <2> QED
      BY <2>1
  <1>5. \A n \in DOMAIN (a \o b) : RuleOf((a \o b)[n], config)
    <2> TAKE n \in DOMAIN (a \o b)
    <2>1. n \in 1 .. Len(a) + Len(b) /\ Len(a) \in Nat /\ Len(b) \in Nat
      BY <1>1, <1>2, <1>4
    <2>2. CASE n \in 1 .. Len(a)
      BY <1>1, <1>4, <2>2
    <2>3. CASE n \in Len(a) + 1 .. Len(a) + Len(b)
      <3>1. n - Len(a) \in DOMAIN b
        BY <1>2, <2>1, <2>3
      <3> QED
        BY <1>2, <1>4, <2>3, <3>1
    <2> QED
      BY <2>1, <2>2, <2>3
  <1> QED
    BY <1>3, <1>4, <1>5 DEF IsList

-----------------------------------------------------------------------------
\* What a config leads to

LEMMA SegmentsAreKeys ==
    ASSUME NEW contents, NEW k
    PROVE  SegmentsOf(contents, k) \subseteq Key
  BY DEF SegmentsOf, Segments

LEMMA UnderIsClosed ==
    ASSUME NEW contents, NEW k
    PROVE  /\ Under(contents, k) \subseteq Key
           /\ SegmentsOf(contents, k) \subseteq Under(contents, k)
           /\ Closed(contents, Under(contents, k))
  <1>1. SegmentsOf(contents, k) \subseteq Under(contents, k)
    BY SegmentsAreKeys DEF Under
  <1>2. ASSUME NEW t \in Under(contents, k), NEW s \in SegmentsOf(contents, t)
        PROVE  s \in Under(contents, k)
    <2> SUFFICES ASSUME NEW keys \in SUBSET Key, SegmentsOf(contents, k) \subseteq keys,
                        Closed(contents, keys)
                 PROVE  s \in keys
      BY SegmentsAreKeys DEF Under
    <2>1. t \in keys
      BY DEF Under
    <2> QED
      BY <2>1 DEF Closed
  <1>3. Under(contents, k) \subseteq Key
    BY DEF Under
  <1> QED
    BY <1>1, <1>2, <1>3 DEF Closed

LEMMA UnderIsLeast ==
    ASSUME NEW contents, NEW k, NEW keys \in SUBSET Key,
           SegmentsOf(contents, k) \subseteq keys, Closed(contents, keys)
    PROVE  Under(contents, k) \subseteq keys
  BY DEF Under

LEMMA UnderInSteps ==
    ASSUME NEW contents, NEW k, NEW t \in Under(contents, k)
    PROVE  \/ t \in SegmentsOf(contents, k)
           \/ \E s \in SegmentsOf(contents, k) : t \in Under(contents, s)
  <1> DEFINE keys == SegmentsOf(contents, k)
               \cup { x \in Key : \E s \in SegmentsOf(contents, k) : x \in Under(contents, s) }
  <1>1. keys \in SUBSET Key
    BY SegmentsAreKeys
  <1>2. ASSUME NEW x \in keys, NEW y \in SegmentsOf(contents, x)
        PROVE  y \in keys
    <2>1. y \in Key
      BY SegmentsAreKeys
    <2>2. CASE x \in SegmentsOf(contents, k)
      <3>1. y \in Under(contents, x)
        BY UnderIsClosed
      <3> QED
        BY <2>1, <2>2, <3>1
    <2>3. CASE \E s \in SegmentsOf(contents, k) : x \in Under(contents, s)
      <3>1. PICK s \in SegmentsOf(contents, k) : x \in Under(contents, s)
        BY <2>3
      <3>2. y \in Under(contents, s)
        BY <3>1, UnderIsClosed DEF Closed
      <3> QED
        BY <2>1, <3>2
    <2> QED
      BY <2>2, <2>3
  <1>3. Closed(contents, keys)
    BY <1>2 DEF Closed
  <1>4. Under(contents, k) \subseteq keys
    <2>1. SegmentsOf(contents, k) \subseteq keys
      OBVIOUS
    <2> HIDE DEF keys
    <2> QED
      BY <1>1, <1>3, <2>1, UnderIsLeast
  <1> QED
    BY <1>4

LEMMA NotUnderItself ==
    ASSUME NoCircles, NEW contents \in ApiContents, NEW k \in Key
    PROVE  k \notin Under(contents, k)
  <1> SUFFICES ASSUME k \in Under(contents, k)
               PROVE  FALSE
    OBVIOUS
  <1> DEFINE keys == { x \in Key : k \in Under(contents, x) }
  <1>1. PICK x \in keys : SegmentsOf(contents, x) \cap keys = {}
    BY DEF NoCircles
  <1>2. CASE k \in SegmentsOf(contents, x)
    BY <1>1, <1>2
  <1>3. CASE \E s \in SegmentsOf(contents, x) : k \in Under(contents, s)
    BY <1>1, <1>3, SegmentsAreKeys
  <1> QED
    BY <1>1, <1>2, <1>3, UnderInSteps

LEMMA HeightsAreSmall ==
    ASSUME NoCircles, NEW contents \in ApiContents, NEW k \in Key
    PROVE  /\ Cardinality(Key) \in Nat
           /\ Height(contents, k) \in 0 .. Cardinality(Key) - 1
  <1>1. /\ Under(contents, k) \subseteq Key \ {k}
        /\ IsFiniteSet(Key) /\ IsFiniteSet(Key \ {k})
    BY UnderIsClosed, NotUnderItself, StoresAssumption, FS_RemoveElement
  <1>2. /\ Cardinality(Key) \in Nat
        /\ Cardinality(Key \ {k}) = Cardinality(Key) - 1
    BY <1>1, FS_RemoveElement, FS_CardinalityType
  <1>3. /\ IsFiniteSet(Under(contents, k))
        /\ Cardinality(Under(contents, k)) <= Cardinality(Key \ {k})
    BY <1>1, FS_Subset
  <1>4. Cardinality(Under(contents, k)) \in Nat
    BY <1>3, FS_CardinalityType
  <1> QED
    BY <1>2, <1>3, <1>4 DEF Height

LEMMA HeightDecreases ==
    ASSUME NoCircles, NEW contents \in ApiContents, NEW k \in Key,
           NEW s \in SegmentsOf(contents, k)
    PROVE  Height(contents, s) < Height(contents, k)
  <1>1. s \in Key /\ s \in Under(contents, k) /\ s \notin Under(contents, s)
    BY SegmentsAreKeys, UnderIsClosed, NotUnderItself
  <1>2. Under(contents, s) \subseteq Under(contents, k)
    <2>1. Under(contents, k) \in SUBSET Key /\ SegmentsOf(contents, s) \subseteq Under(contents, k)
      BY <1>1, UnderIsClosed DEF Closed
    <2> QED
      BY <2>1, UnderIsClosed, UnderIsLeast
  <1>3. IsFiniteSet(Under(contents, k))
    BY UnderIsClosed, StoresAssumption, FS_Subset
  <1>4. /\ Cardinality(Under(contents, s)) <= Cardinality(Under(contents, k))
        /\ Cardinality(Under(contents, s)) = Cardinality(Under(contents, k))
             => Under(contents, s) = Under(contents, k)
        /\ IsFiniteSet(Under(contents, s))
    BY <1>2, <1>3, FS_Subset
  <1>5. Cardinality(Under(contents, s)) \in Nat /\ Cardinality(Under(contents, k)) \in Nat
    BY <1>3, <1>4, FS_CardinalityType
  <1> QED
    BY <1>1, <1>4, <1>5 DEF Height

-----------------------------------------------------------------------------
\* Evaluations

LEMMA FreshEvaluation ==
    ASSUME NEW config
    PROVE  IsEvaluation(Evaluation(config)) /\ Evaluation(config).config = config
  BY DEF IsEvaluation, Evaluation, IsList

LEMMA FieldsOfEvaluation ==
    ASSUME NEW frame, IsEvaluation(frame)
    PROVE  \E c, r, a, n : frame = [config |-> c, rules |-> r, at |-> a, criterion |-> n]
  BY Zenon DEF IsEvaluation

LEMMA JudgedEvaluation ==
    ASSUME NEW frame, IsEvaluation(frame), NEW holds
    PROVE  IsEvaluation(Judged(frame, holds)) /\ Judged(frame, holds).config = frame.config
  <1>1. PICK c, r, a, n :
              frame = [config |-> c, rules |-> r, at |-> a, criterion |-> n]
    BY FieldsOfEvaluation
  <1>2. CASE holds
    <2>1. Judged(frame, holds) = [config |-> c, rules |-> r, at |-> a, criterion |-> n + 1]
      BY <1>1, <1>2 DEF Judged
    <2> QED
      BY <1>1, <2>1 DEF IsEvaluation
  <1>3. CASE ~holds
    <2>1. Judged(frame, holds) = [config |-> c, rules |-> r, at |-> a + 1, criterion |-> 1]
      BY <1>1, <1>3 DEF Judged
    <2> QED
      BY <1>1, <2>1 DEF IsEvaluation
  <1> QED
    BY <1>2, <1>3

LEMMA SelectedEvaluation ==
    ASSUME NEW frame, IsEvaluation(frame), IsConfig(frame.config), NEW env
    PROVE  LET selected == [frame EXCEPT !.rules = Rules(frame.config, env), !.at = 1]
           IN  IsEvaluation(selected) /\ selected.config = frame.config
  <1> DEFINE rules == Rules(frame.config, env)
  <1>1. IsList(rules) /\ \A n \in DOMAIN rules : RuleOf(rules[n], frame.config)
    BY RulesOfConfig
  <1> HIDE DEF rules
  <1>2. PICK c, r, a, n :
              frame = [config |-> c, rules |-> r, at |-> a, criterion |-> n]
    BY FieldsOfEvaluation
  <1>3. [frame EXCEPT !.rules = rules, !.at = 1]
          = [config |-> c, rules |-> rules, at |-> 1, criterion |-> n]
    <2> DEFINE half == [frame EXCEPT !.rules = rules]
    <2>1. half = [config |-> c, rules |-> rules, at |-> a, criterion |-> n]
      BY <1>2
    <2>2. [half EXCEPT !.at = 1]
            = [config |-> c, rules |-> rules, at |-> 1, criterion |-> n]
      <3> HIDE DEF half
      <3> QED
        BY <2>1
    <2>3. [frame EXCEPT !.rules = rules, !.at = 1] = [half EXCEPT !.at = 1]
      BY <1>2
    <2> QED
      BY <2>2, <2>3
  <1> QED
    BY <1>1, <1>2, <1>3 DEF IsEvaluation, rules

\* A criterion on a segment names one of the segments of the config.
LEMMA NamedSegment ==
    ASSUME NEW frame, IsEvaluation(frame), IsConfig(frame.config), Waits(frame)
    PROVE  frame.rules[frame.at].criteria[frame.criterion].match.is
             \in Segments(frame.config)
  <1> DEFINE rule == frame.rules[frame.at]
             config == frame.config
             n == frame.criterion
  <1>1. RuleOf(rule, config) /\ n \in DOMAIN rule.criteria
        /\ rule.criteria[n].op \in SegmentOps
    BY DEF IsEvaluation, Waits
  <1> HIDE DEF rule, config, n
  <1>2. PICK r \in DOMAIN config.rows : \E i \in DOMAIN config.rows[r].values :
              rule.criteria = config.rows[r].values[i].criteria
    BY <1>1 DEF RuleOf
  <1>3. PICK i \in DOMAIN config.rows[r].values :
              rule.criteria = config.rows[r].values[i].criteria
    BY <1>2
  <1>4. rule.criteria[n].match.is \in Key
    <2>1. IsRule(config.rows[r].values[i])
      BY DEF IsConfig, config
    <2> QED
      BY <1>1, <1>3, <2>1 DEF IsRule
  <1>5. rule.criteria[n].match.is \in Segments(config)
    BY <1>1, <1>3, <1>4 DEF Segments
  <1> QED
    BY <1>5 DEF rule, config, n

\* The value of a rule is one that the stores have.
LEMMA MatchedValue ==
    ASSUME NEW frame, IsEvaluation(frame), StoredConfig(frame.config),
           frame.at \in DOMAIN frame.rules
    PROVE  StoredValue(frame.rules[frame.at].value)
  <1>1. PICK r \in DOMAIN frame.config.rows : \E i \in DOMAIN frame.config.rows[r].values :
              frame.rules[frame.at].value = frame.config.rows[r].values[i].value
    BY DEF IsEvaluation, RuleOf
  <1> QED
    BY <1>1 DEF StoredConfig, StoredValue

-----------------------------------------------------------------------------
\* What a step does to the stack

\* It begins with one evaluation, replaces one of the two on top by itself further on
\* and drops what is above, or adds the evaluation of a segment.
Begun ==
    \E k \in Key : /\ GetConfig(k) # NoConfig
                   /\ stack' = <<Evaluation(GetConfig(k))>>

Moved ==
    \E n \in 1 .. Len(stack) : \E frame :
        /\ IsEvaluation(frame) /\ frame.config = stack[n].config
        /\ stack' = Append(SubSeq(stack, 1, n - 1), frame)

Nested ==
    /\ stack # <<>> /\ Waits(stack[Len(stack)])
    /\ \E k \in Segments(stack[Len(stack)].config) :
          /\ GetConfig(k) # NoConfig
          /\ stack' = Append(stack, Evaluation(GetConfig(k)))

StackStep ==
    \/ stack' = stack \/ stack' = <<>>
    \/ UNCHANGED <<api, updates>> /\ (Begun \/ Moved \/ Nested)

LEMMA SecretIsKey ==
    ASSUME SafeInv, NeedsDecryption
    PROVE  Original.decryptWith \in Key
  <1>1. original # NoRule
    BY DEF NeedsDecryption, Original, NoRule, NoValue, Plain
  <1>2. PICK s \in StoreContents, k \in Key :
              /\ s.configs[k] # NoConfig
              /\ \E r \in DOMAIN s.configs[k].rows :
                     \E i \in DOMAIN s.configs[k].rows[r].values :
                         Original = s.configs[k].rows[r].values[i].value
    BY <1>1 DEF SafeInv, OriginalInv, StoredValue
  <1>3. IsConfig(s.configs[k])
    BY <1>2, StoresAssumption
  <1>4. Original.decryptWith \in Key \cup {NoKey}
    BY <1>2, <1>3 DEF IsConfig, IsRule
  <1> QED
    BY <1>4 DEF NeedsDecryption

LEMMA TopOfStack ==
    ASSUME SafeInv, Evaluating
    PROVE  /\ Len(stack) \in Nat /\ Len(stack) > 0 /\ DOMAIN stack = 1 .. Len(stack)
           /\ Top = stack[Len(stack)]
           /\ IsEvaluation(Top) /\ StoredConfig(Top.config) /\ IsConfig(Top.config)
  <1>1. PICK Elements : stack \in Seq(Elements)
    BY DEF SafeInv, CallInv
  <1>2. stack # <<>>
    BY DEF SafeInv, CallInv
  <1>3. Len(stack) \in Nat /\ Len(stack) > 0 /\ DOMAIN stack = 1 .. Len(stack)
    BY <1>1, <1>2
  <1>4. Top = stack[Len(stack)]
    BY DEF Top, Last
  <1>5. Len(stack) \in DOMAIN stack
    BY <1>3
  <1>6. IsEvaluation(Top) /\ StoredConfig(Top.config)
    BY <1>4, <1>5 DEF SafeInv, FrameInv
  <1> QED
    BY <1>3, <1>4, <1>6, StoredIsConfig

LEMMA TopMoves ==
    ASSUME SafeInv, Evaluating, NEW frame, IsEvaluation(frame), frame.config = Top.config,
           stack' = WithTop(frame)
    PROVE  Moved
  <1>1. WithTop(frame) = Append(SubSeq(stack, 1, Len(stack) - 1), frame)
    BY DEF WithTop, Front
  <1> QED
    BY <1>1, TopOfStack DEF Moved

LEMMA SelectRowsMoves == ASSUME SafeInv, SelectRows PROVE Moved
  <1>1. Evaluating
    BY DEF SelectRows
  <1> DEFINE frame == [Top EXCEPT !.rules = Rules(Top.config, GetProjectEnvID), !.at = 1]
  <1>2. IsEvaluation(frame) /\ frame.config = Top.config
    BY <1>1, TopOfStack, SelectedEvaluation
  <1>3. stack' = WithTop(frame)
    BY DEF SelectRows
  <1> HIDE DEF frame
  <1> QED
    BY <1>1, <1>2, <1>3, TopMoves

LEMMA PropertyMoves == ASSUME SafeInv, EvaluatePropertyCriterion PROVE Moved
  <1>1. Evaluating
    BY DEF EvaluatePropertyCriterion, AtCriterion
  <1>2. PICK v : stack' = WithTop(Judged(Top,
                     EvaluateCriterion(Criterion.op, v, Criterion.match)))
    BY DEF EvaluatePropertyCriterion
  <1> QED
    BY <1>1, <1>2, TopOfStack, TopMoves, JudgedEvaluation

LEMMA EnterSegmentNests == ASSUME SafeInv, EnterSegment PROVE Moved \/ Nested
  <1>1. Evaluating /\ AtCriterion
    BY DEF EnterSegment, AtCriterion
  <1> DEFINE name == Criterion.match.is
  <1>2. Waits(Top)
    BY DEF EnterSegment, AtCriterion, Waits, Rule, Criterion
  <1>3. name \in Segments(Top.config)
    BY <1>1, <1>2, TopOfStack, NamedSegment DEF Criterion, Rule
  <1>4. CASE GetConfig(name) = NoConfig
    <2>1. stack' = WithTop(Judged(Top, Criterion.op = "NOT_IN_SEG"))
      BY <1>4 DEF EnterSegment
    <2> QED
      BY <1>1, <2>1, TopOfStack, TopMoves, JudgedEvaluation
  <1>5. CASE GetConfig(name) # NoConfig
    <2>1. stack' = Append(stack, Evaluation(GetConfig(name)))
      BY <1>5 DEF EnterSegment
    <2>2. stack # <<>>
      BY <1>1 DEF SafeInv, CallInv
    <2> QED
      BY <1>1, <1>2, <1>3, <1>5, <2>1, <2>2, TopOfStack DEF Nested
  <1> QED
    BY <1>4, <1>5

LEMMA ReturnsMove ==
    ASSUME SafeInv, Evaluating, NEW match, EvaluateConfigReturns(match)
    PROVE  IF Len(stack) > 1 THEN Moved ELSE stack' = <<>>
  <1>1. CASE Len(stack) > 1
    <2> DEFINE n == Len(stack) - 1
               below == stack[n]
               asked == below.rules[below.at].criteria[below.criterion]
               frame == Judged(below, InSegment(asked.op, match))
    <2>1. n \in 1 .. Len(stack) /\ n \in DOMAIN stack
      BY <1>1, TopOfStack
    <2>2. IsEvaluation(below)
      BY <2>1 DEF SafeInv, FrameInv
    <2>3. IsEvaluation(frame) /\ frame.config = below.config
      BY <2>2, JudgedEvaluation
    <2>4. stack' = Append(SubSeq(stack, 1, Len(stack) - 2), frame)
      <3>1. Len(stack) # 1
        BY <1>1, TopOfStack
      <3> QED
        BY <3>1 DEF EvaluateConfigReturns
    <2>5. Len(stack) - 2 = n - 1
      BY TopOfStack
    <2> HIDE DEF frame, n
    <2>6. stack' = Append(SubSeq(stack, 1, n - 1), frame)
      BY <2>4, <2>5
    <2>7. Moved
      BY <2>1, <2>3, <2>6 DEF Moved
    <2> QED
      BY <1>1, <2>7
  <1>2. CASE ~(Len(stack) > 1)
    BY <1>2 DEF EvaluateConfigReturns
  <1> QED
    BY <1>1, <1>2

LEMMA StackSteps ==
    ASSUME SafeInv, [Next]_vars
    PROVE  StackStep
  <1> USE DEF StackStep
  <1>1. CASE UpdateApiStore
    BY <1>1 DEF UpdateApiStore
  <1>2. CASE Call
    BY <1>2 DEF Call
  <1>3. CASE LookupConfig
    <2>1. CASE GetConfig(key) = NoConfig
      BY <1>3, <2>1 DEF LookupConfig, Return
    <2>2. CASE GetConfig(key) # NoConfig
      <3>1. Begun /\ UNCHANGED <<api, updates>>
        BY <1>3, <2>2 DEF LookupConfig, Begun, SafeInv, CallInv
      <3> QED
        BY <3>1
    <2> QED
      BY <2>1, <2>2
  <1>4. CASE SelectRows
    BY <1>4, SelectRowsMoves DEF SelectRows
  <1>5. CASE EvaluatePropertyCriterion
    BY <1>5, PropertyMoves DEF EvaluatePropertyCriterion
  <1>6. CASE EnterSegment
    BY <1>6, EnterSegmentNests DEF EnterSegment
  <1>7. CASE RuleMatches
    <2>1. Evaluating /\ EvaluateConfigReturns(Match(Rule)) /\ UNCHANGED <<api, updates>>
      BY <1>7 DEF RuleMatches, EvaluateConfigReturns
    <2> QED
      BY <2>1, ReturnsMove
  <1>8. CASE NoRuleMatches
    <2>1. Evaluating /\ EvaluateConfigReturns(NoRule) /\ UNCHANGED <<api, updates>>
      BY <1>8 DEF NoRuleMatches, EvaluateConfigReturns
    <2> QED
      BY <2>1, ReturnsMove
  <1>9. CASE ResolvePlain
    BY <1>9 DEF ResolvePlain, Return
  <1>10. CASE ResolveWeightedValue
    BY <1>10 DEF ResolveWeightedValue, Return
  <1>11. CASE ResolveProvided
    BY <1>11 DEF ResolveProvided, Return
  <1>12. CASE LookupSecret
    <2> DEFINE name == Original.decryptWith
    <2>1. CASE GetConfig(name) = NoConfig
      BY <1>12, <2>1 DEF LookupSecret, Return
    <2>2. CASE GetConfig(name) # NoConfig
      <3>1. name \in Key
        BY <1>12, SecretIsKey DEF LookupSecret
      <3>2. /\ stack' = <<Evaluation(GetConfig(name))>>
            /\ UNCHANGED <<api, updates>>
        BY <1>12, <2>2 DEF LookupSecret
      <3>3. Begun
        BY <2>2, <3>1, <3>2 DEF Begun
      <3> QED
        BY <3>2, <3>3
    <2> QED
      BY <2>1, <2>2
  <1>13. CASE Decrypt
    BY <1>13 DEF Decrypt, Return
  <1>14. CASE UNCHANGED vars
    BY <1>14 DEF vars
  <1> QED
    BY <1>1, <1>2, <1>3, <1>4, <1>5, <1>6, <1>7, <1>8, <1>9, <1>10, <1>11, <1>12, <1>13,
       <1>14
    DEF Next, ResolveValue, EvaluateConfig, ResolveValueForConfig

-----------------------------------------------------------------------------
\* The invariant of every evaluation

LEMMA MovedStack ==
    ASSUME SafeInv, Moved
    PROVE  \E n \in 1 .. Len(stack) : \E frame :
              /\ IsEvaluation(frame) /\ frame.config = stack[n].config
              /\ \E Elements : stack' \in Seq(Elements)
              /\ DOMAIN stack' = 1 .. n /\ Len(stack') = n
              /\ \A i \in 1 .. n - 1 : stack'[i] = stack[i]
              /\ stack'[n] = frame
  <1>1. PICK Elements : stack \in Seq(Elements)
    BY DEF SafeInv, CallInv
  <1>2. PICK n \in 1 .. Len(stack) : \E frame :
              /\ IsEvaluation(frame) /\ frame.config = stack[n].config
              /\ stack' = Append(SubSeq(stack, 1, n - 1), frame)
    BY DEF Moved
  <1>3. PICK frame :
              /\ IsEvaluation(frame) /\ frame.config = stack[n].config
              /\ stack' = Append(SubSeq(stack, 1, n - 1), frame)
    BY <1>2
  <1>4. /\ stack' \in Seq(Elements \cup {frame})
        /\ DOMAIN stack' = 1 .. n /\ Len(stack') = n
        /\ \A i \in 1 .. n - 1 : stack'[i] = stack[i]
        /\ stack'[n] = frame
    BY <1>1, <1>3, Replaced
  <1> QED
    BY <1>3, <1>4

LEMMA NestedStack ==
    ASSUME SafeInv, Nested
    PROVE  \E k \in Segments(stack[Len(stack)].config) :
              /\ GetConfig(k) # NoConfig
              /\ \E Elements : stack' \in Seq(Elements)
              /\ DOMAIN stack' = 1 .. Len(stack) + 1 /\ Len(stack') = Len(stack) + 1
              /\ \A i \in 1 .. Len(stack) : stack'[i] = stack[i]
              /\ stack'[Len(stack) + 1] = Evaluation(GetConfig(k))
  <1>1. PICK Elements : stack \in Seq(Elements)
    BY DEF SafeInv, CallInv
  <1>2. PICK k \in Segments(stack[Len(stack)].config) :
              /\ GetConfig(k) # NoConfig
              /\ stack' = Append(stack, Evaluation(GetConfig(k)))
    BY DEF Nested
  <1> DEFINE frame == Evaluation(GetConfig(k))
  <1> HIDE DEF frame
  <1>3. /\ stack' \in Seq(Elements \cup {frame})
        /\ DOMAIN stack' = 1 .. Len(stack) + 1 /\ Len(stack') = Len(stack) + 1
        /\ \A i \in 1 .. Len(stack) : stack'[i] = stack[i]
        /\ stack'[Len(stack) + 1] = frame
    BY <1>1, <1>2, Pushed DEF frame
  <1> QED
    BY <1>2, <1>3 DEF frame

LEMMA BegunStack ==
    ASSUME Begun
    PROVE  \E k \in Key :
              /\ GetConfig(k) # NoConfig
              /\ \E Elements : stack' \in Seq(Elements)
              /\ DOMAIN stack' = 1 .. 1 /\ Len(stack') = 1
              /\ stack'[1] = Evaluation(GetConfig(k))
  <1>1. PICK k \in Key : GetConfig(k) # NoConfig /\ stack' = <<Evaluation(GetConfig(k))>>
    BY DEF Begun
  <1> DEFINE frame == Evaluation(GetConfig(k))
  <1> HIDE DEF frame
  <1>2. <<frame>> \in Seq({frame}) /\ DOMAIN <<frame>> = 1 .. 1 /\ Len(<<frame>>) = 1
        /\ <<frame>>[1] = frame
    OBVIOUS
  <1>3. stack' = <<frame>>
    BY <1>1 DEF frame
  <1> QED
    BY <1>1, <1>2, <1>3 DEF frame

LEMMA StackStaysList ==
    ASSUME SafeInv, StackStep
    PROVE  \E Elements : stack' \in Seq(Elements)
  <1>1. CASE stack' = stack
    BY <1>1 DEF SafeInv, CallInv
  <1>2. CASE stack' = <<>>
    <2>1. stack' \in Seq({})
      BY <1>2
    <2> QED
      BY <2>1
  <1> QED
    BY <1>1, <1>2, MovedStack, NestedStack, BegunStack DEF StackStep

LEMMA FoundIsStored ==
    ASSUME SafeInv, NEW k \in Key, GetConfig(k) # NoConfig
    PROVE  StoredConfig(GetConfig(k))
  BY FirstIsStored DEF GetConfig, Contents, SafeInv, CallInv

LEMMA FramesStay ==
    ASSUME SafeInv, StackStep
    PROVE  FrameInv'
  <1> SUFFICES ASSUME NEW i \in DOMAIN stack'
               PROVE  IsEvaluation(stack'[i]) /\ StoredConfig(stack'[i].config)
    BY DEF FrameInv
  <1>1. CASE stack' = stack
    BY <1>1 DEF SafeInv, FrameInv
  <1>2. CASE stack' = <<>>
    BY <1>2
  <1>3. CASE Begun
    BY <1>3, BegunStack, FreshEvaluation, FoundIsStored
  <1>4. CASE Moved
    <2>1. PICK n \in 1 .. Len(stack) : \E frame :
              /\ IsEvaluation(frame) /\ frame.config = stack[n].config
              /\ DOMAIN stack' = 1 .. n
              /\ \A j \in 1 .. n - 1 : stack'[j] = stack[j]
              /\ stack'[n] = frame
      BY <1>4, MovedStack
    <2>2. Len(stack) \in Nat /\ DOMAIN stack = 1 .. Len(stack)
      BY DEF SafeInv, CallInv
    <2>3. n \in DOMAIN stack /\ i \in DOMAIN stack
      BY <2>1, <2>2
    <2>4. CASE i = n
      BY <2>1, <2>3, <2>4 DEF SafeInv, FrameInv
    <2>5. CASE i # n
      <3>1. stack'[i] = stack[i]
        BY <2>1, <2>2, <2>5
      <3> QED
        BY <2>3, <3>1 DEF SafeInv, FrameInv
    <2> QED
      BY <2>4, <2>5
  <1>5. CASE Nested
    <2>1. PICK k \in Segments(stack[Len(stack)].config) :
              /\ GetConfig(k) # NoConfig
              /\ DOMAIN stack' = 1 .. Len(stack) + 1
              /\ \A j \in 1 .. Len(stack) : stack'[j] = stack[j]
              /\ stack'[Len(stack) + 1] = Evaluation(GetConfig(k))
      BY <1>5, NestedStack
    <2>2. Len(stack) \in Nat /\ DOMAIN stack = 1 .. Len(stack)
      BY DEF SafeInv, CallInv
    <2>3. k \in Key
      BY DEF Segments
    <2>4. CASE i \in DOMAIN stack
      BY <2>1, <2>2, <2>4 DEF SafeInv, FrameInv
    <2>5. CASE i = Len(stack) + 1
      BY <2>1, <2>3, <2>5, FreshEvaluation, FoundIsStored
    <2> QED
      BY <2>1, <2>2, <2>4, <2>5
  <1> QED
    BY <1>1, <1>2, <1>3, <1>4, <1>5 DEF StackStep

LEMMA MovedIsNotEmpty ==
    ASSUME SafeInv, Moved
    PROVE  stack' # <<>>
  <1>1. PICK n \in 1 .. Len(stack) : Len(stack') = n
    BY MovedStack
  <1>2. Len(stack) \in Nat
    BY DEF SafeInv, CallInv
  <1> QED
    BY <1>1, <1>2

LEMMA NestedIsNotEmpty ==
    ASSUME SafeInv, Nested
    PROVE  stack' # <<>>
  <1>1. Len(stack') = Len(stack) + 1
    BY NestedStack
  <1>2. Len(stack) \in Nat
    BY DEF SafeInv, CallInv
  <1> QED
    BY <1>1, <1>2

\* The program counter, apart from what the stack is made of.
PcInv ==
    /\ pc \in {"idle", "lookup", "evaluate", "resolve", "secret", "decrypt"}
    /\ Evaluating <=> stack # <<>>
    /\ pc \in {"secret", "decrypt"} => NeedsDecryption

LEMMA ReturnStays ==
    ASSUME NEW error, NEW match, NEW variant, Return(error, match, variant)
    PROVE  PcInv'
  BY DEF Return, PcInv, Evaluating

LEMMA EvaluateReturnsStays ==
    ASSUME SafeInv, Evaluating, NEW match, EvaluateConfigReturns(match)
    PROVE  PcInv'
  <1>1. CASE Len(stack) > 1
    <2>1. UNCHANGED <<pc, original>>
      BY <1>1, TopOfStack DEF EvaluateConfigReturns
    <2>2. stack' # <<>>
      BY <1>1, ReturnsMove, MovedIsNotEmpty
    <2> QED
      BY <2>1, <2>2
      DEF SafeInv, CallInv, PcInv, Evaluating, NeedsDecryption, Original
  <1>2. CASE ~(Len(stack) > 1)
    BY <1>2
    DEF EvaluateConfigReturns, SafeInv, CallInv, PcInv, Evaluating, NeedsDecryption, Original
  <1> QED
    BY <1>1, <1>2

LEMMA PcStays ==
    ASSUME SafeInv, [Next]_vars
    PROVE  PcInv'
  <1>1. CASE UpdateApiStore
    BY <1>1 DEF UpdateApiStore, SafeInv, CallInv, PcInv, Evaluating, NeedsDecryption, Original
  <1>2. CASE Call
    BY <1>2 DEF Call, SafeInv, CallInv, PcInv, Evaluating
  <1>3. CASE LookupConfig
    <2>1. CASE GetConfig(key) = NoConfig
      BY <1>3, <2>1, ReturnStays DEF LookupConfig
    <2>2. CASE GetConfig(key) # NoConfig
      BY <1>3, <2>2, OneIsNotEmpty DEF LookupConfig, PcInv, Evaluating
    <2> QED
      BY <2>1, <2>2
  <1>4. CASE SelectRows
    <2>1. stack' # <<>>
      BY <1>4, SelectRowsMoves, MovedIsNotEmpty
    <2> QED
      BY <1>4, <2>1
      DEF SelectRows, SafeInv, CallInv, PcInv, Evaluating, NeedsDecryption, Original
  <1>5. CASE EvaluatePropertyCriterion
    <2>1. stack' # <<>>
      BY <1>5, PropertyMoves, MovedIsNotEmpty
    <2> QED
      BY <1>5, <2>1
      DEF EvaluatePropertyCriterion, AtCriterion, SafeInv, CallInv, PcInv, Evaluating,
          NeedsDecryption, Original
  <1>6. CASE EnterSegment
    <2>1. stack' # <<>>
      BY <1>6, EnterSegmentNests, MovedIsNotEmpty, NestedIsNotEmpty
    <2> QED
      BY <1>6, <2>1
      DEF EnterSegment, AtCriterion, SafeInv, CallInv, PcInv, Evaluating, NeedsDecryption,
          Original
  <1>7. CASE RuleMatches
    BY <1>7, EvaluateReturnsStays DEF RuleMatches
  <1>8. CASE NoRuleMatches
    BY <1>8, EvaluateReturnsStays DEF NoRuleMatches
  <1>9. CASE ResolvePlain
    BY <1>9, ReturnStays DEF ResolvePlain
  <1>10. CASE ResolveWeightedValue
    BY <1>10, ReturnStays DEF ResolveWeightedValue
  <1>11. CASE ResolveProvided
    BY <1>11, ReturnStays DEF ResolveProvided
  <1>12. CASE LookupSecret
    <2>1. CASE GetConfig(Original.decryptWith) = NoConfig
      BY <1>12, <2>1, ReturnStays DEF LookupSecret
    <2>2. CASE GetConfig(Original.decryptWith) # NoConfig
      BY <1>12, <2>2, OneIsNotEmpty
      DEF LookupSecret, PcInv, Evaluating, NeedsDecryption, Original
    <2> QED
      BY <2>1, <2>2
  <1>13. CASE Decrypt
    <2>1. \E error, match, variant : Return(error, match, variant)
      BY <1>13 DEF Decrypt
    <2> QED
      BY <2>1, ReturnStays
  <1>14. CASE UNCHANGED vars
    BY <1>14 DEF vars, SafeInv, CallInv, PcInv, Evaluating, NeedsDecryption, Original
  <1> QED
    BY <1>1, <1>2, <1>3, <1>4, <1>5, <1>6, <1>7, <1>8, <1>9, <1>10, <1>11, <1>12, <1>13,
       <1>14
    DEF Next, ResolveValue, EvaluateConfig, ResolveValueForConfig

LEMMA CallVariablesStay ==
    ASSUME SafeInv, [Next]_vars
    PROVE  api' \in ApiContents /\ updates' \in Nat /\ key' \in Key
  <1> USE DEF SafeInv, CallInv
  <1>1. CASE UpdateApiStore
    BY <1>1 DEF UpdateApiStore
  <1>2. CASE Call
    BY <1>2 DEF Call
  <1>3. CASE UNCHANGED <<api, updates, key>>
    BY <1>3
  <1>4. CASE ResolveValue
    BY <1>3, <1>4
    DEF ResolveValue, LookupConfig, EvaluateConfig, SelectRows, EvaluatePropertyCriterion,
        EnterSegment, RuleMatches, NoRuleMatches, EvaluateConfigReturns,
        ResolveValueForConfig, ResolvePlain, ResolveWeightedValue, ResolveProvided,
        LookupSecret, Decrypt, Return
  <1> QED
    BY <1>1, <1>2, <1>3, <1>4 DEF Next, vars

LEMMA MatchIsStored ==
    ASSUME SafeInv, RuleMatches
    PROVE  StoredValue(Match(Rule).value)
  BY TopOfStack, MatchedValue DEF RuleMatches, Match, Rule

LEMMA OriginalStays ==
    ASSUME SafeInv, [Next]_vars
    PROVE  OriginalInv'
  <1>1. CASE UNCHANGED original
    BY <1>1 DEF SafeInv, OriginalInv, Original, StoredValue
  <1>2. CASE Call
    BY <1>2 DEF Call, OriginalInv
  <1>3. CASE RuleMatches
    <2>1. original' = original \/ original' = Match(Rule)
      BY <1>3 DEF RuleMatches, EvaluateConfigReturns
    <2> QED
      BY <1>1, <1>3, <2>1, MatchIsStored DEF OriginalInv, Original, StoredValue
  <1>4. CASE NoRuleMatches
    <2>1. original' = original \/ original' = NoRule
      BY <1>4 DEF NoRuleMatches, EvaluateConfigReturns
    <2> QED
      BY <1>1, <2>1 DEF OriginalInv
  <1>5. CASE ResolveValue /\ ~RuleMatches /\ ~NoRuleMatches
    <2>1. UNCHANGED original
      BY <1>5
      DEF ResolveValue, LookupConfig, EvaluateConfig, SelectRows, EvaluatePropertyCriterion,
          EnterSegment, ResolveValueForConfig, ResolvePlain, ResolveWeightedValue,
          ResolveProvided, LookupSecret, Decrypt, Return
    <2> QED
      BY <1>1, <2>1
  <1> QED
    BY <1>1, <1>2, <1>3, <1>4, <1>5 DEF Next, vars, UpdateApiStore

\* Every call evaluates configs that the stores have or had, and looks a secret key
\* up for an encrypted value only.
LEMMA SafeInvariant == Spec => []SafeInv
  <1>1. Init => SafeInv
    <2> SUFFICES ASSUME Init PROVE SafeInv
      OBVIOUS
    <2>1. stack \in Seq({})
      BY DEF Init
    <2>2. CallInv
      BY <2>1 DEF Init, CallInv, Evaluating
    <2>3. FrameInv
      BY DEF Init, FrameInv
    <2>4. OriginalInv
      BY DEF Init, OriginalInv
    <2> QED
      BY <2>2, <2>3, <2>4 DEF SafeInv
  <1>2. SafeInv /\ [Next]_vars => SafeInv'
    <2> SUFFICES ASSUME SafeInv, [Next]_vars PROVE SafeInv'
      OBVIOUS
    <2>1. CallInv'
      BY PcStays, CallVariablesStay, StackSteps, StackStaysList DEF CallInv, PcInv
    <2> QED
      BY <2>1, StackSteps, FramesStay, OriginalStays DEF SafeInv
  <1> QED
    BY <1>1, <1>2, PTL DEF Spec

-----------------------------------------------------------------------------
\* What a call returns

LEMMA HowCallsReturn ==
    ASSUME SafeInv, [Next]_vars, pc' = "idle"
    PROVE  /\ UNCHANGED original
           /\ \/ UNCHANGED <<pc, answer>>
              \/ answer'.error # "none"
              \/ ResolvePlain \/ ResolveWeightedValue \/ ResolveProvided \/ Decrypt
  <1>1. CASE UpdateApiStore
    BY <1>1 DEF UpdateApiStore
  <1>2. CASE Call
    BY <1>2 DEF Call
  <1>3. CASE LookupConfig
    <2>1. CASE GetConfig(key) = NoConfig
      <3>1. Return("config does not exist", NoValue, 0)
        BY <1>3, <2>1 DEF LookupConfig
      <3> QED
        BY <3>1 DEF Return
    <2>2. CASE GetConfig(key) # NoConfig
      BY <1>3, <2>2 DEF LookupConfig
    <2> QED
      BY <2>1, <2>2
  <1>4. CASE SelectRows
    BY <1>4 DEF SelectRows
  <1>5. CASE EvaluatePropertyCriterion
    BY <1>5 DEF EvaluatePropertyCriterion
  <1>6. CASE EnterSegment
    BY <1>6 DEF EnterSegment
  <1>7. CASE RuleMatches
    BY <1>7 DEF RuleMatches, EvaluateConfigReturns, Evaluating
  <1>8. CASE NoRuleMatches
    BY <1>8 DEF NoRuleMatches, EvaluateConfigReturns, Evaluating
  <1>9. CASE ResolvePlain
    BY <1>9 DEF ResolvePlain, Return
  <1>10. CASE ResolveWeightedValue
    BY <1>10 DEF ResolveWeightedValue, Return
  <1>11. CASE ResolveProvided
    BY <1>11 DEF ResolveProvided, Return
  <1>12. CASE LookupSecret
    <2>1. CASE GetConfig(Original.decryptWith) = NoConfig
      <3>1. Return("no config value exists", Original, 0)
        BY <1>12, <2>1 DEF LookupSecret
      <3> QED
        BY <3>1 DEF Return
    <2>2. CASE GetConfig(Original.decryptWith) # NoConfig
      BY <1>12, <2>2 DEF LookupSecret
    <2> QED
      BY <2>1, <2>2
  <1>13. CASE Decrypt
    BY <1>13 DEF Decrypt, Return
  <1>14. CASE UNCHANGED vars
    BY <1>14 DEF vars
  <1> QED
    BY <1>1, <1>2, <1>3, <1>4, <1>5, <1>6, <1>7, <1>8, <1>9, <1>10, <1>11, <1>12, <1>13,
       <1>14
    DEF Next, ResolveValue, EvaluateConfig, ResolveValueForConfig

LEMMA CoercedType ==
    ASSUME NEW text, NEW type, coerceValue(text, type) # NoValue
    PROVE  coerceValue(text, type).kind = IF type = "NOT_SET" THEN "string" ELSE type
  <1>1. CASE type \in {"string", "NOT_SET"}
    BY <1>1 DEF coerceValue, Plain
  <1>2. CASE type \notin {"string", "NOT_SET", "int", "double", "bool"}
    BY <1>2 DEF coerceValue
  <1>3. CASE type = "int"
    BY <1>3 DEF coerceValue, Plain
  <1>4. CASE type = "double"
    BY <1>4 DEF coerceValue, Plain
  <1>5. CASE type = "bool"
    BY <1>5 DEF coerceValue, Plain
  <1> QED
    BY <1>1, <1>2, <1>3, <1>4, <1>5

LEMMA CoercedIsVariant ==
    ASSUME NEW text, NEW type
    PROVE  IsVariant(coerceValue(text, type))
  <1>1. CASE type \in {"string", "NOT_SET"}
    BY <1>1 DEF coerceValue, Plain, IsVariant
  <1>2. CASE type \notin {"string", "NOT_SET", "int", "double", "bool"}
    BY <1>2 DEF coerceValue, Plain, IsVariant, NoValue
  <1>3. CASE type = "int"
    BY <1>3 DEF coerceValue, Plain, IsVariant, NoValue
  <1>4. CASE type = "double"
    BY <1>4 DEF coerceValue, Plain, IsVariant, NoValue
  <1>5. CASE type = "bool"
    BY <1>5 DEF coerceValue, Plain, IsVariant, NoValue
  <1> QED
    BY <1>1, <1>2, <1>3, <1>4, <1>5

\* Marking a value as confidential leaves the rest of it.
LEMMA MarkedValue ==
    ASSUME NEW value, IsVariant(value)
    PROVE  /\ Confidentially(value).kind = value.kind
           /\ Original.confidential /\ Original.decryptWith = NoKey
                => Confidentially(value).confidential
  <1>1. PICK k, i, c, d :
              value = [kind |-> k, is |-> i, confidential |-> c, decryptWith |-> d]
    BY Zenon DEF IsVariant
  <1>2. /\ [value EXCEPT !.confidential = TRUE].kind = k
        /\ [value EXCEPT !.confidential = TRUE].confidential
    BY <1>1
  <1> QED
    BY <1>1, <1>2 DEF Confidentially

LEMMA ProvidedReturns ==
    ASSUME ResolveProvided, answer'.error = "none"
    PROVE  /\ coerceValue(LookupEnv(Original.is), original.type) # NoValue
           /\ answer'.match
                = Confidentially(coerceValue(LookupEnv(Original.is), original.type))
  <1> DEFINE text  == LookupEnv(Original.is)
             value == coerceValue(text, original.type)
  <1>1. CASE text = NoText
    <2>1. Return("environment variable does not exist", Original, 0)
      BY <1>1 DEF ResolveProvided
    <2> QED
      BY <2>1 DEF Return
  <1>2. CASE text # NoText /\ value = NoValue
    <2>1. Return("type coercion failed", Original, 0)
      BY <1>2 DEF ResolveProvided
    <2> QED
      BY <2>1 DEF Return
  <1>3. CASE text # NoText /\ value # NoValue
    <2>1. Return("none", Confidentially(value), 0)
      BY <1>3 DEF ResolveProvided
    <2> QED
      BY <1>3, <2>1 DEF Return
  <1> QED
    BY <1>1, <1>2, <1>3

LEMMA ProvidedTypeStays ==
    ASSUME SafeInv, ProvidedValueHasItsType, [Next]_vars
    PROVE  ProvidedValueHasItsType'
  <1> SUFFICES ASSUME pc' = "idle", answer'.error = "none", (Original.kind = "provided")'
               PROVE  answer'.match.kind
                        = IF original'.type = "NOT_SET" THEN "string" ELSE original'.type
    BY DEF ProvidedValueHasItsType
  <1>1. UNCHANGED original /\ Original.kind = "provided"
    BY HowCallsReturn DEF Original
  <1>2. CASE UNCHANGED <<pc, answer>>
    BY <1>1, <1>2 DEF ProvidedValueHasItsType
  <1>3. CASE ResolvePlain
    BY <1>1, <1>3 DEF ResolvePlain
  <1>4. CASE ResolveWeightedValue
    BY <1>1, <1>4 DEF ResolveWeightedValue
  <1>5. CASE ResolveProvided
    <2> DEFINE value == coerceValue(LookupEnv(Original.is), original.type)
    <2>1. value # NoValue /\ answer'.match = Confidentially(value)
      BY <1>5, ProvidedReturns
    <2>2. answer'.match.kind = value.kind
      BY <2>1, CoercedIsVariant, MarkedValue
    <2> QED
      BY <1>1, <2>1, <2>2, CoercedType
  <1>6. CASE Decrypt
    BY <1>1, <1>6 DEF Decrypt, SafeInv, CallInv, NeedsDecryption
  <1> QED
    BY <1>2, <1>3, <1>4, <1>5, <1>6, HowCallsReturn

\* A value from the environment has the type of its config, or there is an error, for
\* all environments and all configs (config_resolver.go:97-111, 145).
THEOREM ProvidedValuesAreTyped == Spec => []ProvidedValueHasItsType
  <1>1. Init => ProvidedValueHasItsType
    BY DEF Init, ProvidedValueHasItsType, Original, NoRule, NoValue, Plain
  <1>2. SafeInv /\ ProvidedValueHasItsType /\ [Next]_vars => ProvidedValueHasItsType'
    BY ProvidedTypeStays
  <1> QED
    BY <1>1, <1>2, SafeInvariant, PTL DEF Spec

-----------------------------------------------------------------------------
\* Confidential values

LEMMA ChosenVariant ==
    ASSUME NEW weights, IsList(weights), weights # <<>>, NEW bucket
    PROVE  Resolve(weights, bucket) \in DOMAIN weights
  <1> DEFINE Reaching == { i \in DOMAIN weights : Reached(weights, bucket, i) }
  <1>1. Reaching \in SUBSET Nat
    BY DEF IsList
  <1>2. CASE Reaching # {}
    <2>1. Min(Reaching) \in Reaching
      BY <1>1, <1>2, MinIsLeast
    <2> QED
      BY <1>2, <2>1 DEF Resolve
  <1>3. CASE Reaching = {}
    <2>1. Len(weights) > 0
      BY EmptyList
    <2>2. 1 \in DOMAIN weights
      BY <2>1 DEF IsList
    <2> QED
      BY <1>3, <2>2 DEF Resolve
  <1> QED
    BY <1>2, <1>3

LEMMA StoredVariants ==
    ASSUME NEW value, StoredValue(value)
    PROVE  /\ value.kind = "weighted" =>
                /\ IsList(value.is.weights) /\ value.is.weights # <<>>
                /\ \A i \in DOMAIN value.is.weights : IsVariant(value.is.values[i])
           /\ OnlyTextsAreEncrypted /\ value.kind # "string" => value.decryptWith = NoKey
  <1>1. PICK s \in StoreContents, k \in Key :
              /\ s.configs[k] # NoConfig
              /\ \E r \in DOMAIN s.configs[k].rows :
                     \E i \in DOMAIN s.configs[k].rows[r].values :
                         value = s.configs[k].rows[r].values[i].value
    BY DEF StoredValue
  <1>2. PICK r \in DOMAIN s.configs[k].rows : \E i \in DOMAIN s.configs[k].rows[r].values :
              value = s.configs[k].rows[r].values[i].value
    BY <1>1
  <1>3. PICK i \in DOMAIN s.configs[k].rows[r].values :
              s.configs[k].rows[r].values[i].value = value
    BY <1>2
  <1>4. IsRule(s.configs[k].rows[r].values[i])
    BY <1>1, StoresAssumption DEF IsConfig
  <1>5. OnlyTextsAreEncrypted /\ value.kind # "string" => value.decryptWith = NoKey
    BY <1>1, <1>3 DEF OnlyTextsAreEncrypted
  <1> QED
    BY <1>3, <1>4, <1>5 DEF IsRule

LEMMA DecryptReturns ==
    ASSUME Decrypt, answer'.error = "none"
    PROVE  \E text : answer'.match = [Plain("string", text) EXCEPT !.confidential = TRUE]
  <1>1. ASSUME NEW error, NEW match, Return(error, match, 0)
        PROVE  error = "none" /\ answer'.match = match
    BY <1>1 DEF Return
  <1> DEFINE text == DecryptValue(SecretKey, Original.is)
  <1>2. CASE secret = NoRule
    <2>1. Return("no match in config value", Original, 0)
      BY <1>2 DEF Decrypt
    <2> QED
      BY <1>1, <2>1
  <1>3. CASE secret # NoRule /\ SecretKey = NoText
    <2>1. \/ Return("secret key lookup failed", Original, 0)
          \/ Return("secret key is not a string", Original, 0)
      BY <1>3 DEF Decrypt
    <2> QED
      BY <1>1, <2>1
  <1>4. CASE secret # NoRule /\ SecretKey # NoText
    <2>1. \/ Return("decryption failed", Original, 0)
          \/ Return("panic", Original, 0)
          \/ Return("none", [Plain("string", text) EXCEPT !.confidential = TRUE], 0)
      BY <1>4 DEF Decrypt
    <2> QED
      BY <1>1, <2>1
  <1> QED
    BY <1>2, <1>3, <1>4

LEMMA ConfidentialityStays ==
    ASSUME OnlyTextsAreEncrypted,
           SafeInv, ConfidentialStaysConfidential, [Next]_vars
    PROVE  ConfidentialStaysConfidential'
  <1> SUFFICES ASSUME pc' = "idle", answer'.error = "none", original' # NoRule
               PROVE  /\ (Original.confidential)' => answer'.match.confidential
                      /\ NeedsDecryption' => /\ answer'.match.confidential
                                             /\ answer'.match # Original'
    BY DEF ConfidentialStaysConfidential
  <1>1. UNCHANGED original
    BY HowCallsReturn
  <1>2. Original' = Original /\ (NeedsDecryption' <=> NeedsDecryption)
    BY <1>1 DEF Original, NeedsDecryption
  <1>3. StoredValue(Original)
    BY <1>1 DEF SafeInv, OriginalInv
  <1>4. CASE UNCHANGED <<pc, answer>>
    BY <1>1, <1>2, <1>4 DEF ConfidentialStaysConfidential
  <1>5. CASE ResolvePlain
    BY <1>2, <1>5 DEF ResolvePlain, Return
  <1>6. CASE ResolveWeightedValue
    <2>1. PICK fraction : answer'.match = Confidentially(
                              Original.is.values[Resolve(Original.is.weights, fraction)])
      BY <1>6 DEF ResolveWeightedValue, Return
    <2> DEFINE variant == Original.is.values[Resolve(Original.is.weights, fraction)]
    <2>2. Original.kind = "weighted"
      BY <1>6 DEF ResolveWeightedValue
    <2>3. IsVariant(variant) /\ Original.decryptWith = NoKey
      BY <1>3, <2>2, StoredVariants, ChosenVariant
    <2>4. Original.confidential => answer'.match.confidential
      BY <2>1, <2>3, MarkedValue
    <2> QED
      BY <1>2, <2>2, <2>4 DEF NeedsDecryption
  <1>7. CASE ResolveProvided
    <2> DEFINE value == coerceValue(LookupEnv(Original.is), original.type)
    <2>1. answer'.match = Confidentially(value)
      BY <1>7, ProvidedReturns
    <2>2. Original.kind = "provided"
      BY <1>7 DEF ResolveProvided
    <2>3. IsVariant(value) /\ Original.decryptWith = NoKey
      BY <1>3, <2>2, StoredVariants, CoercedIsVariant
    <2>4. Original.confidential => answer'.match.confidential
      BY <2>1, <2>3, MarkedValue
    <2> QED
      BY <1>2, <2>2, <2>4 DEF NeedsDecryption
  <1>8. CASE Decrypt
    <2>1. PICK text : answer'.match = [Plain("string", text) EXCEPT !.confidential = TRUE]
      BY <1>8, DecryptReturns
    <2>2. answer'.match.confidential /\ answer'.match.decryptWith = NoKey
      BY <2>1 DEF Plain
    <2>3. Original.decryptWith # NoKey
      BY <1>8 DEF Decrypt, SafeInv, CallInv, NeedsDecryption
    <2> QED
      BY <1>2, <2>2, <2>3
  <1> QED
    BY <1>4, <1>5, <1>6, <1>7, <1>8, HowCallsReturn

\* Whatever is confidential or encrypted comes out of a call marked, and decrypted, or
\* not at all, if only texts are encrypted: a weighted or provided value that names a
\* key would come out unmarked (config_resolver.go:112-128).
THEOREM NothingConfidentialUnmarked ==
    ASSUME OnlyTextsAreEncrypted
    PROVE  Spec => []ConfidentialStaysConfidential
  <1>1. Init => ConfidentialStaysConfidential
    BY DEF Init, ConfidentialStaysConfidential
  <1>2. SafeInv /\ ConfidentialStaysConfidential /\ [Next]_vars
          => ConfidentialStaysConfidential'
    BY ConfidentialityStays
  <1> QED
    BY <1>1, <1>2, SafeInvariant, PTL DEF Spec

-----------------------------------------------------------------------------
\* The depth of the stack

LEMMA WaitStays ==
    ASSUME SafeInv, WaitInv, StackStep
    PROVE  WaitInv'
  <1>0. Len(stack) \in Nat
    BY DEF SafeInv, CallInv
  <1> SUFFICES ASSUME NEW i \in 1 .. Len(stack') - 1
               PROVE  Waits(stack'[i])
    BY DEF WaitInv
  <1>1. CASE stack' = stack
    BY <1>1 DEF WaitInv
  <1>2. CASE stack' = <<>>
    BY <1>2
  <1>3. CASE Begun
    <2>1. Len(stack') = 1
      BY <1>3, BegunStack
    <2> QED
      BY <2>1
  <1>4. CASE Moved
    <2>1. PICK n \in 1 .. Len(stack) :
              Len(stack') = n /\ \A j \in 1 .. n - 1 : stack'[j] = stack[j]
      BY <1>4, MovedStack
    <2>2. i \in 1 .. Len(stack) - 1 /\ stack'[i] = stack[i]
      BY <1>0, <2>1
    <2> QED
      BY <2>2 DEF WaitInv
  <1>5. CASE Nested
    <2>1. /\ Len(stack') = Len(stack) + 1
          /\ \A j \in 1 .. Len(stack) : stack'[j] = stack[j]
      BY <1>5, NestedStack
    <2>2. Waits(stack[Len(stack)])
      BY <1>5 DEF Nested
    <2>3. i \in 1 .. Len(stack) /\ stack'[i] = stack[i]
      BY <1>0, <2>1
    <2>4. CASE i = Len(stack)
      BY <2>2, <2>3, <2>4
    <2>5. CASE i # Len(stack)
      <3>1. i \in 1 .. Len(stack) - 1
        BY <1>0, <2>3, <2>5
      <3> QED
        BY <2>3, <3>1 DEF WaitInv
    <2> QED
      BY <2>4, <2>5
  <1> QED
    BY <1>1, <1>2, <1>3, <1>4, <1>5 DEF StackStep

LEMMA Changes ==
    ASSUME SafeInv, [Next]_vars
    PROVE  \/ stack' = <<>>
           \/ UNCHANGED <<api, updates>>
           \/ UNCHANGED stack /\ updates' = updates + 1
  <1>1. CASE UpdateApiStore
    BY <1>1 DEF UpdateApiStore
  <1>2. CASE Call
    BY <1>2 DEF Call, SafeInv, CallInv, Evaluating
  <1>3. CASE UNCHANGED vars
    BY <1>3 DEF vars
  <1>4. CASE ResolveValue
    BY <1>4
    DEF ResolveValue, LookupConfig, EvaluateConfig, SelectRows, EvaluatePropertyCriterion,
        EnterSegment, RuleMatches, NoRuleMatches, EvaluateConfigReturns,
        ResolveValueForConfig, ResolvePlain, ResolveWeightedValue, ResolveProvided,
        LookupSecret, Decrypt, Return
  <1> QED
    BY <1>1, <1>2, <1>3, <1>4 DEF Next

LEMMA Products ==
    ASSUME NEW n \in Nat, NEW u \in Nat, NEW w \in Nat
    PROVE  /\ (w + 1) * n = w * n + n
           /\ u < w => (u + 1) * n <= w * n
           /\ w * n \in Nat
  <1>1. (w + 1) * n = w * n + n /\ w * n \in Nat
    OBVIOUS
  <1>2. ASSUME u < w PROVE (u + 1) * n <= w * n
    <2>1. w - (u + 1) \in Nat
      BY <1>2
    <2>2. (w - (u + 1)) * n >= 0
      BY <2>1
    <2>3. w * n = (u + 1) * n + (w - (u + 1)) * n
      OBVIOUS
    <2>4. w * n \in Nat /\ (u + 1) * n \in Nat /\ (w - (u + 1)) * n \in Int
      BY <2>1
    <2> QED
      BY <2>2, <2>3, <2>4
  <1> QED
    BY <1>1, <1>2

\* A segment of a config at some depth is one deeper, whatever version it is read in.
LEMMA SegmentIsDeeper ==
    ASSUME NoCircles, NEW w \in Nat, NEW now \in ApiContents,
           NEW u \in 0 .. w, NEW contents \in ApiContents, NEW k \in Key,
           u = w => contents = now,
           NEW config, NEW depth \in Nat, AtDepth(config, depth, u, contents, k),
           NEW s \in Segments(config), FirstConfig(StoresWith(now), s) # NoConfig
    PROVE  AtDepth(FirstConfig(StoresWith(now), s), depth + 1, w, now, s)
  <1> DEFINE n == Cardinality(Key)
  <1>1. s \in SegmentsOf(contents, k) /\ s \in Key
    BY DEF AtDepth, SegmentsOf, Segments
  <1>2. /\ n \in Nat
        /\ Height(now, s) \in 0 .. n - 1
        /\ Height(contents, k) \in 0 .. n - 1 /\ Height(contents, s) \in 0 .. n - 1
    BY <1>1, HeightsAreSmall
  <1>3. depth <= (u + 1) * n - Height(contents, k)
    BY DEF AtDepth
  <1> HIDE DEF n
  <1>4. depth + 1 <= (w + 1) * n - Height(now, s)
    <2>1. CASE u = w
      <3>1. Height(now, s) < Height(contents, k)
        BY <1>1, <2>1, HeightDecreases
      <3> QED
        BY <1>2, <1>3, <2>1, <3>1, Products
    <2>2. CASE u < w
      <3>1. (u + 1) * n <= w * n /\ (w + 1) * n = w * n + n /\ w * n \in Nat
        BY <1>2, <2>2, Products
      <3>2. (u + 1) * n \in Nat
        BY <1>2, Products
      <3> QED
        BY <1>2, <1>3, <3>1, <3>2
    <2> QED
      BY <2>1, <2>2
  <1> QED
    BY <1>4 DEF AtDepth, n

LEMMA FirstDepth ==
    ASSUME NoCircles, NEW w \in Nat, NEW now \in ApiContents, NEW k \in Key,
           FirstConfig(StoresWith(now), k) # NoConfig
    PROVE  AtDepth(FirstConfig(StoresWith(now), k), 1, w, now, k)
  <1> DEFINE n == Cardinality(Key)
  <1>1. n \in Nat /\ Height(now, k) \in 0 .. n - 1
    BY HeightsAreSmall
  <1> HIDE DEF n
  <1>2. 1 <= (w + 1) * n - Height(now, k)
    <2>1. (w + 1) * n = w * n + n /\ w * n \in Nat
      BY <1>1, Products
    <2> QED
      BY <1>1, <2>1
  <1> QED
    BY <1>2 DEF AtDepth, n

LEMMA NestStays ==
    ASSUME NoCircles, SafeInv, NestInv, [Next]_vars
    PROVE  NestInv'
  <1>0. /\ StackStep
        /\ Len(stack) \in Nat /\ DOMAIN stack = 1 .. Len(stack)
        /\ updates \in Nat /\ api \in ApiContents /\ api' \in ApiContents
    BY StackSteps, CallVariablesStay DEF SafeInv, CallInv
  <1> SUFFICES ASSUME NEW i \in DOMAIN stack'
               PROVE  \E u \in 0 .. updates', contents \in ApiContents, k \in Key :
                         /\ u = updates' => contents = api'
                         /\ AtDepth(stack'[i].config, i, u, contents, k)
    BY DEF NestInv
  <1>1. CASE stack' = <<>>
    BY <1>1
  <1>2. CASE UNCHANGED stack /\ updates' = updates + 1
    <2>1. PICK u \in 0 .. updates, contents \in ApiContents, k \in Key :
              AtDepth(stack[i].config, i, u, contents, k)
      BY <1>2 DEF NestInv
    <2>2. u \in 0 .. updates' /\ u # updates'
      BY <1>0, <1>2
    <2> QED
      BY <1>2, <2>1, <2>2
  <1>3. CASE stack' = stack /\ UNCHANGED <<api, updates>>
    BY <1>3 DEF NestInv
  <1>4. CASE Begun /\ UNCHANGED <<api, updates>>
    <2>1. PICK k \in Key :
              /\ GetConfig(k) # NoConfig /\ DOMAIN stack' = 1 .. 1
              /\ stack'[1] = Evaluation(GetConfig(k))
      BY <1>4, BegunStack
    <2>2. AtDepth(GetConfig(k), 1, updates, api, k)
      BY <1>0, <2>1, FirstDepth DEF GetConfig, Contents
    <2>3. i = 1 /\ stack'[i].config = GetConfig(k)
      BY <2>1, FreshEvaluation
    <2> QED
      BY <1>0, <1>4, <2>2, <2>3
  <1>5. CASE Moved /\ UNCHANGED <<api, updates>>
    <2>1. PICK n \in 1 .. Len(stack) : \E frame :
              /\ frame.config = stack[n].config
              /\ DOMAIN stack' = 1 .. n
              /\ \A j \in 1 .. n - 1 : stack'[j] = stack[j]
              /\ stack'[n] = frame
      BY <1>5, MovedStack
    <2>2. i \in DOMAIN stack /\ stack'[i].config = stack[i].config
      <3>1. CASE i = n
        BY <1>0, <2>1, <3>1
      <3>2. CASE i # n
        BY <1>0, <2>1, <3>2
      <3> QED
        BY <3>1, <3>2
    <2> QED
      BY <1>5, <2>2 DEF NestInv
  <1>6. CASE Nested /\ UNCHANGED <<api, updates>>
    <2> DEFINE top == stack[Len(stack)]
    <2>1. PICK s \in Segments(top.config) :
              /\ GetConfig(s) # NoConfig
              /\ DOMAIN stack' = 1 .. Len(stack) + 1
              /\ \A j \in 1 .. Len(stack) : stack'[j] = stack[j]
              /\ stack'[Len(stack) + 1] = Evaluation(GetConfig(s))
      BY <1>6, NestedStack
    <2>2. CASE i \in DOMAIN stack
      <3>1. stack'[i] = stack[i]
        BY <1>0, <2>1, <2>2
      <3> QED
        BY <1>6, <2>2, <3>1 DEF NestInv
    <2>3. CASE i = Len(stack) + 1
      <3>1. Len(stack) \in DOMAIN stack
        <4>1. stack # <<>>
          BY <1>6 DEF Nested
        <4>2. PICK Elements : stack \in Seq(Elements)
          BY DEF SafeInv, CallInv
        <4> QED
          BY <4>1, <4>2
      <3>2. PICK u \in 0 .. updates, contents \in ApiContents, k \in Key :
                /\ u = updates => contents = api
                /\ AtDepth(top.config, Len(stack), u, contents, k)
        BY <3>1 DEF NestInv
      <3> HIDE DEF top
      <3>3. s \in Key
        BY DEF Segments
      <3>4. AtDepth(GetConfig(s), Len(stack) + 1, updates, api, s)
        BY <1>0, <2>1, <3>2, SegmentIsDeeper DEF GetConfig, Contents
      <3>5. stack'[i].config = GetConfig(s)
        BY <2>1, <2>3, FreshEvaluation
      <3> QED
        BY <1>0, <1>6, <2>3, <3>3, <3>4, <3>5
    <2> QED
      BY <1>0, <2>1, <2>2, <2>3
  <1>7. \/ stack' = <<>>
        \/ UNCHANGED stack /\ updates' = updates + 1
        \/ UNCHANGED <<api, updates>> /\ (stack' = stack \/ Begun \/ Moved \/ Nested)
    BY <1>0, Changes DEF StackStep
  <1> QED
    BY <1>1, <1>2, <1>3, <1>4, <1>5, <1>6, <1>7

LEMMA DepthIsBounded ==
    ASSUME NoCircles, SafeInv, WaitInv, NestInv
    PROVE  SegmentsNestFinitely
  <1>1. Len(stack) \in Nat /\ DOMAIN stack = 1 .. Len(stack) /\ updates \in Nat
    BY DEF SafeInv, CallInv
  <1>2. Len(stack) <= Cardinality(Key) * (updates + 1)
    <2> DEFINE n == Cardinality(Key)
    <2>1. CASE Len(stack) = 0
      <3>1. n \in Nat
        BY StoresAssumption, FS_CardinalityType
      <3> HIDE DEF n
      <3>2. n * (updates + 1) \in Nat
        BY <1>1, <3>1
      <3> QED
        BY <2>1, <3>2 DEF n
    <2>2. CASE Len(stack) # 0
      <3>1. Len(stack) \in DOMAIN stack
        BY <1>1, <2>2
      <3>2. PICK u \in 0 .. updates, contents \in ApiContents, k \in Key :
                AtDepth(stack[Len(stack)].config, Len(stack), u, contents, k)
        BY <3>1 DEF NestInv
      <3>3. n \in Nat /\ Height(contents, k) \in Nat
        BY HeightsAreSmall
      <3>4. Len(stack) <= (u + 1) * n - Height(contents, k)
        BY <3>2 DEF AtDepth
      <3> HIDE DEF n
      <3>5. (u + 1) * n <= (updates + 1) * n
        BY <1>1, <3>3, Products
      <3>6. (u + 1) * n \in Nat /\ n * (updates + 1) = (updates + 1) * n
            /\ (updates + 1) * n \in Nat
        BY <1>1, <3>3, Products
      <3>7. Len(stack) <= n * (updates + 1)
        BY <1>1, <3>3, <3>4, <3>5, <3>6
      <3> QED
        BY <3>7 DEF n
    <2> QED
      BY <2>1, <2>2
  <1> QED
    BY <1>2 DEF SegmentsNestFinitely, WaitInv, Waits

\* Segments nest as deep at most as there are keys, for each version of the API store
\* that the call has seen, and each evaluation that waits does so at a criterion on a
\* segment, if no version has segments in a circle (config_rule_evaluator.go:234-252).
THEOREM NestingIsBounded ==
    ASSUME NoCircles
    PROVE  Spec => []SegmentsNestFinitely
  <1>1. Init => WaitInv /\ NestInv
    <2> SUFFICES ASSUME Init PROVE WaitInv /\ NestInv
      OBVIOUS
    <2>1. stack = <<>> /\ Len(stack) = 0
      BY DEF Init
    <2> QED
      BY <2>1 DEF WaitInv, NestInv
  <1>2. SafeInv /\ WaitInv /\ NestInv /\ [Next]_vars => WaitInv' /\ NestInv'
    BY StackSteps, WaitStays, NestStays
  <1>3. SafeInv /\ WaitInv /\ NestInv => SegmentsNestFinitely
    BY DepthIsBounded
  <1> QED
    BY <1>1, <1>2, <1>3, SafeInvariant, PTL DEF Spec

-----------------------------------------------------------------------------
\* The shares of weighted values

\* Induction: a set that has 0 and with each number the next, up to n.
LEMMA CountingUp ==
    ASSUME NEW n \in Nat, NEW Good, 0 \in Good,
           \A i \in 1 .. n : i - 1 \in Good => i \in Good
    PROVE  0 .. n \subseteq Good
  <1> DEFINE Bad == (0 .. n) \ Good
  <1> SUFFICES ASSUME Bad # {}
               PROVE  FALSE
    OBVIOUS
  <1>1. PICK m : m = Min(Bad)
    OBVIOUS
  <1>2. m \in Bad /\ \A i \in Bad : m <= i
    <2>1. Bad \in SUBSET Nat
      OBVIOUS
    <2> HIDE DEF Bad
    <2> QED
      BY <1>1, <2>1, MinIsLeast
  <1>3. m \in 1 .. n /\ m - 1 \in 0 .. n /\ m - 1 < m
    BY <1>2
  <1>4. m - 1 \in Good
    BY <1>2, <1>3
  <1> QED
    BY <1>2, <1>3, <1>4

IsSum(sum, weights, n) ==
    sum = [i \in 0 .. n |-> IF i = 0 THEN 0 ELSE sum[i - 1] + weights[i]]

\* The running sums exist, and are what they say.
LEMMA SumsExist ==
    ASSUME NEW weights, NEW n \in Nat
    PROVE  \E sum : IsSum(sum, weights, n)
  <1> DEFINE Good == { m \in 0 .. n : \E sum : IsSum(sum, weights, m) }
  <1>1. 0 \in Good
    <2>1. PICK sum : sum = [i \in 0 .. 0 |-> 0]
      OBVIOUS
    <2>2. IsSum(sum, weights, 0)
      BY <2>1 DEF IsSum
    <2> QED
      BY <2>2
  <1>2. ASSUME NEW m \in 1 .. n, m - 1 \in Good
        PROVE  m \in Good
    <2>1. PICK sum : IsSum(sum, weights, m - 1)
      BY <1>2
    <2>2. PICK other : other = [i \in 0 .. m |-> IF i = m THEN sum[m - 1] + weights[m] ELSE sum[i]]
      OBVIOUS
    <2>3. ASSUME NEW i \in 0 .. m
          PROVE  other[i] = IF i = 0 THEN 0 ELSE other[i - 1] + weights[i]
      <3>1. CASE i = m
        <4>1. other[m] = sum[m - 1] + weights[m]
          BY <2>2
        <4>2. other[m - 1] = sum[m - 1]
          BY <2>2
        <4> QED
          BY <3>1, <4>1, <4>2
      <3>2. CASE i # m
        <4>1. i \in 0 .. m - 1 /\ (i # 0 => i - 1 \in 0 .. m - 1)
          BY <3>2
        <4>2. sum[i] = IF i = 0 THEN 0 ELSE sum[i - 1] + weights[i]
          BY <2>1, <4>1 DEF IsSum
        <4>3. \A j \in 0 .. m - 1 : other[j] = sum[j]
          BY <2>2
        <4> QED
          BY <4>1, <4>2, <4>3
      <3> QED
        BY <3>1, <3>2
    <2>4. IsSum(other, weights, m)
      BY <2>2, <2>3 DEF IsSum
    <2> QED
      BY <2>4
  <1>3. 0 .. n \subseteq Good
    <2> HIDE DEF Good
    <2> QED
      BY <1>1, <1>2, CountingUp
  <1> QED
    BY <1>3

LEMMA SumsAdd ==
    ASSUME NEW weights, IsList(weights)
    PROVE  /\ SumTo(weights, 0) = 0
           /\ \A i \in 1 .. Len(weights) :
                 SumTo(weights, i) = SumTo(weights, i - 1) + weights[i]
  <1> DEFINE n == Len(weights)
             sum == CHOOSE f : IsSum(f, weights, n)
  <1>1. n \in Nat
    BY DEF IsList
  <1>2. IsSum(sum, weights, n)
    BY <1>1, SumsExist
  <1>3. \A i : SumTo(weights, i) = sum[i]
    BY DEF SumTo, IsSum
  <1> HIDE DEF sum
  <1>4. \A i \in 0 .. n : sum[i] = IF i = 0 THEN 0 ELSE sum[i - 1] + weights[i]
    BY <1>2 DEF IsSum
  <1> HIDE DEF n
  <1>5. 0 \in 0 .. n /\ \A i \in 1 .. n : i \in 0 .. n /\ i # 0
    BY <1>1
  <1> QED
    BY <1>3, <1>4, <1>5 DEF n

LEMMA SumsGrow ==
    ASSUME NEW weights, IsList(weights), \A i \in DOMAIN weights : weights[i] \in Nat
    PROVE  /\ \A i \in 0 .. Len(weights) : SumTo(weights, i) \in Nat
           /\ \A j \in 0 .. Len(weights) : \A i \in 0 .. j :
                 SumTo(weights, i) <= SumTo(weights, j)
  <1> DEFINE n == Len(weights)
             Good == { j \in 0 .. n : /\ SumTo(weights, j) \in Nat
                                      /\ \A i \in 0 .. j :
                                            /\ SumTo(weights, i) \in Nat
                                            /\ SumTo(weights, i) <= SumTo(weights, j) }
  <1>1. n \in Nat /\ DOMAIN weights = 1 .. n
    BY DEF IsList
  <1>2. 0 \in Good
    BY <1>1, SumsAdd
  <1>3. ASSUME NEW j \in 1 .. n, j - 1 \in Good
        PROVE  j \in Good
    <2>1. /\ SumTo(weights, j - 1) \in Nat /\ weights[j] \in Nat
          /\ SumTo(weights, j) = SumTo(weights, j - 1) + weights[j]
          /\ \A i \in 0 .. j - 1 : /\ SumTo(weights, i) \in Nat
                                    /\ SumTo(weights, i) <= SumTo(weights, j - 1)
      BY <1>1, <1>3, SumsAdd
    <2>2. ASSUME NEW i \in 0 .. j
          PROVE  SumTo(weights, i) \in Nat /\ SumTo(weights, i) <= SumTo(weights, j)
      <3>1. CASE i = j
        BY <2>1, <3>1
      <3>2. CASE i # j
        <4>1. i \in 0 .. j - 1
          BY <3>2
        <4> QED
          BY <2>1, <4>1
      <3> QED
        BY <3>1, <3>2
    <2> QED
      BY <2>1, <2>2
  <1>4. 0 .. n \subseteq Good
    <2> HIDE DEF Good, n
    <2> QED
      BY <1>1, <1>2, <1>3, CountingUp
  <1> QED
    BY <1>4

\* Dividing.
LEMMA Quotient ==
    ASSUME NEW x \in Nat, NEW total \in Nat \ {0}
    PROVE  \E q \in Nat : q * total <= x /\ x < (q + 1) * total
  <1> DEFINE Above == { q \in Nat : x < (q + 1) * total }
  <1>1. x \in Above
    <2>1. (x + 1) * total = x * total + total /\ x * total >= x
      <3>1. PICK t \in Nat : total = t + 1
        <4>1. total - 1 \in Nat /\ total = (total - 1) + 1
          OBVIOUS
        <4> QED
          BY <4>1
      <3>2. x * (t + 1) = x * t + x /\ x * t \in Nat
        OBVIOUS
      <3> QED
        BY <3>1, <3>2
    <2> QED
      BY <2>1
  <1>2. PICK q : q = Min(Above)
    OBVIOUS
  <1>3. q \in Above /\ \A y \in Above : q <= y
    <2>1. Above \in SUBSET Nat /\ Above # {}
      BY <1>1
    <2> HIDE DEF Above
    <2> QED
      BY <1>2, <2>1, MinIsLeast
  <1>4. q * total <= x
    <2>1. CASE q = 0
      BY <2>1
    <2>2. CASE q # 0
      <3>1. q - 1 \in Nat /\ q - 1 \notin Above
        BY <1>3, <2>2
      <3>2. ~(x < ((q - 1) + 1) * total) /\ (q - 1) + 1 = q
        BY <1>3, <3>1
      <3>3. ~(x < q * total) /\ q * total \in Nat
        BY <1>3, <3>2
      <3> QED
        BY <3>3
    <2> QED
      BY <2>1, <2>2
  <1> QED
    BY <1>3, <1>4

LEMMA ProductsGrow ==
    ASSUME NEW a \in Nat, NEW b \in Nat, a <= b, NEW c \in Nat
    PROVE  a * c <= b * c /\ a * c \in Nat /\ b * c \in Nat
  <1>1. PICK d \in Nat : b = a + d
    <2>1. b - a \in Nat /\ b = a + (b - a)
      OBVIOUS
    <2> QED
      BY <2>1
  <1>2. (a + d) * c = a * c + d * c /\ d * c \in Nat /\ a * c \in Nat
    OBVIOUS
  <1> QED
    BY <1>1, <1>2

LEMMA QuotientIsThreshold ==
    ASSUME NEW x \in Nat, NEW total \in Nat \ {0}, NEW q \in Nat,
           q * total <= x, x < (q + 1) * total, NEW b \in Nat
    PROVE  b * total <= x <=> b <= q
  <1>1. ASSUME b <= q PROVE b * total <= x
    <2>1. b * total <= q * total /\ b * total \in Nat /\ q * total \in Nat
      BY <1>1, ProductsGrow
    <2> QED
      BY <2>1
  <1>2. ASSUME ~(b <= q) PROVE ~(b * total <= x)
    <2>1. q + 1 <= b /\ q + 1 \in Nat
      BY <1>2
    <2>2. (q + 1) * total <= b * total /\ (q + 1) * total \in Nat /\ b * total \in Nat
      BY <2>1, ProductsGrow
    <2> QED
      BY <2>2
  <1> QED
    BY <1>1, <1>2

LEMMA SmallNumbersDoNotWrap ==
    ASSUME NEW n \in 0 .. MaxInt32
    PROVE  Wrap(n) = n
  BY WeightsAssumption DEF Wrap

\* Up to the number of buckets that lie below x of a total, there are so many.
LEMMA BucketsBetween ==
    ASSUME NEW low \in Nat, NEW high \in Nat, low <= high, high <= Buckets
    PROVE  /\ { b \in 1 .. Buckets : low < b /\ b <= high } = low + 1 .. high
           /\ Cardinality(low + 1 .. high) = high - low
  <1>1. { b \in 1 .. Buckets : low < b /\ b <= high } = low + 1 .. high
    BY WeightsAssumption
  <1>2. Cardinality(low + 1 .. high) = IF low + 1 > high THEN 0 ELSE high - (low + 1) + 1
    BY FS_Interval
  <1> QED
    BY <1>1, <1>2

\* The choice falls on the value whose running sum is the first to reach the bucket's
\* part of the total.
LEMMA ChosenValue ==
    ASSUME NEW weights, IsList(weights), \A i \in DOMAIN weights : weights[i] \in Nat,
           SumTo(weights, Len(weights)) \in 1 .. MaxInt32,
           NEW b \in 1 .. Buckets, NEW i \in DOMAIN weights
    PROVE  LET total == SumTo(weights, Len(weights))
           IN  Resolve(weights, b) = i <=>
                 /\ b * total <= SumTo(weights, i) * Buckets
                 /\ ~(b * total <= SumTo(weights, i - 1) * Buckets)
  <1> DEFINE n == Len(weights)
             S(j) == SumTo(weights, j)
             total == S(n)
             Reaching == { j \in DOMAIN weights : Reached(weights, b, j) }
  <1>1. n \in Nat /\ DOMAIN weights = 1 .. n /\ i \in 1 .. n /\ Buckets \in Nat /\ b \in Nat
    BY WeightsAssumption DEF IsList
  <1>2. /\ \A j \in 0 .. n : S(j) \in Nat /\ S(j) <= total
        /\ S(0) = 0 /\ total \in Nat \ {0} /\ total <= MaxInt32
    <2>1. /\ \A j \in 0 .. n : S(j) \in Nat
          /\ \A k \in 0 .. n : \A j \in 0 .. k : S(j) <= S(k)
      BY SumsGrow
    <2>2. S(0) = 0
      BY SumsAdd
    <2>3. total \in 1 .. MaxInt32
      OBVIOUS
    <2>4. n \in 0 .. n /\ \A j \in 0 .. n : j \in 0 .. n
      BY <1>1
    <2> HIDE DEF n, S
    <2>5. \A j \in 0 .. n : S(j) <= total
      BY <2>1, <2>4 DEF total
    <2>6. total \in Nat \ {0} /\ total <= MaxInt32
      BY <2>3, WeightsAssumption
    <2> QED
      BY <2>1, <2>2, <2>5, <2>6
  <1>3. ASSUME NEW j \in 1 .. n
        PROVE  Reached(weights, b, j) <=> b * total <= S(j) * Buckets
    <2>1. RunningSum(weights, j) = S(j) /\ RunningSum(weights, n) = total
      <3>1. S(j) \in 0 .. MaxInt32 /\ total \in 0 .. MaxInt32
        BY <1>1, <1>2, WeightsAssumption
      <3> QED
        BY <3>1, SmallNumbersDoNotWrap DEF RunningSum
    <2>2. S(j) * Buckets \in Nat /\ b * total \in Nat
      BY <1>1, <1>2
    <2> QED
      BY <2>1, <2>2 DEF Reached
  <1>4. ASSUME NEW j \in 0 .. n, NEW k \in 0 .. j, b * total <= S(k) * Buckets
        PROVE  b * total <= S(j) * Buckets
    <2>1. S(k) <= S(j) /\ S(k) \in Nat /\ S(j) \in Nat
      <3>1. k \in 0 .. n /\ j \in 0 .. n
        BY <1>1
      <3>2. S(k) <= S(j)
        BY SumsGrow
      <3> QED
        BY <1>2, <3>1, <3>2
    <2>2. S(k) * Buckets <= S(j) * Buckets /\ S(k) * Buckets \in Nat /\ S(j) * Buckets \in Nat
      BY <1>1, <2>1, ProductsGrow
    <2>3. b * total \in Nat
      BY <1>1, <1>2
    <2> QED
      BY <1>4, <2>2, <2>3
  <1>5. n \in Reaching
    <2>1. b * total <= Buckets * total /\ Buckets * total = total * Buckets
      BY <1>1, <1>2, ProductsGrow
    <2> QED
      BY <1>1, <1>3, <2>1
  <1>6. PICK m : m = Resolve(weights, b)
    OBVIOUS
  <1>7. m \in Reaching /\ \A j \in Reaching : m <= j
    <2>1. Reaching \in SUBSET Nat /\ Reaching # {}
      BY <1>1, <1>5
    <2>2. m = Min(Reaching)
      BY <1>6, <2>1 DEF Resolve
    <2> HIDE DEF Reaching
    <2> QED
      BY <2>1, <2>2, MinIsLeast
  <1>8. m \in 1 .. n /\ b * total <= S(m) * Buckets
    BY <1>1, <1>3, <1>7
  <1>9. ~(b * total <= S(m - 1) * Buckets)
    <2>1. CASE m = 1
      <3>1. S(m - 1) * Buckets = 0
        BY <1>1, <1>2, <2>1
      <3>2. b * total >= 1
        <4>1. 1 * total <= b * total /\ b * total \in Nat
          BY <1>1, <1>2, ProductsGrow
        <4> QED
          BY <1>2, <4>1
      <3>3. b * total \in Nat
        BY <1>1, <1>2
      <3> QED
        BY <3>1, <3>2, <3>3
    <2>2. CASE m # 1
      <3>1. m - 1 \in 1 .. n /\ m - 1 < m
        BY <1>8, <2>2
      <3>2. m - 1 \notin Reaching
        BY <1>7, <1>8, <3>1
      <3> QED
        BY <1>1, <1>3, <3>1, <3>2
    <2> QED
      BY <2>1, <2>2
  <1>10. CASE m = i
    BY <1>6, <1>8, <1>9, <1>10
  <1>11. CASE m < i
    <2>1. i - 1 \in 0 .. n /\ m \in 0 .. i - 1
      BY <1>1, <1>8, <1>11
    <2>2. b * total <= S(i - 1) * Buckets
      BY <1>4, <1>8, <2>1
    <2> QED
      BY <1>6, <1>11, <2>2, <1>8
  <1>12. CASE i < m
    <2>1. m - 1 \in 0 .. n /\ i \in 0 .. m - 1
      BY <1>1, <1>8, <1>12
    <2>2. ~(b * total <= S(i) * Buckets)
      BY <1>4, <1>9, <2>1
    <2> QED
      BY <1>6, <1>12, <2>2, <1>8
  <1> QED
    BY <1>1, <1>8, <1>10, <1>11, <1>12

LEMMA ShareOfValue ==
    ASSUME NEW weights, IsList(weights), \A i \in DOMAIN weights : weights[i] \in Nat,
           NEW total, total = SumTo(weights, Len(weights)), total \in 1 .. MaxInt32,
           NEW i \in DOMAIN weights,
           NEW share, share = Cardinality({ b \in 1 .. Buckets : Resolve(weights, b) = i })
    PROVE  /\ -total < total * share - weights[i] * Buckets
           /\ total * share - weights[i] * Buckets < total
  <1>1. PICK before, after : before = SumTo(weights, i - 1) /\ after = SumTo(weights, i)
    OBVIOUS
  <1>2. /\ i \in 1 .. Len(weights) /\ Len(weights) \in Nat
        /\ total \in Nat \ {0} /\ Buckets \in Nat \ {0}
        /\ weights[i] \in Nat
    BY WeightsAssumption DEF IsList
  <1>3. /\ before \in Nat /\ after \in Nat /\ after = before + weights[i]
        /\ before <= after /\ after <= total
    <2>1. after = before + weights[i]
      BY <1>1, <1>2, SumsAdd
    <2>2. PICK n : n = Len(weights)
      OBVIOUS
    <2>3. i \in 0 .. n /\ i - 1 \in 0 .. n /\ i - 1 \in 0 .. i /\ n \in 0 .. n
      BY <1>2, <2>2
    <2>4. before \in Nat /\ after \in Nat
      BY <1>1, <2>2, <2>3, SumsGrow
    <2>5. before <= after
      BY <1>1, <2>2, <2>3, SumsGrow
    <2>6. i \in 0 .. n /\ total = SumTo(weights, n)
      BY <2>2, <2>3
    <2>7. after <= total
      BY <1>1, <2>2, <2>3, <2>6, SumsGrow
    <2> QED
      BY <2>1, <2>4, <2>5, <2>7
  <1>4. before * Buckets \in Nat /\ after * Buckets \in Nat
    BY <1>2, <1>3
  <1>5. PICK low \in Nat :
            low * total <= before * Buckets /\ before * Buckets < (low + 1) * total
    BY <1>2, <1>4, Quotient
  <1>6. PICK high \in Nat :
            high * total <= after * Buckets /\ after * Buckets < (high + 1) * total
    BY <1>2, <1>4, Quotient
  <1>7. ASSUME NEW b \in Nat
        PROVE  /\ b * total <= before * Buckets <=> b <= low
               /\ b * total <= after * Buckets <=> b <= high
    <2>1. PICK x \in Nat, y \in Nat : x = before * Buckets /\ y = after * Buckets
      BY <1>4
    <2>2. b * total <= x <=> b <= low
      BY <1>2, <1>5, <2>1, QuotientIsThreshold
    <2>3. b * total <= y <=> b <= high
      BY <1>2, <1>6, <2>1, QuotientIsThreshold
    <2> QED
      BY <2>1, <2>2, <2>3
  <1>8. low <= high
    <2>1. before * Buckets <= after * Buckets
      BY <1>2, <1>3, ProductsGrow
    <2>2. low * total <= after * Buckets
      <3>1. low * total \in Nat
        BY <1>2
      <3> QED
        BY <1>4, <1>5, <2>1, <3>1
    <2> QED
      BY <1>7, <2>2
  <1>9. high <= Buckets
    <2>1. after * Buckets <= total * Buckets
      BY <1>2, <1>3, ProductsGrow
    <2>2. high * total <= total * Buckets
      <3>1. high * total \in Nat /\ total * Buckets \in Nat
        BY <1>2
      <3> QED
        BY <1>4, <1>6, <2>1, <3>1
    <2>3. SUFFICES ASSUME ~(high <= Buckets)
                   PROVE  FALSE
      OBVIOUS
    <2>4. Buckets + 1 \in Nat /\ Buckets + 1 <= high
      BY <1>2, <2>3
    <2>5. (Buckets + 1) * total <= high * total /\ high * total \in Nat
      BY <1>2, <2>4, ProductsGrow
    <2>6. (Buckets + 1) * total = total * Buckets + total /\ total * Buckets \in Nat
      BY <1>2
    <2> QED
      BY <1>2, <2>2, <2>5, <2>6
  <1>10. { b \in 1 .. Buckets : Resolve(weights, b) = i }
           = { b \in 1 .. Buckets : low < b /\ b <= high }
    <2>1. ASSUME NEW b \in 1 .. Buckets
          PROVE  Resolve(weights, b) = i <=> low < b /\ b <= high
      <3>1. Resolve(weights, b) = i <=>
              b * total <= after * Buckets /\ ~(b * total <= before * Buckets)
        BY <1>1, ChosenValue
      <3>2. b \in Nat
        BY <1>2
      <3>3. Resolve(weights, b) = i <=> b <= high /\ ~(b <= low)
        BY <1>7, <3>1, <3>2
      <3>4. ~(b <= low) <=> low < b
        BY <1>5, <3>2
      <3> QED
        BY <3>3, <3>4
    <2> QED
      BY <2>1
  <1>11. share = high - low
    BY <1>8, <1>9, <1>10, BucketsBetween
  <1>12. /\ total * share = high * total - low * total
         /\ weights[i] * Buckets = after * Buckets - before * Buckets
         /\ (low + 1) * total = low * total + total /\ (high + 1) * total = high * total + total
         /\ high * total \in Nat /\ low * total \in Nat
    <2>1. PICK w \in Nat : w = weights[i]
      BY <1>2
    <2>2. (before + w) * Buckets = before * Buckets + w * Buckets /\ w * Buckets \in Nat
      BY <1>2, <1>3
    <2>3. PICK d \in Nat : d = share /\ high = low + d
      <3>1. high - low \in Nat /\ high = low + (high - low)
        BY <1>5, <1>6, <1>8
      <3> QED
        BY <1>11, <3>1
    <2>4. (low + d) * total = low * total + d * total /\ d * total = total * d
      BY <1>2
    <2>5. high * total \in Nat /\ low * total \in Nat /\ d * total \in Nat
      BY <1>2
    <2>6. (low + 1) * total = low * total + total /\ (high + 1) * total = high * total + total
      BY <1>2
    <2>7. total * share = high * total - low * total
      <3>1. PICK x \in Nat, y \in Nat : x = low * total /\ y = d * total
        BY <2>5
      <3>2. high * total = x + y /\ total * share = y
        BY <2>3, <2>4, <3>1
      <3> QED
        BY <3>1, <3>2
    <2>8. weights[i] * Buckets = after * Buckets - before * Buckets
      BY <1>3, <1>4, <2>1, <2>2
    <2> QED
      BY <2>5, <2>6, <2>7, <2>8
  <1> QED
    <2>1. PICK x \in Nat, y \in Nat, p \in Nat, q \in Nat :
              x = before * Buckets /\ y = after * Buckets /\ p = low * total /\ q = high * total
      BY <1>4, <1>12
    <2>2. p <= x /\ x < p + total /\ q <= y /\ y < q + total
      BY <1>5, <1>6, <1>12, <2>1
    <2>3. total * share - weights[i] * Buckets = (q - p) - (y - x)
      BY <1>12, <2>1
    <2> QED
      BY <1>2, <2>2, <2>3

\* With non-negative weights whose sum is an int32, each variant of a weighted value gets
\* its share of the fractions, to less than one of them (weighted_values.go:29-42).
THEOREM EveryShareIsRight == Spec => []EveryValueGetsItsShare
  <1>1. SafeInv => EveryValueGetsItsShare
    <2> SUFFICES ASSUME SafeInv, pc = "resolve", Original.kind = "weighted",
                        \A i \in DOMAIN Original.is.weights : Original.is.weights[i] \in Nat,
                        SumTo(Original.is.weights, Len(Original.is.weights)) \in 1 .. MaxInt32,
                        NEW i \in DOMAIN Original.is.weights
                 PROVE  LET weights == Original.is.weights
                            total   == SumTo(weights, Len(weights))
                            share   == Cardinality({ b \in 1 .. Buckets :
                                                        Resolve(weights, b) = i })
                            excess  == total * share - weights[i] * Buckets
                        IN  -total < excess /\ excess < total
      BY DEF EveryValueGetsItsShare
    <2>1. original # NoRule
      BY DEF Original, NoRule, NoValue, Plain
    <2>2. IsList(Original.is.weights)
      BY <2>1, StoredVariants DEF SafeInv, OriginalInv
    <2>3. PICK weights : weights = Original.is.weights
      OBVIOUS
    <2>4. PICK total, share :
              /\ total = SumTo(weights, Len(weights))
              /\ share = Cardinality({ b \in 1 .. Buckets : Resolve(weights, b) = i })
      OBVIOUS
    <2>5. /\ -total < total * share - weights[i] * Buckets
          /\ total * share - weights[i] * Buckets < total
      BY <2>2, <2>3, <2>4, ShareOfValue
    <2> QED
      BY <2>3, <2>4, <2>5
  <1> QED
    BY <1>1, SafeInvariant, PTL

=============================================================================
