---------------------------- MODULE MeaningProofs ----------------------------
(***************************************************************************)
(* The rule that a call takes is the one that its configs mean, however    *)
(* the API store changes during it; and configs without circles of         *)
(* segments have a meaning.                                                *)
(***************************************************************************)
EXTENDS ConfigResolverProofs

-----------------------------------------------------------------------------
\* Rows and rules

FirstRow(config, r, env) ==
    /\ r \in DOMAIN config.rows /\ config.rows[r].env = env
    /\ \A j \in 1 .. r - 1 : config.rows[j].env # env

\* The rule number i of the row r is the first there to hold.
Takes(config, env, r, i, first, values) ==
    LET rules == config.rows[r].values
    IN  /\ FirstRow(config, r, env)
        /\ i \in DOMAIN rules /\ AllHold(rules[i].criteria, first, values)
        /\ \A j \in 1 .. i - 1 : ~AllHold(rules[j].criteria, first, values)

TakesNone(config, env, first, values) ==
    \A r \in DOMAIN config.rows : FirstRow(config, r, env) =>
        \A i \in DOMAIN config.rows[r].values :
            ~AllHold(config.rows[r].values[i].criteria, first, values)

LEMMA FirstRowIsUnique ==
    ASSUME NEW config, IsConfig(config), NEW env, NEW r, NEW s,
           FirstRow(config, r, env), FirstRow(config, s, env)
    PROVE  r = s
  <1>1. r \in Nat /\ s \in Nat /\ r >= 1 /\ s >= 1
    BY DEF FirstRow, IsConfig, IsList
  <1>2. ~(r < s) /\ ~(s < r)
    BY <1>1 DEF FirstRow
  <1> QED
    BY <1>1, <1>2

LEMMA RowForEnv ==
    ASSUME NEW config, IsConfig(config), NEW env
    PROVE  \/ /\ RowFor(config, env) = <<>>
              /\ \A r : ~FirstRow(config, r, env)
           \/ \E r : /\ FirstRow(config, r, env)
                     /\ RowFor(config, env) = <<config.rows[r]>>
  <1> DEFINE For == { i \in DOMAIN config.rows : config.rows[i].env = env }
  <1>1. For \in SUBSET Nat
    BY DEF IsConfig, IsList
  <1>2. CASE For = {}
    BY <1>2 DEF RowFor, FirstRow
  <1>3. CASE For # {}
    <2>1. Min(For) \in For /\ \A y \in For : Min(For) <= y
      <3> HIDE DEF For
      <3> QED
        BY <1>1, <1>3, MinIsLeast
    <2>2. RowFor(config, env) = <<config.rows[Min(For)]>>
      BY <1>3 DEF RowFor
    <2>3. PICK m : m = Min(For)
      OBVIOUS
    <2>4. m \in For /\ \A y \in For : m <= y
      BY <2>1, <2>3
    <2>5. FirstRow(config, m, env)
      <3>1. ASSUME NEW j \in 1 .. m - 1, config.rows[j].env = env
            PROVE  FALSE
        <4>1. m \in 1 .. Len(config.rows) /\ DOMAIN config.rows = 1 .. Len(config.rows)
              /\ Len(config.rows) \in Nat
          BY <2>4 DEF IsConfig, IsList
        <4>2. j \in For /\ j < m
          BY <3>1, <4>1
        <4> QED
          BY <1>1, <2>4, <4>2
      <3> QED
        BY <2>4, <3>1 DEF FirstRow
    <2> QED
      BY <2>2, <2>3, <2>5
  <1> QED
    BY <1>2, <1>3

\* The rules of a row in their order.
LEMMA RulesOfOneRow ==
    ASSUME NEW config, IsConfig(config), NEW r \in DOMAIN config.rows, NEW number,
           NEW rules, rules = RulesOf(config, <<config.rows[r]>>, number),
           NEW listed, listed = config.rows[r].values
    PROVE  /\ Len(rules) = Len(listed) /\ Len(listed) \in Nat
           /\ DOMAIN rules = 1 .. Len(listed) /\ DOMAIN listed = 1 .. Len(listed)
           /\ \A n \in 1 .. Len(listed) :
                 /\ rules[n].value = listed[n].value /\ rules[n].index = n - 1
                 /\ rules[n].criteria = listed[n].criteria
  <1>1. rules = [i \in DOMAIN listed |->
                   [row |-> number, index |-> i - 1, type |-> config.type,
                    value |-> listed[i].value, criteria |-> listed[i].criteria]]
    BY OneIsNotEmpty DEF RulesOf
  <1>2. DOMAIN listed = 1 .. Len(listed) /\ Len(listed) \in Nat
    BY DEF IsConfig, IsList
  <1>3. DOMAIN rules = 1 .. Len(listed)
    BY <1>1, <1>2
  <1>4. Len(rules) = Len(listed)
    BY <1>2, <1>3
  <1>5. \A n \in 1 .. Len(listed) :
           /\ rules[n].value = listed[n].value /\ rules[n].index = n - 1
           /\ rules[n].criteria = listed[n].criteria
    <2> TAKE n \in 1 .. Len(listed)
    <2>1. rules[n] = [row |-> number, index |-> n - 1, type |-> config.type,
                      value |-> listed[n].value, criteria |-> listed[n].criteria]
      BY <1>1, <1>2
    <2> QED
      BY <2>1
  <1> QED
    BY <1>2, <1>3, <1>4, <1>5

LEMMA MeantOfRow ==
    ASSUME NEW config, config # NoConfig, IsConfig(config), NEW envID, NEW first, NEW values,
           NEW env \in {<<envID>>, <<>>}, NEW r, NEW i,
           Takes(config, env, r, i, first, values),
           env = <<>> => TakesNone(config, <<envID>>, first, values)
    PROVE  /\ Meant(config, envID, first, values).value = config.rows[r].values[i].value
           /\ Meant(config, envID, first, values).index = i - 1
  <1> DEFINE rows     == config.rows
             Found(s) == { j \in DOMAIN rows[s].values :
                             AllHold(rows[s].values[j].criteria, first, values) }
             IsFirst(s, e) == rows[s].env = e /\ \A j \in 1 .. s - 1 : rows[j].env # e
             Having(e) == { s \in DOMAIN rows : IsFirst(s, e) /\ Found(s) # {} }
             Earliest(s) == [index |-> Min(Found(s)) - 1, value |-> rows[s].values[Min(Found(s))].value]
  <1>1. Meant(config, envID, first, values)
          = IF Having(<<envID>>) # {} THEN Earliest(Min(Having(<<envID>>)))
            ELSE IF Having(<<>>) # {} THEN Earliest(Min(Having(<<>>)))
            ELSE NoRule
    BY DEF Meant
  <1>2. /\ r \in DOMAIN rows /\ IsFirst(r, env) /\ i \in Found(r)
        /\ \A j \in 1 .. i - 1 : j \notin Found(r)
    BY DEF Takes, FirstRow
  <1>3. Having(env) = {r}
    <2>1. r \in Having(env)
      BY <1>2
    <2>2. \A s \in Having(env) : s = r
      <3> TAKE s \in Having(env)
      <3>1. FirstRow(config, s, env) /\ FirstRow(config, r, env)
        BY <1>2 DEF FirstRow
      <3> QED
        BY <3>1, FirstRowIsUnique
    <2> QED
      BY <2>1, <2>2
  <1>4. Having(<<envID>>) = {} \/ env = <<envID>>
    <2> SUFFICES ASSUME env = <<>>, NEW s \in Having(<<envID>>)
                 PROVE  FALSE
      OBVIOUS
    <2>1. FirstRow(config, s, <<envID>>) /\ s \in DOMAIN rows
      BY DEF FirstRow
    <2>2. PICK j \in Found(s) : TRUE
      OBVIOUS
    <2> QED
      BY <2>1, <2>2 DEF TakesNone
  <1>5. Min({r}) = r
    <2>1. r \in Nat
      BY <1>2 DEF IsConfig, IsList
    <2> QED
      BY <2>1, MinIsLeast
  <1>6. Min(Found(r)) = i
    <2>1. Found(r) \in SUBSET Nat /\ i \in Nat /\ i >= 1
      BY <1>2 DEF IsConfig, IsList
    <2> HIDE DEF Found
    <2>2. Min(Found(r)) \in Found(r) /\ Min(Found(r)) <= i
      BY <1>2, <2>1, MinIsLeast
    <2>3. Min(Found(r)) \in Nat
      BY <2>1, <2>2
    <2>4. Min(Found(r)) >= 1
      <3>1. Found(r) \subseteq 1 .. Len(rows[r].values) /\ Len(rows[r].values) \in Nat
        BY <1>2 DEF Found, IsConfig, IsList
      <3> QED
        BY <2>2, <3>1
    <2>5. PICK m \in Nat : m = Min(Found(r))
      BY <2>3
    <2> QED
      BY <1>2, <2>1, <2>2, <2>4, <2>5
  <1>7. Earliest(r) = [index |-> i - 1, value |-> rows[r].values[i].value]
    BY <1>6
  <1>8. Meant(config, envID, first, values) = Earliest(r)
    <2>1. CASE env = <<envID>>
      <3> HIDE DEF Having, Earliest
      <3> QED
        BY <1>1, <1>3, <1>5, <2>1
    <2>2. CASE env # <<envID>>
      <3>1. Having(<<envID>>) = {} /\ env = <<>>
        BY <1>4, <2>2
      <3> HIDE DEF Having, Earliest
      <3> QED
        BY <1>1, <1>3, <1>5, <3>1
    <2> QED
      BY <2>1, <2>2
  <1> HIDE DEF Earliest
  <1> QED
    BY <1>7, <1>8

LEMMA MeantOfNone ==
    ASSUME NEW config, NEW envID, NEW first, NEW values,
           \/ config = NoConfig
           \/ /\ TakesNone(config, <<envID>>, first, values)
              /\ TakesNone(config, <<>>, first, values)
    PROVE  Meant(config, envID, first, values) = NoRule
  <1> DEFINE rows     == config.rows
             Found(s) == { j \in DOMAIN rows[s].values :
                             AllHold(rows[s].values[j].criteria, first, values) }
             IsFirst(s, e) == rows[s].env = e /\ \A j \in 1 .. s - 1 : rows[j].env # e
             Having(e) == { s \in DOMAIN rows : IsFirst(s, e) /\ Found(s) # {} }
             Earliest(s) == [index |-> Min(Found(s)) - 1, value |-> rows[s].values[Min(Found(s))].value]
  <1>1. Meant(config, envID, first, values)
          = IF config = NoConfig THEN NoRule
            ELSE IF Having(<<envID>>) # {} THEN Earliest(Min(Having(<<envID>>)))
            ELSE IF Having(<<>>) # {} THEN Earliest(Min(Having(<<>>)))
            ELSE NoRule
    BY DEF Meant
  <1>2. CASE config = NoConfig
    BY <1>2 DEF Meant
  <1>3. CASE config # NoConfig
    <2>1. \A e \in {<<envID>>, <<>>} : Having(e) = {}
      <3> SUFFICES ASSUME NEW e \in {<<envID>>, <<>>}, NEW s \in Having(e)
                   PROVE  FALSE
        OBVIOUS
      <3>1. FirstRow(config, s, e) /\ s \in DOMAIN rows
        BY DEF FirstRow
      <3>2. PICK j \in Found(s) : TRUE
        OBVIOUS
      <3> QED
        BY <1>3, <3>1, <3>2 DEF TakesNone
    <2> HIDE DEF Having, Earliest
    <2> QED
      BY <1>1, <1>3, <2>1
  <1> QED
    BY <1>2, <1>3

\* A rule of the list of rules to try, the first to hold there, is the one meant.
LEMMA RuleIsMeant ==
    ASSUME NEW config, config # NoConfig, IsConfig(config), NEW envID,
           NEW first, NEW values, NEW rules, rules = Rules(config, envID),
           NEW m \in Nat \ {0}, m <= Len(rules) + 1,
           m <= Len(rules) => AllHold(rules[m].criteria, first, values),
           \A j \in 1 .. m - 1 : ~AllHold(rules[j].criteria, first, values)
    PROVE  LET rule == Meant(config, envID, first, values)
           IN  IF m <= Len(rules)
               THEN rule.value = rules[m].value /\ rule.index = rules[m].index
               ELSE rule = NoRule
  <1> DEFINE F == RowFor(config, <<envID>>)
             D == RowFor(config, <<>>)
             a == RulesOf(config, F, 0)
             b == RulesOf(config, D, Len(F))
             rule == Meant(config, envID, first, values)
             Fails(r, i) == ~AllHold(config.rows[r].values[i].criteria, first, values)
  <1>1. rules = a \o b
    BY DEF Rules
  <1>2. a \in Seq({ a[n] : n \in DOMAIN a }) /\ b \in Seq({ b[n] : n \in DOMAIN b })
    BY RulesOfRow
  <1>3. /\ Len(rules) = Len(a) + Len(b) /\ Len(a) \in Nat /\ Len(b) \in Nat
        /\ \A n \in 1 .. Len(a) : rules[n] = a[n]
        /\ \A n \in 1 .. Len(b) : rules[n + Len(a)] = b[n]
    <2> DEFINE A == { a[n] : n \in DOMAIN a }
               B == { b[n] : n \in DOMAIN b }
    <2>1. a \in Seq(A) /\ b \in Seq(B)
      BY <1>2
    <2> HIDE DEF a, b, A, B
    <2>2. a \in Seq(A \cup B) /\ b \in Seq(A \cup B)
      BY <2>1
    <2>3. Len(a) \in Nat /\ Len(b) \in Nat /\ Len(a \o b) = Len(a) + Len(b)
      BY <2>2
    <2>4. \A n \in 1 .. Len(a) : (a \o b)[n] = a[n]
      BY <2>2
    <2>5. \A n \in 1 .. Len(b) : (a \o b)[n + Len(a)] = b[n]
      <3> TAKE n \in 1 .. Len(b)
      <3>1. n + Len(a) \in Len(a) + 1 .. Len(a) + Len(b) /\ (n + Len(a)) - Len(a) = n
        BY <2>3
      <3> QED
        BY <2>2, <3>1
    <2> QED
      BY <1>1, <2>3, <2>4, <2>5
  \* What the rules of one row say.
  <1>4. ASSUME NEW env, NEW r, FirstRow(config, r, env), NEW number
        PROVE  LET c == RulesOf(config, <<config.rows[r]>>, number)
               IN  /\ \A i \in 1 .. Len(c) :
                         /\ c[i].value = config.rows[r].values[i].value /\ c[i].index = i - 1
                         /\ Fails(r, i) <=> ~AllHold(c[i].criteria, first, values)
                   /\ DOMAIN config.rows[r].values = 1 .. Len(c)
    <2>1. r \in DOMAIN config.rows
      BY <1>4 DEF FirstRow
    <2>2. PICK c, listed : c = RulesOf(config, <<config.rows[r]>>, number)
                           /\ listed = config.rows[r].values
      OBVIOUS
    <2>3. /\ Len(c) = Len(listed) /\ DOMAIN listed = 1 .. Len(listed)
          /\ \A n \in 1 .. Len(listed) :
                /\ c[n].value = listed[n].value /\ c[n].index = n - 1
                /\ c[n].criteria = listed[n].criteria
      BY <2>1, <2>2, RulesOfOneRow
    <2>4. \A n \in 1 .. Len(c) : Fails(r, n) <=> ~AllHold(c[n].criteria, first, values)
      BY <2>2, <2>3
    <2> QED
      BY <2>2, <2>3, <2>4
  <1>5. CASE m <= Len(a)
    <2>1. /\ m \in 1 .. Len(a) /\ rules[m] = a[m] /\ m <= Len(rules)
          /\ AllHold(a[m].criteria, first, values)
          /\ \A j \in 1 .. m - 1 : ~AllHold(a[j].criteria, first, values)
      <3>1. m \in 1 .. Len(a) /\ \A j \in 1 .. m - 1 : j \in 1 .. Len(a)
        BY <1>3, <1>5
      <3> HIDE DEF a, b
      <3> QED
        BY <1>3, <3>1
    <2>2. PICK r : FirstRow(config, r, <<envID>>) /\ F = <<config.rows[r]>>
      <3>1. F # <<>>
        <4> SUFFICES ASSUME F = <<>> PROVE FALSE
          OBVIOUS
        <4>1. a = <<>>
          BY DEF RulesOf
        <4> HIDE DEF a
        <4> QED
          BY <1>5, <4>1
      <3> QED
        BY <3>1, RowForEnv
    <2>3. /\ \A i \in 1 .. Len(a) :
                /\ a[i].value = config.rows[r].values[i].value /\ a[i].index = i - 1
                /\ Fails(r, i) <=> ~AllHold(a[i].criteria, first, values)
          /\ DOMAIN config.rows[r].values = 1 .. Len(a)
      BY <1>4, <2>2
    <2>4. Takes(config, <<envID>>, r, m, first, values)
      <3> HIDE DEF a
      <3> QED
        BY <1>3, <2>1, <2>2, <2>3 DEF Takes
    <2>5. rule.value = config.rows[r].values[m].value /\ rule.index = m - 1
      <3>1. <<envID>> # <<>>
        BY OneIsNotEmpty
      <3> QED
        BY <2>4, <3>1, MeantOfRow
    <2> HIDE DEF a, rule
    <2> QED
      BY <2>1, <2>3, <2>5 DEF rule
  <1>6. CASE m > Len(a)
    <2>1. \A j \in 1 .. Len(a) : ~AllHold(a[j].criteria, first, values)
      <3>1. \A j \in 1 .. Len(a) : j \in 1 .. m - 1
        BY <1>3, <1>6
      <3> HIDE DEF a, b
      <3> QED
        BY <1>3, <3>1
    <2>2. TakesNone(config, <<envID>>, first, values)
      <3> SUFFICES ASSUME NEW r, FirstRow(config, r, <<envID>>),
                          NEW i \in DOMAIN config.rows[r].values
                   PROVE  Fails(r, i)
        BY DEF TakesNone
      <3>1. F = <<config.rows[r]>>
        BY RowForEnv, FirstRowIsUnique
      <3> QED
        BY <1>4, <2>1, <3>1
    <2>3. CASE m <= Len(rules)
      <3> DEFINE n == m - Len(a)
      <3>1. /\ n \in 1 .. Len(b) /\ rules[m] = b[n]
            /\ AllHold(b[n].criteria, first, values)
            /\ \A j \in 1 .. n - 1 : ~AllHold(b[j].criteria, first, values)
        <4>1. n \in 1 .. Len(b) /\ m = n + Len(a)
              /\ \A j \in 1 .. n - 1 : j \in 1 .. Len(b) /\ j + Len(a) \in 1 .. m - 1
          <5>1. PICK la \in Nat, lb \in Nat : la = Len(a) /\ lb = Len(b)
            BY <1>3
          <5>2. m > la /\ m <= la + lb
            BY <1>3, <1>6, <2>3, <5>1
          <5>3. m - la \in 1 .. lb /\ m = (m - la) + la
                /\ \A j \in 1 .. (m - la) - 1 : j \in 1 .. lb /\ j + la \in 1 .. m - 1
            BY <5>2
          <5> HIDE DEF a, b
          <5> QED
            BY <5>1, <5>3
        <4>2. rules[m] = b[n]
          BY <1>3, <4>1
        <4> HIDE DEF a, b, n
        <4> QED
          BY <1>3, <2>3, <4>1, <4>2
      <3> HIDE DEF n
      <3>2. PICK r : FirstRow(config, r, <<>>) /\ D = <<config.rows[r]>>
        <4>1. D # <<>>
          <5> SUFFICES ASSUME D = <<>> PROVE FALSE
            OBVIOUS
          <5>1. b = <<>>
            BY DEF RulesOf
          <5> HIDE DEF b
          <5> QED
            BY <3>1, <5>1
        <4> QED
          BY <4>1, RowForEnv
      <3>3. /\ \A i \in 1 .. Len(b) :
                  /\ b[i].value = config.rows[r].values[i].value /\ b[i].index = i - 1
                  /\ Fails(r, i) <=> ~AllHold(b[i].criteria, first, values)
            /\ DOMAIN config.rows[r].values = 1 .. Len(b)
        BY <1>4, <3>2
      <3>4. Takes(config, <<>>, r, n, first, values)
        <4> HIDE DEF b
        <4> QED
          BY <1>3, <3>1, <3>2, <3>3 DEF Takes
      <3>5. rule.value = config.rows[r].values[n].value /\ rule.index = n - 1
        BY <2>2, <3>4, MeantOfRow
      <3> HIDE DEF b, rule
      <3> QED
        BY <2>3, <3>1, <3>3, <3>5 DEF rule
    <2>4. CASE m > Len(rules)
      <3>1. \A j \in 1 .. Len(b) : ~AllHold(b[j].criteria, first, values)
        <4>1. \A j \in 1 .. Len(b) : j + Len(a) \in 1 .. m - 1
          <5> HIDE DEF a, b
          <5> QED
            BY <1>3, <1>6, <2>4
        <4> HIDE DEF a, b
        <4> QED
          BY <1>3, <4>1
      <3>2. TakesNone(config, <<>>, first, values)
        <4> SUFFICES ASSUME NEW r, FirstRow(config, r, <<>>),
                            NEW i \in DOMAIN config.rows[r].values
                     PROVE  Fails(r, i)
          BY DEF TakesNone
        <4>1. D = <<config.rows[r]>>
          BY RowForEnv, FirstRowIsUnique
        <4> QED
          BY <1>4, <3>1, <4>1
      <3>3. rule = NoRule
        BY <2>2, <3>2, MeantOfNone
      <3>4. ~(m <= Len(rules))
        <4> HIDE DEF a, b
        <4> QED
          BY <1>3, <2>4
      <3> QED
        BY <3>3, <3>4
    <2> HIDE DEF a, b
    <2> QED
      BY <1>3, <2>3, <2>4
  <1> HIDE DEF a, b
  <1> QED
    BY <1>3, <1>5, <1>6

-----------------------------------------------------------------------------
\* The invariant

\* Keys stand for `first` and properties are `values`, as far as they have been read.
Consistent(first, values) ==
    /\ \A k \in Key : \A config \in read.configs[k] :
          first[k] = Meant(config, GetProjectEnvID, first, values)
    /\ \A p \in Property : \A v \in read.values[p] : values[p] = v

ReadInv ==
    /\ read = [configs |-> read.configs, values |-> read.values]
    /\ DOMAIN read.configs = Key /\ DOMAIN read.values = Property
    /\ \A k \in Key : IsFiniteSet(read.configs[k])
    /\ \A p \in Property : IsFiniteSet(read.values[p])

\* Each evaluation is of the config that was read for the key that asked for it.
Asked(frame) == frame.rules[frame.at].criteria[frame.criterion].match.is
Wanted == IF pc = "evaluate" THEN key ELSE Original.decryptWith

LinkInv ==
    /\ stack # <<>> => stack[1].config \in read.configs[Wanted]
    /\ \A i \in 1 .. Len(stack) - 1 : stack[i + 1].config \in read.configs[Asked(stack[i])]

\* An evaluation is at a criterion of one of the rules of its config or past them.
FrameAt(frame, env) ==
    /\ frame.at \in Nat
    /\ frame.at = 0 => frame.criterion = 1
    /\ frame.at # 0 => frame.rules = Rules(frame.config, env)
    /\ frame.at <= Len(frame.rules) + 1
    /\ frame.at \in DOMAIN frame.rules =>
          frame.criterion \in 1 .. Len(frame.rules[frame.at].criteria) + 1

\* The rules before fail and the criteria before hold.
FramePassed(frame, first, values) ==
    /\ \A j \in 1 .. frame.at - 1 : ~AllHold(frame.rules[j].criteria, first, values)
    /\ frame.at \in DOMAIN frame.rules =>
          \A n \in 1 .. frame.criterion - 1 :
              Holds(frame.rules[frame.at].criteria[n], first, values)

FramesAt == \A i \in DOMAIN stack : FrameAt(stack[i], GetProjectEnvID)

FramesPassed(first, values) == \A i \in DOMAIN stack : FramePassed(stack[i], first, values)

Stands(match, rule) == match.value = rule.value /\ match.index = rule.index

\* What was found is what was meant.
MatchMeans(first, values) ==
    /\ \/ pc \in {"resolve", "secret", "decrypt"}
       \/ pc = "idle" /\ read.configs[key] # {}
       => Stands(original, first[key])
    /\ pc = "decrypt" => secret.value = first[Original.decryptWith].value

Means(first, values) == FramesPassed(first, values) /\ MatchMeans(first, values)

MeansInv ==
    /\ ReadInv /\ LinkInv /\ FramesAt
    /\ pc = "lookup" => original = NoRule
    /\ \A first, values : Consistent(first, values) => Means(first, values)

-----------------------------------------------------------------------------
\* Evaluations

\* Rules of evaluations are rules of configs.
LEMMA CriterionOfConfig ==
    ASSUME NEW frame, IsEvaluation(frame), IsConfig(frame.config),
           NEW m \in DOMAIN frame.rules
    PROVE  /\ IsList(frame.rules[m].criteria)
           /\ \A n \in DOMAIN frame.rules[m].criteria :
                 LET criterion == frame.rules[m].criteria[n]
                 IN  IF criterion.op \in SegmentOps THEN criterion.match.is \in Key
                     ELSE criterion.property \in Property
  <1>1. RuleOf(frame.rules[m], frame.config)
    BY DEF IsEvaluation
  <1>2. PICK r \in DOMAIN frame.config.rows : \E i \in DOMAIN frame.config.rows[r].values :
              frame.rules[m].criteria = frame.config.rows[r].values[i].criteria
    BY <1>1 DEF RuleOf
  <1>3. PICK i \in DOMAIN frame.config.rows[r].values :
              frame.rules[m].criteria = frame.config.rows[r].values[i].criteria
    BY <1>2
  <1>4. IsRule(frame.config.rows[r].values[i])
    BY DEF IsConfig
  <1> QED
    BY <1>3, <1>4 DEF IsRule

LEMMA FreshFrame ==
    ASSUME NEW config, NEW env, NEW first, NEW values
    PROVE  /\ FrameAt(Evaluation(config), env)
           /\ FramePassed(Evaluation(config), first, values)
  BY DEF FrameAt, FramePassed, Evaluation

LEMMA SelectedFrame ==
    ASSUME NEW frame, IsEvaluation(frame), IsConfig(frame.config), NEW env,
           FrameAt(frame, env), frame.at = 0, NEW first, NEW values
    PROVE  LET selected == [frame EXCEPT !.rules = Rules(frame.config, env), !.at = 1]
           IN  FrameAt(selected, env) /\ FramePassed(selected, first, values)
  <1>1. PICK rules : rules = Rules(frame.config, env)
    OBVIOUS
  <1>2. PICK c, r, a, n :
              frame = [config |-> c, rules |-> r, at |-> a, criterion |-> n]
    BY FieldsOfEvaluation
  <1>3. PICK selected : selected = [frame EXCEPT !.rules = rules, !.at = 1]
    OBVIOUS
  <1>4. /\ selected.config = frame.config /\ selected.rules = rules
        /\ selected.at = 1 /\ selected.criterion = 1
    BY <1>2, <1>3 DEF FrameAt
  <1>5. IsEvaluation(selected) /\ selected.config = frame.config
    BY <1>1, <1>3, SelectedEvaluation
  <1>6. IsList(rules)
    BY <1>1, RulesOfConfig
  <1>7. 1 \in DOMAIN rules => Len(rules[1].criteria) \in Nat
    BY <1>4, <1>5, CriterionOfConfig DEF IsList
  <1>8. FrameAt(selected, env)
    BY <1>1, <1>4, <1>6, <1>7 DEF FrameAt, IsList
  <1>9. FramePassed(selected, first, values)
    BY <1>4 DEF FramePassed
  <1> QED
    BY <1>1, <1>3, <1>8, <1>9

LEMMA JudgedFrame ==
    ASSUME NEW frame, IsEvaluation(frame), IsConfig(frame.config), NEW env,
           FrameAt(frame, env), frame.at \in DOMAIN frame.rules,
           frame.criterion \in DOMAIN frame.rules[frame.at].criteria, NEW holds
    PROVE  /\ FrameAt(Judged(frame, holds), env)
           /\ \A first, values :
                 /\ FramePassed(frame, first, values)
                 /\ holds <=> Holds(frame.rules[frame.at].criteria[frame.criterion], first, values)
                 => FramePassed(Judged(frame, holds), first, values)
  <1>1. PICK c, r, a, n :
              frame = [config |-> c, rules |-> r, at |-> a, criterion |-> n]
    BY FieldsOfEvaluation
  <1>2. /\ frame.config = c /\ frame.rules = r /\ frame.at = a /\ frame.criterion = n
        /\ a \in Nat /\ a # 0 /\ r = Rules(c, env)
        /\ DOMAIN r = 1 .. Len(r) /\ Len(r) \in Nat /\ a \in 1 .. Len(r)
    BY <1>1 DEF FrameAt, IsEvaluation, IsList
  <1>3. /\ Len(r[a].criteria) \in Nat /\ DOMAIN r[a].criteria = 1 .. Len(r[a].criteria)
        /\ n \in 1 .. Len(r[a].criteria)
    BY <1>2, CriterionOfConfig DEF IsList
  <1>4. CASE holds
    <2>1. Judged(frame, holds) = [config |-> c, rules |-> r, at |-> a, criterion |-> n + 1]
      BY <1>1, <1>4 DEF Judged
    <2>2. FrameAt(Judged(frame, holds), env)
      BY <1>2, <1>3, <2>1 DEF FrameAt
    <2>3. ASSUME NEW first, NEW values, FramePassed(frame, first, values),
                 Holds(r[a].criteria[n], first, values)
          PROVE  FramePassed(Judged(frame, holds), first, values)
      <3>1. \A j \in 1 .. a - 1 : ~AllHold(r[j].criteria, first, values)
        BY <1>2, <2>3 DEF FramePassed
      <3>2. \A m \in 1 .. (n + 1) - 1 : Holds(r[a].criteria[m], first, values)
        BY <1>2, <1>3, <2>3 DEF FramePassed
      <3> QED
        BY <2>1, <3>1, <3>2 DEF FramePassed
    <2> QED
      BY <1>2, <1>4, <2>2, <2>3
  <1>5. CASE ~holds
    <2>1. Judged(frame, holds) = [config |-> c, rules |-> r, at |-> a + 1, criterion |-> 1]
      BY <1>1, <1>5 DEF Judged
    <2>2. FrameAt(Judged(frame, holds), env)
      <3>1. a + 1 \in 1 .. Len(r) => Len(r[a + 1].criteria) \in Nat
        BY <1>2, CriterionOfConfig DEF IsList
      <3> QED
        BY <1>2, <2>1, <3>1 DEF FrameAt
    <2>3. ASSUME NEW first, NEW values, FramePassed(frame, first, values),
                 ~Holds(r[a].criteria[n], first, values)
          PROVE  FramePassed(Judged(frame, holds), first, values)
      <3>1. ~AllHold(r[a].criteria, first, values)
        BY <1>3, <2>3 DEF AllHold
      <3>2. \A j \in 1 .. (a + 1) - 1 : ~AllHold(r[j].criteria, first, values)
        BY <1>2, <2>3, <3>1 DEF FramePassed
      <3> QED
        BY <2>1, <3>2 DEF FramePassed
    <2> QED
      BY <1>2, <1>5, <2>2, <2>3
  <1> QED
    BY <1>4, <1>5

\* An evaluation that ends takes the rule that its config means.
LEMMA FinishedFrame ==
    ASSUME NEW frame, IsEvaluation(frame), IsConfig(frame.config), frame.config # NoConfig,
           NEW env, FrameAt(frame, env), NEW first, NEW values,
           FramePassed(frame, first, values)
    PROVE  LET rule == Meant(frame.config, env, first, values)
           IN  /\ /\ frame.at \in DOMAIN frame.rules
                  /\ frame.criterion > Len(frame.rules[frame.at].criteria)
                  => Stands(frame.rules[frame.at], rule)
               /\ frame.at > Len(frame.rules) => Stands(NoRule, rule)
  <1>1. PICK r : r = frame.rules
    OBVIOUS
  <1>2. DOMAIN r = 1 .. Len(r) /\ Len(r) \in Nat /\ frame.at \in Nat
    BY <1>1 DEF IsEvaluation, IsList, FrameAt
  <1>3. PICK a \in Nat : a = frame.at
    BY <1>2
  <1>4. a <= Len(r) + 1 /\ \A j \in 1 .. a - 1 : ~AllHold(r[j].criteria, first, values)
    BY <1>1, <1>3 DEF FrameAt, FramePassed
  <1>5. ASSUME a \in DOMAIN r, frame.criterion > Len(r[a].criteria)
        PROVE  Stands(r[a], Meant(frame.config, env, first, values))
    <2>1. IsList(r[a].criteria)
      BY <1>1, <1>5, CriterionOfConfig
    <2>2. \A n \in 1 .. Len(r[a].criteria) : n \in 1 .. frame.criterion - 1
      BY <1>1, <1>3, <1>5, <2>1 DEF FrameAt, IsList
    <2>3. AllHold(r[a].criteria, first, values)
      BY <1>1, <1>3, <1>5, <2>1, <2>2 DEF FramePassed, AllHold, IsList
    <2>4. a \in Nat \ {0} /\ a <= Len(r) /\ r = Rules(frame.config, env)
      BY <1>1, <1>2, <1>3, <1>5 DEF FrameAt
    <2> QED
      BY <1>4, <2>3, <2>4, RuleIsMeant DEF Stands
  <1>6. ASSUME a > Len(r)
        PROVE  Stands(NoRule, Meant(frame.config, env, first, values))
    <2>1. a \in Nat \ {0} /\ ~(a <= Len(r)) /\ r = Rules(frame.config, env)
      BY <1>1, <1>2, <1>3, <1>6 DEF FrameAt
    <2> QED
      BY <1>4, <2>1, RuleIsMeant DEF Stands
  <1> QED
    BY <1>1, <1>3, <1>5, <1>6

-----------------------------------------------------------------------------
\* What a step reads

LEMMA EnvStays ==
    ASSUME SafeInv, [Next]_vars
    PROVE  GetProjectEnvID' = GetProjectEnvID
  <1>1. api \in ApiContents /\ api' \in ApiContents
    BY CallVariablesStay DEF SafeInv, CallInv
  <1>2. /\ DOMAIN Contents' = DOMAIN Contents
        /\ \A i \in DOMAIN Contents : Contents'[i].projectEnvID = Contents[i].projectEnvID
    BY <1>1, StoresAssumption DEF Contents, StoresWith
  <1> DEFINE Having == { i \in DOMAIN Contents : Contents[i].projectEnvID # 0 }
             Having1 == { i \in DOMAIN Contents' : Contents'[i].projectEnvID # 0 }
  <1>3. Having1 = Having
    BY <1>2
  <1>4. CASE Having = {}
    BY <1>3, <1>4 DEF GetProjectEnvID
  <1>5. CASE Having # {}
    <2>1. Having \in SUBSET Nat
      BY StoresAssumption DEF Contents, StoresWith, IsList
    <2>2. Min(Having) \in Having
      <3> HIDE DEF Having
      <3> QED
        BY <1>5, <2>1, MinIsLeast
    <2>3. PICK m : m = Min(Having)
      OBVIOUS
    <2>4. Contents'[m].projectEnvID = Contents[m].projectEnvID
      BY <1>2, <2>2, <2>3
    <2>5. GetProjectEnvID = Contents[m].projectEnvID
      BY <1>5, <2>3 DEF GetProjectEnvID
    <2>6. GetProjectEnvID' = Contents'[m].projectEnvID
      <3>1. GetProjectEnvID' = IF Having1 = {} THEN 0 ELSE Contents'[Min(Having1)].projectEnvID
        BY DEF GetProjectEnvID
      <3> HIDE DEF Having, Having1
      <3> QED
        BY <1>3, <1>5, <2>3, <3>1
    <2> QED
      BY <2>4, <2>5, <2>6
  <1> QED
    BY <1>4, <1>5

\* What has been read stays so.
ReadGrows ==
    /\ ReadInv'
    /\ \A k \in Key : read.configs[k] \subseteq read'.configs[k]
    /\ \A p \in Property : read.values[p] \subseteq read'.values[p]

LEMMA ReadingConfig ==
    ASSUME ReadInv, NEW k \in Key, ReadConfig(k)
    PROVE  ReadGrows /\ GetConfig(k) \in read'.configs[k]
  <1>1. PICK c, v : read = [configs |-> c, values |-> v] /\ c = read.configs /\ v = read.values
    BY DEF ReadInv
  <1>2. PICK S : S = c[k] \cup {GetConfig(k)}
    OBVIOUS
  <1>3. read' = [configs |-> [c EXCEPT ![k] = S], values |-> v]
    BY <1>1, <1>2 DEF ReadConfig
  <1>4. IsFiniteSet(S)
    BY <1>1, <1>2, FS_AddElement DEF ReadInv
  <1>5. /\ read'.configs = [c EXCEPT ![k] = S] /\ read'.values = v
        /\ DOMAIN c = Key
    BY <1>1, <1>3 DEF ReadInv
  <1>6. ReadInv'
    BY <1>1, <1>3, <1>4, <1>5 DEF ReadInv
  <1> QED
    BY <1>1, <1>2, <1>5, <1>6 DEF ReadGrows

LEMMA ReadingValue ==
    ASSUME ReadInv, NEW p \in Property, NEW x,
           read' = [read EXCEPT !.values[p] = @ \cup {x}]
    PROVE  ReadGrows /\ x \in read'.values[p]
  <1>1. PICK c, v : read = [configs |-> c, values |-> v] /\ c = read.configs /\ v = read.values
    BY DEF ReadInv
  <1>2. PICK S, V : S = v[p] \cup {x} /\ V = [v EXCEPT ![p] = S]
    OBVIOUS
  <1>3. read' = [configs |-> c, values |-> V]
    BY <1>1, <1>2
  <1>4. IsFiniteSet(S)
    BY <1>1, <1>2, FS_AddElement DEF ReadInv
  <1>5. read'.configs = c /\ read'.values = V
    BY <1>3
  <1>6. DOMAIN v = Property /\ DOMAIN c = Key
    BY <1>1 DEF ReadInv
  <1>7. ReadInv'
    BY <1>1, <1>2, <1>3, <1>4, <1>5, <1>6 DEF ReadInv
  <1> QED
    BY <1>1, <1>2, <1>5, <1>6, <1>7 DEF ReadGrows

LEMMA ReadingNothing ==
    ASSUME ReadInv, read' = read
    PROVE  ReadGrows
  BY DEF ReadGrows, ReadInv

\* What is consistent with more is so with less.
LEMMA ConsistentBefore ==
    ASSUME SafeInv, [Next]_vars, ReadGrows, NEW first, NEW values,
           Consistent(first, values)'
    PROVE  Consistent(first, values)
  BY EnvStays DEF ReadGrows, Consistent

-----------------------------------------------------------------------------
\* What the steps keep

LEMMA AskedIsKey ==
    ASSUME SafeInv, WaitInv, NEW i \in 1 .. Len(stack) - 1
    PROVE  Asked(stack[i]) \in Key
  <1>1. Waits(stack[i])
    BY DEF WaitInv
  <1>2. i \in DOMAIN stack
    BY DEF SafeInv, CallInv
  <1>3. IsEvaluation(stack[i]) /\ IsConfig(stack[i].config)
    BY <1>2, StoredIsConfig DEF SafeInv, FrameInv
  <1> QED
    BY <1>1, <1>3, NamedSegment DEF Asked, Segments

LEMMA WantedIsKey ==
    ASSUME SafeInv, Evaluating
    PROVE  Wanted \in Key
  BY SecretIsKey DEF Wanted, SafeInv, CallInv, Evaluating

\* The links that were there remain.
LEMMA LinksStay ==
    ASSUME SafeInv, WaitInv, LinkInv, ReadGrows, UNCHANGED <<pc, key, original>>, Evaluating
    PROVE  /\ Wanted' = Wanted /\ stack[1].config \in read'.configs[Wanted]
           /\ \A i \in 1 .. Len(stack) - 1 :
                 stack[i + 1].config \in read'.configs[Asked(stack[i])]
  <1>1. Wanted' = Wanted
    BY DEF Wanted, Original
  <1>2. stack[1].config \in read'.configs[Wanted]
    BY WantedIsKey DEF LinkInv, ReadGrows, SafeInv, CallInv
  <1> QED
    BY <1>1, <1>2, AskedIsKey DEF LinkInv, ReadGrows

\* Nothing of the call changes but the innermost evaluations and what it has read.
LEMMA MatchStays ==
    ASSUME SafeInv, MeansInv, [Next]_vars, ReadGrows, Evaluating,
           UNCHANGED <<pc, key, original, secret>>,
           NEW first, NEW values, Consistent(first, values)'
    PROVE  MatchMeans(first, values)' /\ FramesPassed(first, values)
  <1>1. Consistent(first, values)
    BY ConsistentBefore
  <1>2. Means(first, values)
    BY <1>1 DEF MeansInv
  <1> QED
    BY <1>2 DEF Means, MatchMeans, Evaluating, Original

LEMMA FrameMoves ==
    ASSUME SafeInv, WaitInv, MeansInv, [Next]_vars, ReadGrows, Evaluating,
           UNCHANGED <<pc, key, original, secret>>,
           NEW n \in 1 .. Len(stack), NEW frame,
           frame.config = stack[n].config,
           stack' = Append(SubSeq(stack, 1, n - 1), frame),
           FrameAt(frame, GetProjectEnvID),
           \A first, values :
               Consistent(first, values)' /\ FramesPassed(first, values)
                 => FramePassed(frame, first, values)
    PROVE  MeansInv'
  <1>1. PICK Elements : stack \in Seq(Elements)
    BY DEF SafeInv, CallInv
  <1>2. /\ DOMAIN stack' = 1 .. n /\ Len(stack') = n
        /\ \A i \in 1 .. n - 1 : stack'[i] = stack[i]
        /\ stack'[n] = frame
    BY <1>1, Replaced
  <1>3. Len(stack) \in Nat /\ DOMAIN stack = 1 .. Len(stack) /\ stack # <<>>
    BY <1>1 DEF SafeInv, CallInv
  <1>4. LinkInv'
    <2>1. stack'[1].config = stack[1].config
      BY <1>2, <1>3
    <2>2. ASSUME NEW i \in 1 .. n - 1
          PROVE  /\ i \in 1 .. Len(stack) - 1 /\ stack'[i] = stack[i]
                 /\ stack'[i + 1].config = stack[i + 1].config
      <3>1. i + 1 \in 1 .. n /\ i \in 1 .. Len(stack) - 1
        BY <1>3
      <3> QED
        BY <1>2, <3>1
    <2> QED
      BY <1>2, <2>1, <2>2, LinksStay DEF LinkInv, MeansInv
  <1>5. FramesAt'
    BY <1>2, <1>3, EnvStays DEF FramesAt, MeansInv
  <1>6. ASSUME NEW first, NEW values, Consistent(first, values)'
        PROVE  Means(first, values)'
    <2>1. MatchMeans(first, values)' /\ FramesPassed(first, values)
      BY <1>6, MatchStays
    <2>2. FramePassed(frame, first, values)
      BY <1>6, <2>1
    <2>3. FramesPassed(first, values)'
      BY <1>2, <1>3, <2>1, <2>2 DEF FramesPassed
    <2> QED
      BY <2>1, <2>3 DEF Means
  <1> QED
    BY <1>4, <1>5, <1>6 DEF MeansInv, ReadGrows, Evaluating

\* The evaluation of a segment begins on top.
LEMMA FrameIsPushed ==
    ASSUME SafeInv, WaitInv, MeansInv, [Next]_vars, ReadGrows, Evaluating,
           UNCHANGED <<pc, key, original, secret>>,
           NEW config, config \in read'.configs[Asked(Top)],
           stack' = Append(stack, Evaluation(config))
    PROVE  MeansInv'
  <1>1. PICK Elements : stack \in Seq(Elements)
    BY DEF SafeInv, CallInv
  <1> DEFINE n == Len(stack)
             frame == Evaluation(config)
  <1>2. /\ DOMAIN stack' = 1 .. n + 1 /\ Len(stack') = n + 1
        /\ \A i \in 1 .. n : stack'[i] = stack[i]
        /\ stack'[n + 1] = frame
    <2> HIDE DEF frame
    <2> QED
      BY <1>1, Pushed DEF frame
  <1>3. n \in Nat /\ n > 0 /\ DOMAIN stack = 1 .. n /\ stack # <<>> /\ Top = stack[n]
    BY TopOfStack DEF SafeInv, CallInv
  <1>4. frame.config = config
    BY FreshEvaluation
  <1> HIDE DEF frame, n
  <1>5. LinkInv'
    <2>1. stack'[1].config = stack[1].config
      BY <1>2, <1>3
    <2>2. ASSUME NEW i \in 1 .. n
          PROVE  stack'[i + 1].config \in read'.configs[Asked(stack'[i])]
      <3>1. CASE i = n
        BY <1>2, <1>3, <1>4, <3>1
      <3>2. CASE i # n
        <4>1. i \in 1 .. n - 1 /\ i + 1 \in 1 .. n
          BY <1>3, <3>2
        <4> QED
          BY <1>2, <4>1, LinksStay DEF MeansInv, n
      <3> QED
        BY <3>1, <3>2
    <2> QED
      BY <1>2, <1>3, <2>1, <2>2, LinksStay DEF LinkInv, MeansInv
  <1>6. FramesAt'
    BY <1>2, <1>3, EnvStays, FreshFrame DEF FramesAt, MeansInv, frame
  <1>7. ASSUME NEW first, NEW values, Consistent(first, values)'
        PROVE  Means(first, values)'
    <2>1. MatchMeans(first, values)' /\ FramesPassed(first, values)
      BY <1>7, MatchStays
    <2>2. FramesPassed(first, values)'
      BY <1>2, <1>3, <2>1, FreshFrame DEF FramesPassed, frame
    <2> QED
      BY <2>1, <2>2 DEF Means
  <1> QED
    BY <1>5, <1>6, <1>7 DEF MeansInv, ReadGrows, Evaluating

\* The first evaluation begins.
LEMMA FrameBegins ==
    ASSUME SafeInv, MeansInv, [Next]_vars, ReadGrows, pc' \in {"evaluate", "secret"},
           NEW config, config \in read'.configs[Wanted'],
           stack' = <<Evaluation(config)>>,
           UNCHANGED <<key, original>>,
           pc' = "secret" => pc = "resolve"
    PROVE  MeansInv'
  <1>1. PICK frame : frame = Evaluation(config)
    OBVIOUS
  <1>2. DOMAIN stack' = 1 .. 1 /\ Len(stack') = 1 /\ stack'[1] = frame /\ stack' # <<>>
    BY <1>1
  <1>3. LinkInv'
    BY <1>1, <1>2, FreshEvaluation DEF LinkInv
  <1>4. FramesAt'
    BY <1>1, <1>2, FreshFrame DEF FramesAt
  <1>5. ASSUME NEW first, NEW values, Consistent(first, values)'
        PROVE  Means(first, values)'
    <2>1. Consistent(first, values)
      BY <1>5, ConsistentBefore
    <2>2. MatchMeans(first, values)'
      BY <2>1 DEF MeansInv, Means, MatchMeans
    <2>3. FramesPassed(first, values)'
      BY <1>1, <1>2, FreshFrame DEF FramesPassed
    <2> QED
      BY <2>2, <2>3 DEF Means
  <1> QED
    BY <1>3, <1>4, <1>5 DEF MeansInv, ReadGrows

\* No evaluation is under way.
LEMMA NothingEvaluated ==
    ASSUME SafeInv, MeansInv, [Next]_vars, ReadInv', stack' = <<>>,
           (pc = "lookup" => original = NoRule)',
           \A first, values : Consistent(first, values)' => MatchMeans(first, values)'
    PROVE  MeansInv'
  <1>1. DOMAIN stack' = {} /\ Len(stack') = 0
    OBVIOUS
  <1> QED
    BY <1>1 DEF MeansInv, LinkInv, FramesAt, Means, FramesPassed

-----------------------------------------------------------------------------
\* The actions

LEMMA TopIsAt ==
    ASSUME SafeInv, MeansInv, Evaluating
    PROVE  /\ FrameAt(Top, GetProjectEnvID)
           /\ \A first, values :
                 FramesPassed(first, values) => FramePassed(Top, first, values)
           /\ Top.config \in read.configs[IF Len(stack) = 1 THEN Wanted
                                          ELSE Asked(stack[Len(stack) - 1])]
           /\ Top.config # NoConfig
  <1>1. /\ Len(stack) \in Nat /\ Len(stack) \in DOMAIN stack /\ Top = stack[Len(stack)]
        /\ stack # <<>>
    BY TopOfStack DEF SafeInv, CallInv
  <1>2. CASE Len(stack) = 1
    BY <1>1, <1>2, TopOfStack DEF MeansInv, FramesAt, FramesPassed, LinkInv, StoredConfig
  <1>3. CASE Len(stack) # 1
    <2>1. Len(stack) - 1 \in 1 .. Len(stack) - 1 /\ (Len(stack) - 1) + 1 = Len(stack)
      BY <1>1, <1>3, TopOfStack
    <2>2. stack[Len(stack)].config \in read.configs[Asked(stack[Len(stack) - 1])]
      BY <2>1 DEF MeansInv, LinkInv
    <2> QED
      BY <1>1, <1>3, <2>2, TopOfStack DEF MeansInv, FramesAt, FramesPassed, StoredConfig
  <1> QED
    BY <1>2, <1>3

\* The innermost evaluation takes the place of itself.
LEMMA TopIsReplaced ==
    ASSUME SafeInv, Evaluating, NEW frame, stack' = WithTop(frame)
    PROVE  /\ Len(stack) \in 1 .. Len(stack) /\ Top = stack[Len(stack)]
           /\ stack' = Append(SubSeq(stack, 1, Len(stack) - 1), frame)
  BY TopOfStack DEF WithTop, Front

LEMMA SelectRowsMeans ==
    ASSUME SafeInv, WaitInv, MeansInv, SelectRows
    PROVE  MeansInv'
  <1>1. PICK frame :
            frame = [Top EXCEPT !.rules = Rules(Top.config, GetProjectEnvID), !.at = 1]
    OBVIOUS
  <1>2. /\ Evaluating /\ Top.at = 0 /\ stack' = WithTop(frame)
        /\ UNCHANGED <<pc, key, original, secret, read>>
    BY <1>1 DEF SelectRows
  <1>3. IsEvaluation(frame) /\ frame.config = Top.config
    BY <1>1, <1>2, TopOfStack, SelectedEvaluation
  <1>4. /\ FrameAt(frame, GetProjectEnvID)
        /\ \A first, values : FramePassed(frame, first, values)
    BY <1>1, <1>2, TopIsAt, TopOfStack, SelectedFrame
  <1>5. [Next]_vars /\ ReadGrows
    BY <1>2, ReadingNothing DEF Next, ResolveValue, EvaluateConfig, MeansInv
  <1> QED
    BY <1>2, <1>3, <1>4, <1>5, TopIsReplaced, FrameMoves

\* At a criterion its verdict moves the innermost evaluation on.
LEMMA VerdictMeans ==
    ASSUME SafeInv, WaitInv, MeansInv, [Next]_vars, AtCriterion, ReadGrows,
           NEW holds, stack' = WithTop(Judged(Top, holds)),
           UNCHANGED <<pc, key, original, secret>>,
           \A first, values : Consistent(first, values)' =>
               (holds <=> Holds(Criterion, first, values))
    PROVE  MeansInv'
  <1>1. /\ Evaluating
        /\ Top.at \in DOMAIN Top.rules /\ Top.criterion \in DOMAIN Top.rules[Top.at].criteria
        /\ Criterion = Top.rules[Top.at].criteria[Top.criterion]
    BY DEF AtCriterion, Rule, Criterion
  <1>2. PICK frame : frame = Judged(Top, holds)
    OBVIOUS
  <1>3. IsEvaluation(frame) /\ frame.config = Top.config
    BY <1>1, <1>2, TopOfStack, JudgedEvaluation
  <1>4. /\ FrameAt(frame, GetProjectEnvID)
        /\ \A first, values :
              /\ FramePassed(Top, first, values)
              /\ holds <=> Holds(Criterion, first, values)
              => FramePassed(frame, first, values)
    BY <1>1, <1>2, TopIsAt, TopOfStack, JudgedFrame
  <1>5. \A first, values :
            Consistent(first, values)' /\ FramesPassed(first, values)
              => FramePassed(frame, first, values)
    BY <1>1, <1>4, TopIsAt
  <1> QED
    BY <1>1, <1>2, <1>3, <1>4, <1>5, TopIsReplaced, FrameMoves

LEMMA PropertyMeans ==
    ASSUME SafeInv, WaitInv, MeansInv, EvaluatePropertyCriterion
    PROVE  MeansInv'
  <1>1. PICK v :
            /\ stack' = WithTop(Judged(Top, EvaluateCriterion(Criterion.op, v, Criterion.match)))
            /\ read' = [read EXCEPT !.values[Criterion.property] = @ \cup {v}]
    BY DEF EvaluatePropertyCriterion
  <1>2. /\ AtCriterion /\ Criterion.op \notin SegmentOps
        /\ UNCHANGED <<pc, key, original, secret>>
    BY DEF EvaluatePropertyCriterion
  <1>3. Criterion.property \in Property
    BY <1>2, TopOfStack, CriterionOfConfig DEF AtCriterion, Rule, Criterion
  <1>4. ReadGrows /\ v \in read'.values[Criterion.property]
    BY <1>1, <1>3, ReadingValue DEF MeansInv
  <1>5. ASSUME NEW first, NEW values, Consistent(first, values)'
        PROVE  EvaluateCriterion(Criterion.op, v, Criterion.match)
                 <=> Holds(Criterion, first, values)
    <2>1. values[Criterion.property] = v
      BY <1>3, <1>4, <1>5 DEF Consistent
    <2> QED
      BY <1>2, <2>1 DEF Holds
  <1>6. [Next]_vars
    BY DEF Next, ResolveValue, EvaluateConfig
  <1> QED
    BY <1>1, <1>2, <1>4, <1>5, <1>6, VerdictMeans

LEMMA EnterSegmentMeans ==
    ASSUME SafeInv, WaitInv, MeansInv, EnterSegment
    PROVE  MeansInv'
  <1> DEFINE name == Criterion.match.is
  <1>1. /\ AtCriterion /\ Evaluating /\ Criterion.op \in SegmentOps
        /\ ReadConfig(name)
        /\ UNCHANGED <<pc, key, original, secret>>
    BY DEF EnterSegment, AtCriterion
  <1>2. name \in Key /\ Asked(Top) = name
    BY <1>1, TopOfStack, CriterionOfConfig DEF AtCriterion, Rule, Criterion, Asked
  <1>3. ReadGrows /\ GetConfig(name) \in read'.configs[name]
    BY <1>1, <1>2, ReadingConfig DEF MeansInv
  <1>4. [Next]_vars
    BY DEF Next, ResolveValue, EvaluateConfig
  <1>5. CASE GetConfig(name) = NoConfig
    <2>1. stack' = WithTop(Judged(Top, Criterion.op = "NOT_IN_SEG"))
      BY <1>5 DEF EnterSegment
    <2>2. ASSUME NEW first, NEW values, Consistent(first, values)'
          PROVE  Criterion.op = "NOT_IN_SEG" <=> Holds(Criterion, first, values)
      <3>1. first[name] = NoRule
        <4>1. PICK env : first[name] = Meant(NoConfig, env, first, values)
          BY <1>2, <1>3, <1>5, <2>2 DEF Consistent
        <4> QED
          BY <4>1, MeantOfNone
      <3>2. first[name].value.kind # "bool"
        BY <3>1 DEF NoRule, NoValue, Plain
      <3> QED
        BY <1>1, <3>2 DEF Holds, SegmentOps
    <2> QED
      BY <1>1, <1>3, <1>4, <2>1, <2>2, VerdictMeans
  <1>6. CASE GetConfig(name) # NoConfig
    <2>1. stack' = Append(stack, Evaluation(GetConfig(name)))
      BY <1>6 DEF EnterSegment
    <2> QED
      BY <1>1, <1>2, <1>3, <1>4, <2>1, FrameIsPushed
  <1> QED
    BY <1>5, <1>6

LEMMA LookupMeans ==
    ASSUME SafeInv, MeansInv, LookupConfig
    PROVE  MeansInv'
  <1>1. pc = "lookup" /\ ReadConfig(key) /\ key \in Key /\ key' = key /\ stack = <<>>
    BY DEF LookupConfig, Return, SafeInv, CallInv, Evaluating
  <1>2. ReadGrows /\ GetConfig(key) \in read'.configs[key]
    BY <1>1, ReadingConfig DEF MeansInv
  <1>3. [Next]_vars
    BY DEF Next, ResolveValue
  <1>4. CASE GetConfig(key) = NoConfig
    <2>1. Return("config does not exist", NoValue, 0)
      BY <1>4 DEF LookupConfig
    <2>2. pc' = "idle" /\ stack' = <<>> /\ UNCHANGED <<key, original>> /\ original = NoRule
      BY <1>1, <2>1 DEF Return, MeansInv
    <2>3. ASSUME NEW first, NEW values, Consistent(first, values)'
          PROVE  MatchMeans(first, values)'
      <3>1. PICK env : first[key] = Meant(NoConfig, env, first, values)
        BY <1>1, <1>2, <1>4, <2>3 DEF Consistent
      <3>2. first[key] = NoRule
        BY <3>1, MeantOfNone
      <3> QED
        BY <2>2, <3>2 DEF MatchMeans, Stands
    <2> QED
      BY <1>2, <1>3, <2>2, <2>3, NothingEvaluated DEF ReadGrows
  <1>5. CASE GetConfig(key) # NoConfig
    <2>1. /\ pc' = "evaluate" /\ stack' = <<Evaluation(GetConfig(key))>>
          /\ UNCHANGED <<key, original>>
      BY <1>5 DEF LookupConfig
    <2>2. Wanted' = key
      BY <2>1 DEF Wanted
    <2> QED
      BY <1>2, <1>3, <2>1, <2>2, FrameBegins
  <1> QED
    BY <1>4, <1>5

\* How the match of a segment is taken is what the criterion on it means.
LEMMA SegmentHolds ==
    ASSUME NEW criterion, criterion.op \in SegmentOps, NEW match, NEW first, NEW values,
           match.value = first[criterion.match.is].value
    PROVE  InSegment(criterion.op, match) <=> Holds(criterion, first, values)
  <1>1. CASE match.value.kind = "bool"
    BY <1>1 DEF InSegment, Holds, SegmentOps
  <1>2. CASE match.value.kind # "bool"
    BY <1>2 DEF InSegment, Holds, SegmentOps
  <1> QED
    BY <1>1, <1>2

\* An evaluation ends with what its config means.
LEMMA ReturnMeans ==
    ASSUME SafeInv, WaitInv, MeansInv, [Next]_vars, Evaluating, NEW match,
           EvaluateConfigReturns(match),
           \A first, values : Consistent(first, values) =>
               Stands(match, Meant(Top.config, GetProjectEnvID, first, values))
    PROVE  MeansInv'
  <1> DEFINE n == Len(stack)
  <1>1. /\ UNCHANGED <<key, read>> /\ ReadGrows
        /\ n \in Nat /\ n > 0 /\ DOMAIN stack = 1 .. n
        /\ \E Elements : stack \in Seq(Elements)
    BY TopOfStack, ReadingNothing DEF EvaluateConfigReturns, MeansInv, SafeInv, CallInv
  <1>2. ASSUME NEW first, NEW values, Consistent(first, values)'
        PROVE  /\ Consistent(first, values)
               /\ Stands(match, Meant(Top.config, GetProjectEnvID, first, values))
    BY <1>1, <1>2, ConsistentBefore
  <1>3. CASE n > 1
    <2> DEFINE m == n - 1
    <2>1. PICK below : below = stack[m]
      OBVIOUS
    <2>2. PICK asked : asked = below.rules[below.at].criteria[below.criterion]
      OBVIOUS
    <2>3. PICK frame : frame = Judged(below, InSegment(asked.op, match))
      OBVIOUS
    <2>4. /\ m \in 1 .. n /\ m \in 1 .. n - 1 /\ m \in DOMAIN stack /\ n # 1
          /\ m - 1 = n - 2
      <3> HIDE DEF n
      <3> QED
        BY <1>1, <1>3
    <2>5. /\ stack' = Append(SubSeq(stack, 1, m - 1), frame)
          /\ UNCHANGED <<pc, original, secret>>
      BY <1>3, <2>1, <2>2, <2>3, <2>4 DEF EvaluateConfigReturns
    <2>6. Waits(below) /\ IsEvaluation(below) /\ IsConfig(below.config)
          /\ FrameAt(below, GetProjectEnvID)
      BY <2>1, <2>4, StoredIsConfig
      DEF WaitInv, SafeInv, FrameInv, MeansInv, FramesAt
    <2>7. /\ below.at \in DOMAIN below.rules
          /\ below.criterion \in DOMAIN below.rules[below.at].criteria
          /\ asked.op \in SegmentOps
      BY <2>2, <2>6 DEF Waits
    <2>8. asked.match.is \in Key /\ asked.match.is = Asked(below)
      BY <2>1, <2>2, <2>4, AskedIsKey DEF Asked
    <2>9. Top.config \in read.configs[asked.match.is]
      <3> HIDE DEF n
      <3> QED
        BY <2>1, <2>4, <2>8, TopIsAt DEF n
    <2>10. /\ frame.config = below.config
           /\ FrameAt(frame, GetProjectEnvID)
           /\ \A first, values :
                 /\ FramePassed(below, first, values)
                 /\ InSegment(asked.op, match) <=> Holds(asked, first, values)
                 => FramePassed(frame, first, values)
      BY <2>2, <2>3, <2>6, <2>7, JudgedEvaluation, JudgedFrame
    <2>11. ASSUME NEW first, NEW values, Consistent(first, values)', FramesPassed(first, values)
           PROVE  FramePassed(frame, first, values)
      <3>1. first[asked.match.is] = Meant(Top.config, GetProjectEnvID, first, values)
        BY <1>2, <2>8, <2>9, <2>11 DEF Consistent
      <3>2. match.value = first[asked.match.is].value
        BY <1>2, <2>11, <3>1 DEF Stands
      <3>3. InSegment(asked.op, match) <=> Holds(asked, first, values)
        BY <2>7, <3>2, SegmentHolds
      <3>4. FramePassed(below, first, values)
        BY <2>1, <2>4, <2>11 DEF FramesPassed
      <3> QED
        BY <2>10, <3>3, <3>4
    <2> HIDE DEF n, m
    <2>12. m \in 1 .. Len(stack) /\ frame.config = stack[m].config
      BY <2>1, <2>4, <2>10 DEF n
    <2> QED
      BY <1>1, <2>5, <2>10, <2>11, <2>12, FrameMoves
  <1>4. CASE n = 1
    <2>1. Top.config \in read.configs[Wanted] /\ Wanted \in Key
      BY <1>4, TopIsAt, WantedIsKey
    <2>2. ASSUME NEW first, NEW values, Consistent(first, values)'
          PROVE  Stands(match, first[Wanted]) /\ Means(first, values)
      BY <1>2, <2>1, <2>2 DEF Consistent, MeansInv
    <2>3. \/ /\ pc = "evaluate" /\ pc' = "resolve" /\ original' = match /\ secret' = secret
          \/ /\ pc = "secret" /\ pc' = "decrypt" /\ secret' = match /\ original' = original
      BY <1>4 DEF EvaluateConfigReturns
    <2>4. stack' = <<>>
      BY <1>4 DEF EvaluateConfigReturns
    <2>5. ASSUME NEW first, NEW values, Consistent(first, values)'
          PROVE  MatchMeans(first, values)'
      <3>1. Stands(match, first[Wanted]) /\ MatchMeans(first, values)
        BY <2>2, <2>5 DEF Means
      <3>2. CASE pc = "evaluate"
        BY <1>1, <2>3, <3>1, <3>2 DEF MatchMeans, Wanted
      <3>3. CASE pc = "secret"
        BY <1>1, <2>3, <3>1, <3>3 DEF MatchMeans, Wanted, Stands, Original
      <3> QED
        BY <2>3, <3>2, <3>3
    <2> QED
      BY <1>1, <2>3, <2>4, <2>5, NothingEvaluated DEF ReadGrows
  <1> QED
    BY <1>1, <1>3, <1>4

LEMMA RuleMatchesMeans ==
    ASSUME SafeInv, WaitInv, MeansInv, RuleMatches
    PROVE  MeansInv'
  <1>1. /\ Evaluating /\ Top.at \in DOMAIN Top.rules /\ Rule = Top.rules[Top.at]
        /\ Top.criterion > Len(Rule.criteria)
        /\ EvaluateConfigReturns(Match(Rule))
    BY DEF RuleMatches, Rule
  <1>2. ASSUME NEW first, NEW values, Consistent(first, values)
        PROVE  Stands(Match(Rule), Meant(Top.config, GetProjectEnvID, first, values))
    <2>1. FramePassed(Top, first, values)
      BY <1>1, <1>2, TopIsAt DEF MeansInv, Means
    <2>2. Stands(Rule, Meant(Top.config, GetProjectEnvID, first, values))
      BY <1>1, <2>1, TopIsAt, TopOfStack, FinishedFrame
    <2> QED
      BY <2>2 DEF Stands, Match
  <1>3. [Next]_vars
    BY DEF Next, ResolveValue, EvaluateConfig
  <1> QED
    BY <1>1, <1>2, <1>3, ReturnMeans

LEMMA NoRuleMatchesMeans ==
    ASSUME SafeInv, WaitInv, MeansInv, NoRuleMatches
    PROVE  MeansInv'
  <1>1. Evaluating /\ Top.at > Len(Top.rules) /\ EvaluateConfigReturns(NoRule)
    BY DEF NoRuleMatches
  <1>2. ASSUME NEW first, NEW values, Consistent(first, values)
        PROVE  Stands(NoRule, Meant(Top.config, GetProjectEnvID, first, values))
    <2>1. FramePassed(Top, first, values)
      BY <1>1, <1>2, TopIsAt DEF MeansInv, Means
    <2> QED
      BY <1>1, <2>1, TopIsAt, TopOfStack, FinishedFrame
  <1>3. [Next]_vars
    BY DEF Next, ResolveValue, EvaluateConfig
  <1> QED
    BY <1>1, <1>2, <1>3, ReturnMeans

LEMMA CallMeans ==
    ASSUME SafeInv, MeansInv, Call
    PROVE  MeansInv'
  <1>1. /\ pc' = "lookup" /\ original' = NoRule /\ read' = Nothing /\ stack' = <<>>
    BY DEF Call, SafeInv, CallInv, Evaluating
  <1>2. ReadInv'
    BY <1>1, FS_EmptySet DEF Nothing, ReadInv
  <1>3. [Next]_vars
    BY DEF Next
  <1> QED
    BY <1>1, <1>2, <1>3, NothingEvaluated DEF MatchMeans

\* The call ends, with what it had found and read.
LEMMA CallEndMeans ==
    ASSUME SafeInv, MeansInv, [Next]_vars, ReadGrows,
           pc \in {"resolve", "decrypt"}, pc' = "idle", stack' = <<>>,
           UNCHANGED <<key, original>>
    PROVE  MeansInv'
  <1>1. ASSUME NEW first, NEW values, Consistent(first, values)'
        PROVE  MatchMeans(first, values)'
    <2>1. MatchMeans(first, values)
      BY <1>1, ConsistentBefore DEF MeansInv, Means
    <2> QED
      BY <2>1 DEF MatchMeans
  <1> QED
    BY <1>1, NothingEvaluated DEF ReadGrows

LEMMA LookupSecretMeans ==
    ASSUME SafeInv, MeansInv, LookupSecret
    PROVE  MeansInv'
  <1> DEFINE name == Original.decryptWith
  <1>1. pc = "resolve" /\ NeedsDecryption /\ ReadConfig(name)
    BY DEF LookupSecret
  <1>2. name \in Key
    BY <1>1, SecretIsKey
  <1>3. ReadGrows /\ GetConfig(name) \in read'.configs[name]
    BY <1>1, <1>2, ReadingConfig DEF MeansInv
  <1>4. [Next]_vars
    BY DEF Next, ResolveValue, ResolveValueForConfig
  <1>5. CASE GetConfig(name) = NoConfig
    <2>1. Return("no config value exists", Original, 0)
      BY <1>5 DEF LookupSecret
    <2> QED
      BY <1>1, <1>3, <1>4, <2>1, CallEndMeans DEF Return
  <1>6. CASE GetConfig(name) # NoConfig
    <2>1. /\ pc' = "secret" /\ stack' = <<Evaluation(GetConfig(name))>>
          /\ UNCHANGED <<key, original>>
      BY <1>6 DEF LookupSecret
    <2>2. Wanted' = name
      BY <2>1 DEF Wanted, Original
    <2> QED
      BY <1>1, <1>3, <1>4, <2>1, <2>2, FrameBegins
  <1> QED
    BY <1>5, <1>6

LEMMA ResolvingMeans ==
    ASSUME SafeInv, MeansInv,
           ResolvePlain \/ ResolveWeightedValue \/ ResolveProvided \/ Decrypt
    PROVE  MeansInv'
  <1>1. /\ pc \in {"resolve", "decrypt"} /\ UNCHANGED read
        /\ \E error, match, variant : Return(error, match, variant)
    BY DEF ResolvePlain, ResolveWeightedValue, ResolveProvided, Decrypt
  <1>2. pc' = "idle" /\ stack' = <<>> /\ UNCHANGED <<key, original>>
    BY <1>1 DEF Return
  <1>3. [Next]_vars /\ ReadGrows
    BY <1>1, ReadingNothing DEF Next, ResolveValue, ResolveValueForConfig, MeansInv
  <1> QED
    BY <1>1, <1>2, <1>3, CallEndMeans

LEMMA OthersMean ==
    ASSUME SafeInv, MeansInv, UpdateApiStore \/ UNCHANGED vars
    PROVE  MeansInv'
  <1>1. UNCHANGED <<pc, key, passed, stack, original, secret, answer, read>>
    BY DEF UpdateApiStore, vars
  <1>2. GetProjectEnvID' = GetProjectEnvID
    BY EnvStays DEF Next
  <1> QED
    BY <1>1, <1>2
    DEF MeansInv, ReadInv, LinkInv, Wanted, Original, FramesAt, Consistent, Means,
        FramesPassed, MatchMeans

LEMMA MeansStays ==
    ASSUME SafeInv, WaitInv, MeansInv, [Next]_vars
    PROVE  MeansInv'
  BY SelectRowsMeans, PropertyMeans, EnterSegmentMeans, LookupMeans, RuleMatchesMeans,
     NoRuleMatchesMeans, CallMeans, LookupSecretMeans, ResolvingMeans, OthersMean
  DEF Next, ResolveValue, EvaluateConfig, ResolveValueForConfig

LEMMA MeansInvariant == Spec => []MeansInv
  <1>1. Init => WaitInv /\ MeansInv
    <2>1. DOMAIN <<>> = {} /\ Len(<<>>) = 0
      OBVIOUS
    <2> SUFFICES ASSUME Init
                 PROVE  WaitInv /\ MeansInv
      OBVIOUS
    <2>2. stack = <<>> /\ read = Nothing /\ pc = "idle"
      BY DEF Init
    <2>3. ReadInv
      BY <2>2, FS_EmptySet DEF Nothing, ReadInv
    <2>4. key \in Key /\ read.configs[key] = {}
      BY <2>2 DEF Init, Nothing
    <2> QED
      BY <2>1, <2>2, <2>3, <2>4
      DEF WaitInv, MeansInv, LinkInv, FramesAt, Means, FramesPassed, MatchMeans
  <1>2. SafeInv /\ WaitInv /\ MeansInv /\ [Next]_vars => WaitInv' /\ MeansInv'
    BY StackSteps, WaitStays, MeansStays
  <1> QED
    BY <1>1, <1>2, SafeInvariant, PTL DEF Spec

-----------------------------------------------------------------------------
\* The answer

LEMMA OnlyOne ==
    ASSUME NEW S, IsFiniteSet(S), Cardinality(S) <= 1, NEW x \in S, NEW y
    PROVE  Some(S, y) = x
  <1>1. Cardinality(S) \in Nat /\ Cardinality(S) # 0
    BY FS_CardinalityType, FS_EmptySet
  <1>2. Cardinality(S) = 1
    BY <1>1
  <1>3. PICK z : S = {z}
    BY <1>2, FS_Singleton
  <1> QED
    BY <1>3 DEF Some

\* A meaning of what was read in one version only is consistent with what was read.
LEMMA MeaningIsConsistent ==
    ASSUME MeansInv, ReadOnce, NEW first, IsMeaning(first)
    PROVE  Consistent(first, ValuesRead)
  <1>1. ASSUME NEW k \in Key, NEW config \in read.configs[k]
        PROVE  first[k] = Meant(config, GetProjectEnvID, first, ValuesRead)
    <2>1. ConfigRead(k) = config
      BY OnlyOne DEF ConfigRead, ReadOnce, MeansInv, ReadInv
    <2>2. first[k] = Meant(ConfigRead(k), GetProjectEnvID, first, ValuesRead)
      BY Zenon DEF IsMeaning
    <2> QED
      BY <2>1, <2>2
  <1>2. ASSUME NEW p \in Property, NEW v \in read.values[p]
        PROVE  ValuesRead[p] = v
    BY OnlyOne DEF ValuesRead, ReadOnce, MeansInv, ReadInv
  <1> QED
    BY <1>1, <1>2 DEF Consistent

\* AnswerIsTheMeaning (config_rule_evaluator.go:36-90, 234-252): a call that read each
\* config and each property in one version only took the rule that these mean, also
\* for the secret key, whatever the API store became in the meantime.
THEOREM RulesAreMeant == Spec => []AnswerIsTheMeaning
  <1>1. SafeInv /\ MeansInv => AnswerIsTheMeaning
    <2> SUFFICES ASSUME SafeInv, MeansInv, ReadOnce, pc \notin {"lookup", "evaluate"},
                        IsMeaning(Meaning)
                 PROVE  /\ read.configs[key] # {} => Stands(original, Meaning[key])
                        /\ pc = "decrypt" => secret.value = Meaning[Original.decryptWith].value
      BY DEF AnswerIsTheMeaning, Stands
    <2>1. MatchMeans(Meaning, ValuesRead)
      BY MeaningIsConsistent DEF MeansInv, Means
    <2> QED
      BY <2>1 DEF MatchMeans, SafeInv, CallInv
  <1> QED
    BY <1>1, SafeInvariant, MeansInvariant, PTL

-----------------------------------------------------------------------------
\* Meanings exist

\* What the configs mean depends on the segments that they name only.
SegmentsRead(k) == IF ConfigRead(k) = NoConfig THEN {} ELSE Segments(ConfigRead(k))

NoCirclesRead ==
    \A keys \in (SUBSET Key) \ {{}} : \E k \in keys : SegmentsRead(k) \cap keys = {}

LEMMA SameVerdicts ==
    ASSUME NEW config, IsConfig(config), NEW first, NEW other, NEW values,
           \A s \in Segments(config) : first[s] = other[s],
           NEW r \in DOMAIN config.rows, NEW i \in DOMAIN config.rows[r].values
    PROVE  AllHold(config.rows[r].values[i].criteria, first, values)
             <=> AllHold(config.rows[r].values[i].criteria, other, values)
  <1>1. PICK criteria : criteria = config.rows[r].values[i].criteria
    OBVIOUS
  <1>2. ASSUME NEW n \in DOMAIN criteria
        PROVE  Holds(criteria[n], first, values) <=> Holds(criteria[n], other, values)
    <2>1. CASE criteria[n].op \in SegmentOps
      <3>1. criteria[n].match.is \in Key
        BY <1>1, <2>1 DEF IsConfig, IsRule
      <3>2. criteria[n].match.is \in Segments(config)
        BY <1>1, <2>1, <3>1 DEF Segments
      <3> QED
        BY <3>2 DEF Holds
    <2>2. CASE criteria[n].op \notin SegmentOps
      BY <2>2 DEF Holds
    <2> QED
      BY <2>1, <2>2
  <1> QED
    BY <1>1, <1>2 DEF AllHold

LEMMA SameMeaning ==
    ASSUME NEW config, config = NoConfig \/ IsConfig(config), NEW envID,
           NEW first, NEW other, NEW values,
           config # NoConfig => \A s \in Segments(config) : first[s] = other[s]
    PROVE  Meant(config, envID, first, values) = Meant(config, envID, other, values)
  <1>1. CASE config = NoConfig
    BY <1>1 DEF Meant
  <1>2. CASE config # NoConfig
    <2> DEFINE rows     == config.rows
               Found(f, s) == { j \in DOMAIN rows[s].values :
                                  AllHold(rows[s].values[j].criteria, f, values) }
               IsFirst(s, e) == rows[s].env = e /\ \A j \in 1 .. s - 1 : rows[j].env # e
               Having(f, e) == { s \in DOMAIN rows : IsFirst(s, e) /\ Found(f, s) # {} }
               Earliest(f, s) == [index |-> Min(Found(f, s)) - 1,
                                  value |-> rows[s].values[Min(Found(f, s))].value]
               Result(f) == IF Having(f, <<envID>>) # {}
                            THEN Earliest(f, Min(Having(f, <<envID>>)))
                            ELSE IF Having(f, <<>>) # {}
                            THEN Earliest(f, Min(Having(f, <<>>)))
                            ELSE NoRule
    <2>1. /\ Meant(config, envID, first, values) = Result(first)
          /\ Meant(config, envID, other, values) = Result(other)
      BY <1>2 DEF Meant
    <2>2. \A s \in DOMAIN rows : Found(first, s) = Found(other, s)
      BY <1>2, SameVerdicts
    <2>3. \A e : Having(first, e) = Having(other, e)
      BY <2>2
    <2>4. \A e : Having(first, e) # {} => Min(Having(first, e)) \in DOMAIN rows
      <3> SUFFICES ASSUME NEW e, Having(first, e) # {}
                   PROVE  Min(Having(first, e)) \in DOMAIN rows
        OBVIOUS
      <3>1. Having(first, e) \in SUBSET Nat
        BY <1>2 DEF IsConfig, IsList
      <3>2. Having(first, e) \subseteq DOMAIN rows
        OBVIOUS
      <3> HIDE DEF Having
      <3> QED
        BY <3>1, <3>2, MinIsLeast
    <2>5. \A s \in DOMAIN rows : Earliest(first, s) = Earliest(other, s)
      BY <2>2
    <2> HIDE DEF Having, Earliest
    <2> QED
      BY <2>1, <2>3, <2>4, <2>5
  <1> QED
    BY <1>1, <1>2

\* Some keys, with all that they name, stand for what they mean.
Solved(keys, first) ==
    /\ \A k \in keys : SegmentsRead(k) \subseteq keys
    /\ \A k \in keys :
          first[k] = Meant(ConfigRead(k), GetProjectEnvID, first, ValuesRead)

ReadIsStored ==
    \A k \in Key : \A config \in read.configs[k] \cup {GetConfig(k)} :
        config = NoConfig \/ IsConfig(config)

LEMMA ConfigReadIsConfig ==
    ASSUME ReadIsStored, NEW k \in Key
    PROVE  ConfigRead(k) = NoConfig \/ IsConfig(ConfigRead(k))
  BY DEF ReadIsStored, ConfigRead, Some

LEMMA SolvedAgain ==
    ASSUME ReadIsStored, NEW keys \in SUBSET Key, NEW first, Solved(keys, first),
           NEW k \in Key, SegmentsRead(k) \subseteq keys,
           NEW other, \A s \in keys : other[s] = first[s]
    PROVE  Meant(ConfigRead(k), GetProjectEnvID, other, ValuesRead)
             = Meant(ConfigRead(k), GetProjectEnvID, first, ValuesRead)
  BY ConfigReadIsConfig, SameMeaning DEF SegmentsRead

\* Without circles one more key can be solved, until all are.
LEMMA OneMoreSolved ==
    ASSUME ReadIsStored, NoCirclesRead, NEW keys \in SUBSET Key, keys # Key,
           NEW first, Solved(keys, first)
    PROVE  \E k \in Key \ keys : \E other : Solved(keys \cup {k}, other)
  <1>1. PICK k \in Key \ keys : SegmentsRead(k) \cap (Key \ keys) = {}
    BY DEF NoCirclesRead
  <1>2. SegmentsRead(k) \subseteq keys
    BY <1>1 DEF SegmentsRead, Segments
  <1>3. PICK rule : rule = Meant(ConfigRead(k), GetProjectEnvID, first, ValuesRead)
    OBVIOUS
  <1>4. PICK other : other = [s \in Key |-> IF s = k THEN rule ELSE first[s]]
    OBVIOUS
  <1>5. other[k] = rule /\ \A s \in keys : other[s] = first[s]
    BY <1>4
  <1>6. ASSUME NEW s \in keys \cup {k}
        PROVE  other[s] = Meant(ConfigRead(s), GetProjectEnvID, other, ValuesRead)
    <2>1. CASE s = k
      BY <1>2, <1>3, <1>5, <2>1, SolvedAgain
    <2>2. CASE s # k
      <3>1. s \in keys /\ SegmentsRead(s) \subseteq keys
        BY <2>2 DEF Solved
      <3>2. Meant(ConfigRead(s), GetProjectEnvID, other, ValuesRead)
              = Meant(ConfigRead(s), GetProjectEnvID, first, ValuesRead)
        BY <1>5, <3>1, SolvedAgain
      <3>3. first[s] = Meant(ConfigRead(s), GetProjectEnvID, first, ValuesRead)
        BY <3>1 DEF Solved
      <3> QED
        BY <1>5, <3>1, <3>2, <3>3
    <2> QED
      BY <2>1, <2>2
  <1>7. Solved(keys \cup {k}, other)
    BY <1>2, <1>6 DEF Solved
  <1> QED
    BY <1>7

LEMMA AllSolved ==
    ASSUME ReadIsStored, NoCirclesRead
    PROVE  \E first : Solved(Key, first)
  <1> DEFINE Left == { n \in Nat : \E keys \in SUBSET Key : \E first :
                         Solved(keys, first) /\ n = Cardinality(Key \ keys) }
  <1>0. IsFiniteSet(Key)
    BY StoresAssumption
  <1>1. ASSUME NEW keys \in SUBSET Key
        PROVE  IsFiniteSet(Key \ keys) /\ Cardinality(Key \ keys) \in Nat
    BY <1>0, FS_Difference, FS_CardinalityType
  <1>2. Left # {}
    <2>1. PICK first : first = {}
      OBVIOUS
    <2>2. Solved({}, first)
      BY DEF Solved
    <2> QED
      BY <1>1, <2>2
  <1>3. Min(Left) \in Left /\ \A n \in Left : Min(Left) <= n
    <2> HIDE DEF Left
    <2>1. Left \in SUBSET Nat
      BY DEF Left
    <2> QED
      BY <1>2, <2>1, MinIsLeast
  <1>4. PICK keys \in SUBSET Key : \E first :
              Solved(keys, first) /\ Min(Left) = Cardinality(Key \ keys)
    BY <1>3
  <1>5. PICK first : Solved(keys, first) /\ Min(Left) = Cardinality(Key \ keys)
    BY <1>4
  <1>6. ASSUME keys # Key
        PROVE  FALSE
    <2>1. PICK k \in Key \ keys : \E other : Solved(keys \cup {k}, other)
      BY <1>5, <1>6, OneMoreSolved
    <2>2. Key \ (keys \cup {k}) = (Key \ keys) \ {k}
      OBVIOUS
    <2>3. Cardinality(Key \ (keys \cup {k})) = Cardinality(Key \ keys) - 1
      <3>1. PICK S : S = Key \ keys
        OBVIOUS
      <3>2. IsFiniteSet(S) /\ k \in S /\ Key \ (keys \cup {k}) = S \ {k}
        BY <1>1, <2>2, <3>1
      <3>3. Cardinality(S \ {k}) = Cardinality(S) - 1
        BY <3>2, FS_RemoveElement
      <3> QED
        BY <3>1, <3>2, <3>3
    <2>4. keys \cup {k} \in SUBSET Key
      OBVIOUS
    <2>5. Cardinality(Key \ (keys \cup {k})) \in Left
      BY <1>1, <2>1, <2>4
    <2> HIDE DEF Left
    <2>6. Min(Left) <= Cardinality(Key \ keys) - 1
      BY <1>3, <2>3, <2>5
    <2>7. Cardinality(Key \ keys) \in Nat
      BY <1>1
    <2> QED
      BY <1>5, <2>6, <2>7
  <1> QED
    BY <1>5, <1>6

LEMMA MeaningExists ==
    ASSUME ReadIsStored, NoCirclesRead
    PROVE  IsMeaning(Meaning)
  <1>1. PICK first : Solved(Key, first)
    BY AllSolved
  <1>2. PICK other : other = [k \in Key |-> first[k]]
    OBVIOUS
  <1>3. ASSUME NEW k \in Key
        PROVE  other[k] = Meant(ConfigRead(k), GetProjectEnvID, other, ValuesRead)
    <2>1. SegmentsRead(k) \subseteq Key /\ \A s \in Key : other[s] = first[s]
      BY <1>2 DEF SegmentsRead, Segments
    <2>2. first[k] = Meant(ConfigRead(k), GetProjectEnvID, first, ValuesRead)
      BY <1>1 DEF Solved
    <2>3. Meant(ConfigRead(k), GetProjectEnvID, other, ValuesRead)
            = Meant(ConfigRead(k), GetProjectEnvID, first, ValuesRead)
      <3>1. Key \in SUBSET Key
        OBVIOUS
      <3> QED
        BY <1>1, <2>1, <3>1, SolvedAgain
    <2> QED
      BY <2>1, <2>2, <2>3
  <1>4. IsMeaning(other)
    BY <1>2, <1>3 DEF IsMeaning
  <1> QED
    BY <1>4 DEF IsMeaning, Meaning

LEMMA NothingElseIsRead ==
    ASSUME SafeInv, ReadInv, [Next]_vars
    PROVE  \A k \in Key : read'.configs[k] \subseteq read.configs[k] \cup {GetConfig(k)}
  <1>0. PICK c, v : read = [configs |-> c, values |-> v] /\ DOMAIN c = Key
    BY DEF ReadInv
  <1>1. CASE UNCHANGED read
    BY <1>1
  <1>2. CASE read' = Nothing
    BY <1>2 DEF Nothing
  <1>3. ASSUME NEW name, ReadConfig(name)
        PROVE  \A k \in Key : read'.configs[k] \subseteq read.configs[k] \cup {GetConfig(k)}
    <2>1. PICK S : S = c[name] \cup {GetConfig(name)}
      OBVIOUS
    <2>2. read' = [configs |-> [c EXCEPT ![name] = S], values |-> v]
      BY <1>0, <1>3, <2>1 DEF ReadConfig
    <2> QED
      BY <1>0, <2>1, <2>2
  <1>4. ASSUME NEW p, NEW x, read' = [read EXCEPT !.values[p] = @ \cup {x}]
        PROVE  \A k \in Key : read'.configs[k] \subseteq read.configs[k] \cup {GetConfig(k)}
    <2>1. PICK V : V = [v EXCEPT ![p] = @ \cup {x}]
      OBVIOUS
    <2>2. read' = [configs |-> c, values |-> V]
      BY <1>0, <1>4, <2>1
    <2> QED
      BY <1>0, <2>2
  <1>5. \/ UNCHANGED read \/ read' = Nothing \/ \E name : ReadConfig(name)
        \/ \E p, x : read' = [read EXCEPT !.values[p] = @ \cup {x}]
    BY DEF Next, UpdateApiStore, Call, ResolveValue, LookupConfig, EvaluateConfig, SelectRows,
           EvaluatePropertyCriterion, EnterSegment, RuleMatches, NoRuleMatches,
           EvaluateConfigReturns, ResolveValueForConfig, ResolvePlain,
           ResolveWeightedValue, ResolveProvided, LookupSecret, Decrypt, vars
  <1> QED
    BY <1>1, <1>2, <1>3, <1>4, <1>5

LEMMA NowIsConfig ==
    ASSUME NEW contents \in ApiContents, NEW k \in Key
    PROVE  LET config == FirstConfig(StoresWith(contents), k)
           IN  config = NoConfig \/ IsConfig(config)
  BY FirstIsStored, StoredIsConfig

LEMMA StoredReads ==
    ASSUME SafeInv, ReadInv, ReadIsStored, [Next]_vars
    PROVE  ReadIsStored'
  <1>1. \A k \in Key : GetConfig(k)' = NoConfig \/ IsConfig(GetConfig(k)')
    <2>1. api' \in ApiContents
      BY CallVariablesStay
    <2> QED
      BY <2>1, NowIsConfig DEF GetConfig, Contents
  <1> QED
    BY <1>1, NothingElseIsRead DEF ReadIsStored

\* What AnswerIsTheMeaning supposes holds wherever the segments that the configs name,
\* as the call read them or as they are now, do not lead back to themselves.
THEOREM MeaningsExist == Spec => [](NoCirclesRead => IsMeaning(Meaning))
  <1>1. Init => ReadIsStored
    <2> SUFFICES ASSUME Init
                 PROVE  ReadIsStored
      OBVIOUS
    <2>1. \A k \in Key : read.configs[k] = {}
      BY DEF Init, Nothing
    <2> QED
      BY <2>1, NowIsConfig DEF Init, GetConfig, Contents, ReadIsStored
  <1>2. SafeInv /\ MeansInv /\ ReadIsStored /\ [Next]_vars => ReadIsStored'
    BY StoredReads DEF MeansInv
  <1>3. ReadIsStored => (NoCirclesRead => IsMeaning(Meaning))
    BY MeaningExists
  <1> QED
    BY <1>1, <1>2, <1>3, SafeInvariant, MeansInvariant, PTL DEF Spec
=============================================================================
