------------------------ MODULE ApiConfigStoreProofs ------------------------
(***************************************************************************)
(* Theorems about ApiConfigStore, for every set of keys and readers, every *)
(* bound on the log and every number of retries.                           *)
(***************************************************************************)
EXTENDS ApiConfigStore, TLAPS, WellFoundedInduction

-----------------------------------------------------------------------------
\* Facts about numbers

\* A set of naturals that is not empty has a least element.
LEMMA LeastOfRelation ==
    ASSUME NEW R, IsWellFoundedOn(R, Nat),
           \A x, y \in Nat : y < x => <<y, x>> \in R,
           NEW T \in SUBSET Nat, T # {}
    PROVE  \E x \in T : \A y \in T : x <= y
<1>1. PICK x \in T : \A y \in T : ~(<<y, x>> \in R)
  BY WFMin
<1>2. ASSUME NEW y \in T PROVE x <= y
  <2>1. x \in Nat /\ y \in Nat
    OBVIOUS
  <2>2. ~(<<y, x>> \in R)
    BY <1>1
  <2>3. ~(y < x)
    BY <2>1, <2>2
  <2> QED
    BY <2>1, <2>3
<1> QED
  BY <1>2

LEMMA Least ==
    ASSUME NEW T \in SUBSET Nat, T # {}
    PROVE  \E x \in T : \A y \in T : x <= y
<1>1. IsWellFoundedOn(OpToRel(<, Nat), Nat)
  BY NatLessThanWellFounded
<1>2. \A x, y \in Nat : y < x => <<y, x>> \in OpToRel(<, Nat)
  BY DEF OpToRel
<1> QED
  BY <1>1, <1>2, LeastOfRelation

\* Max of a set of integers that has an upper bound in the set.
LEMMA MaxIs ==
    ASSUME NEW S, S \subseteq Int, NEW w \in S, \A x \in S : x <= w
    PROVE  Max(S) = w
<1> DEFINE c == CHOOSE x \in S : \A y \in S : x >= y
<1>1. \E x \in S : \A y \in S : x >= y
  BY SMT
<1>2. c \in S /\ \A y \in S : c >= y
  BY <1>1
<1> HIDE DEF c
<1>3. c = w
  BY <1>2
<1> QED
  BY <1>3 DEF Max, c

-----------------------------------------------------------------------------
\* Facts about messages

\* Every version is a version of some key.
LEMMA SeqElement == ASSUME NEW S, NEW s \in Seq(S), NEW i \in 1 .. Len(s)
                    PROVE  s[i] \in S
OBVIOUS

LEMMA EntryKey ==
    ASSUME log \in Seq([key : Key, rows : BOOLEAN]), NEW i \in 1 .. Len(log)
    PROVE  log[i].key \in Key
<1>1. log[i] \in [key : Key, rows : BOOLEAN]
  BY SeqElement
<1> QED
  BY <1>1

\* Of the versions of a key between two ids, one is the newest.
LEMMA NewestExists ==
    ASSUME NEW k, NEW u \in Nat, NEW j \in Nat, j <= u, log[j].key = k
    PROVE  \E i \in j .. u : /\ log[i].key = k
                             /\ \A l \in (i + 1) .. u : log[l].key # k
<1> DEFINE T == { d \in Nat : u - d \in j .. u /\ log[u - d].key = k }
<1>1. u - j \in T
  OBVIOUS
<1>2. T \in SUBSET Nat /\ T # {}
  BY <1>1
<1>3. PICK d \in T : \A e \in T : d <= e
  BY <1>2, Least
<1>4. \A l \in (u - d + 1) .. u : log[l].key # k
  <2> SUFFICES ASSUME NEW l \in (u - d + 1) .. u, log[l].key = k
               PROVE  FALSE
    OBVIOUS
  <2>1. u - l \in Nat /\ u - (u - l) = l /\ l \in j .. u
    BY <1>3
  <2>2. u - l \in T
    BY <2>1
  <2> QED
    BY <1>3, <2>2
<1> QED
  BY <1>3, <1>4

\* A message that is not empty carries the id it goes up to, and no greater.
LEMMA ConfigsBounds ==
    ASSUME NEW m, m.after \in Nat, m.upto \in Nat
    PROVE  /\ Configs(m) \subseteq (m.after + 1) .. m.upto
           /\ m.after < m.upto => m.upto \in Configs(m)
BY DEF Configs

\* A message carries one version of a key at most: CHOOSE has no choice.
LEMMA ConfigsOneVersion ==
    ASSUME NEW m, m.after \in Nat, m.upto \in Nat,
           NEW i \in Configs(m), NEW j \in Configs(m), log[i].key = log[j].key
    PROVE  i = j
BY DEF Configs

LEMMA ChosenVersion ==
    ASSUME NEW m, m.after \in Nat, m.upto \in Nat, NEW k,
           NEW i \in Configs(m), log[i].key = k
    PROVE  (CHOOSE j \in Configs(m) : log[j].key = k) = i
BY ConfigsOneVersion

\* A message carries some version of every key that changed in its range.
LEMMA ConfigsCover ==
    ASSUME NEW m, m.after \in Nat, m.upto \in Nat,
           NEW j \in (m.after + 1) .. m.upto
    PROVE  \E i \in Configs(m) : i >= j /\ log[i].key = log[j].key
<1>1. j \in Nat /\ j <= m.upto
  OBVIOUS
<1>2. PICK i \in j .. m.upto : /\ log[i].key = log[j].key
                               /\ \A l \in (i + 1) .. m.upto : log[l].key # log[j].key
  BY <1>1, NewestExists
<1>3. i \in (m.after + 1) .. m.upto /\ i >= j
  BY <1>2
<1> QED
  BY <1>2, <1>3 DEF Configs

\* The watermark after a message.
LEMMA WatermarkAfter ==
    ASSUME NEW m, m.after \in Nat, m.upto \in Nat, NEW w \in Nat
    PROVE  LET new == Max({w} \cup Configs(m)) IN
           /\ new = IF m.after < m.upto /\ w < m.upto THEN m.upto ELSE w
           /\ new \in Nat
<1> DEFINE S == {w} \cup Configs(m)
<1>1. /\ S \subseteq Int
      /\ \A i \in Configs(m) : m.after < i /\ i <= m.upto
      /\ m.after < m.upto => m.upto \in Configs(m)
  BY ConfigsBounds
<1>2. CASE m.after < m.upto /\ w < m.upto
  <2>1. m.upto \in S /\ \A x \in S : x <= m.upto
    BY <1>1, <1>2
  <2>2. Max(S) = m.upto
    BY <1>1, <2>1, MaxIs
  <2> QED
    BY <1>2, <2>2
<1>3. CASE ~(m.after < m.upto /\ w < m.upto)
  <2>1. w \in S /\ \A x \in S : x <= w
    BY <1>1, <1>3
  <2>2. Max(S) = w
    BY <1>1, <2>1, MaxIs
  <2> QED
    BY <1>3, <2>2
<1> QED
  BY <1>2, <1>3

-----------------------------------------------------------------------------
\* Type correctness

\* TypeOK needs one more fact to be inductive: a retry is pending only while
\* retries are left.
RetryPending == fetchPc = "sleep" => retriesAttempted < MaxRetries

TypeInv == TypeOK /\ RetryPending

LEMMA setConfigType ==
    ASSUME NEW current, NEW id \in Id
    PROVE  setConfig(current, id) \in {Absent, current, id}
<1>1. CASE ~HasRows(id) /\ current # Absent /\ id > current
  BY <1>1 DEF setConfig
<1>2. CASE (HasRows(id) /\ current # Absent /\ id > current) \/ current = Absent
  BY <1>2 DEF setConfig
<1>3. CASE /\ ~(~HasRows(id) /\ current # Absent /\ id > current)
           /\ ~((HasRows(id) /\ current # Absent /\ id > current) \/ current = Absent)
  BY <1>3 DEF setConfig
<1> QED
  BY <1>1, <1>2, <1>3

LEMMA SetConfigsType ==
    ASSUME TypeOK, NEW m \in Message, SetConfigs(m)
    PROVE  /\ configMap' \in [Key -> {Absent} \cup Id]
           /\ highWatermark' \in 0 .. MaxId
           /\ projectEnvID' \in {0, ProjectEnvId}
           /\ Initialized' \in BOOLEAN
<1>1. /\ m.after \in Nat /\ m.upto \in Nat /\ m.upto <= MaxId
      /\ MaxId \in Nat /\ highWatermark \in Nat /\ highWatermark <= MaxId
  BY ServerAssumption DEF TypeOK, Message
<1>2. Configs(m) \subseteq Id
  BY <1>1, ConfigsBounds DEF Id
<1>3. highWatermark' \in 0 .. MaxId
  <2>1. highWatermark' = Max({highWatermark} \cup Configs(m))
    BY DEF SetConfigs
  <2>2. \/ highWatermark' = m.upto
        \/ highWatermark' = highWatermark
    BY <1>1, <2>1, WatermarkAfter
  <2> QED
    BY <1>1, <2>2
<1>4. ASSUME NEW k \in Key
      PROVE  configMap'[k] \in {Absent} \cup Id
  <2>1. configMap[k] \in {Absent} \cup Id
    BY DEF TypeOK
  <2>2. CASE \E i \in Configs(m) : log[i].key = k
    <3> DEFINE c == CHOOSE i \in Configs(m) : log[i].key = k
    <3>1. c \in Configs(m)
      BY <2>2
    <3>2. configMap'[k] = setConfig(configMap[k], c)
      BY <2>2 DEF SetConfigs
    <3> HIDE DEF c
    <3> QED
      BY <1>2, <2>1, <3>1, <3>2, setConfigType
  <2>3. CASE ~ \E i \in Configs(m) : log[i].key = k
    BY <2>1, <2>3 DEF SetConfigs
  <2> QED
    BY <2>2, <2>3
<1>5. configMap' = [k \in Key |-> configMap'[k]]
  BY DEF SetConfigs
<1> QED
  BY <1>3, <1>4, <1>5 DEF SetConfigs

LEMMA InitTypeInv == Init => TypeInv
<1> SUFFICES ASSUME Init PROVE TypeInv
  OBVIOUS
<1> USE ServerAssumption, RetriesAssumption DEF Init
<1>1. log \in Seq([key : Key, rows : BOOLEAN]) /\ Len(log) = 0
  OBVIOUS
<1>2. /\ configMap \in [Key -> {Absent} \cup Id]
      /\ reader \in [Reader -> [pc : {"idle", "GetProjectEnvID", "GetContextValue"},
                                config : {Absent} \cup Id,
                                env : {0, ProjectEnvId}]]
  OBVIOUS
<1>3. NoMessage \in Message /\ contextSet \in MaybeContext
  BY DEF Message, NoMessage, MaybeContext
<1>4. /\ highWatermark \in 0 .. MaxId /\ projectEnvID \in {0, ProjectEnvId}
      /\ retriesAttempted \in 0 .. MaxRetries
      /\ startAt \in 0 .. MaxId /\ cursor \in 0 .. MaxId
      /\ checkpoint \in 0 .. MaxId
  OBVIOUS
<1>6. /\ Initialized \in BOOLEAN /\ loaded \in BOOLEAN
      /\ fetchPc = "load" /\ ssePc = "idle" /\ lost \subseteq Id
  BY Zenon
<1>5. fetched \in Message /\ streamed \in Message
  BY <1>3
<1> HIDE DEF Init
<1> QED
  BY <1>1, <1>2, <1>3, <1>4, <1>5, <1>6
  DEF TypeInv, TypeOK, RetryPending

LEMMA PublishTypeInv ==
    ASSUME TypeInv, NEW k \in Key, NEW rows \in BOOLEAN, Publish(k, rows)
    PROVE  TypeInv'
<1>1. log' \in Seq([key : Key, rows : BOOLEAN]) /\ Len(log') = Len(log) + 1
  BY DEF TypeInv, TypeOK, Publish
<1>2. Len(log') <= MaxId
  BY <1>1, ServerAssumption DEF TypeInv, TypeOK, Publish
<1> QED
  BY <1>1, <1>2
  DEF TypeInv, TypeOK, RetryPending, Publish, storeVars, fetchVars, sseVars

LEMMA FetchTypeInv == ASSUME TypeInv, FetchFromServer PROVE TypeInv'
<1> USE ServerAssumption, RetriesAssumption
    DEF TypeInv, TypeOK, RetryPending, Message, NoMessage, MaybeContext,
        serverVars, storeVars, sseVars
<1>1. ASSUME NEW n \in 0 .. Len(log), LoadSucceeds(n) PROVE TypeInv'
  BY <1>1 DEF LoadSucceeds
<1>2. CASE LoadFails \/ LoadHangs
  BY <1>2 DEF LoadFails, LoadHangs
<1>3. CASE Retry
  BY <1>3 DEF Retry
<1>4. CASE FetchSetContext
  BY <1>4 DEF FetchSetContext, SetContextSet
<1>5. CASE FetchSetConfigs
  <2>1. /\ configMap' \in [Key -> {Absent} \cup Id]
        /\ highWatermark' \in 0 .. MaxId
        /\ projectEnvID' \in {0, ProjectEnvId}
        /\ Initialized' \in BOOLEAN
    BY <1>5, SetConfigsType DEF FetchSetConfigs
  <2> QED
    BY <1>5, <2>1 DEF FetchSetConfigs
<1>6. CASE FinishedLoading
  BY <1>6 DEF FinishedLoading
<1>7. CASE Then
  BY <1>7 DEF Then
<1> QED
  BY <1>1, <1>2, <1>3, <1>4, <1>5, <1>6, <1>7 DEF FetchFromServer

LEMMA StreamTypeInv == ASSUME TypeInv, StartSSEConnection PROVE TypeInv'
<1> USE ServerAssumption, RetriesAssumption
    DEF TypeInv, TypeOK, RetryPending, Message, NoMessage, MaybeContext,
        serverVars, storeVars, fetchVars
<1>1. CASE ReadWatermark
  BY <1>1 DEF ReadWatermark, GetHighWatermark
<1>2. CASE Connect
  BY <1>2 DEF Connect
<1>3. CASE SubscribeReturns
  BY <1>3 DEF SubscribeReturns
<1>4. CASE LibraryReconnects
  BY <1>4 DEF LibraryReconnects
<1>5. ASSUME NEW n \in 0 .. Len(log), Deliver(n) PROVE TypeInv'
  BY <1>5 DEF Deliver
<1>6. ASSUME NEW n \in 0 .. Len(log), DeliverUndecodable(n) PROVE TypeInv'
  BY <1>6 DEF DeliverUndecodable, Id
<1>7. CASE StreamSetContext
  BY <1>7 DEF StreamSetContext, SetContextSet
<1>8. CASE StreamSetConfigs
  <2>1. /\ configMap' \in [Key -> {Absent} \cup Id]
        /\ highWatermark' \in 0 .. MaxId
        /\ projectEnvID' \in {0, ProjectEnvId}
        /\ Initialized' \in BOOLEAN
    BY <1>8, SetConfigsType DEF StreamSetConfigs
  <2> QED
    BY <1>8, <2>1 DEF StreamSetConfigs
<1>9. CASE Reconnect
  BY <1>9 DEF Reconnect
<1> QED
  BY <1>1, <1>2, <1>3, <1>4, <1>5, <1>6, <1>7, <1>8, <1>9
  DEF StartSSEConnection

LEMMA EvaluateTypeInv ==
    ASSUME TypeInv, NEW r \in Reader, Evaluate(r)
    PROVE  TypeInv'
<1> USE DEF TypeInv, TypeOK, RetryPending, serverVars, storeVars, fetchVars, sseVars
<1>1. ASSUME NEW k \in Key, GetConfig(r, k) PROVE TypeInv'
  BY <1>1 DEF GetConfig
<1>2. CASE GetProjectEnvID(r)
  <2>1. reader' = [reader EXCEPT ![r].pc = "GetContextValue", ![r].env = projectEnvID]
    BY <1>2 DEF GetProjectEnvID
  <2> DEFINE Evaluation == [pc : {"idle", "GetProjectEnvID", "GetContextValue"},
                            config : {Absent} \cup Id, env : {0, ProjectEnvId}]
  <2>2. reader' \in [Reader -> Evaluation]
    <3> SUFFICES ASSUME NEW s \in Reader PROVE reader'[s] \in Evaluation
      BY <2>1
    <3>1. reader[s] \in Evaluation
      OBVIOUS
    <3>2. CASE s = r
      <4>1. reader'[s] = [reader[s] EXCEPT !.pc = "GetContextValue", !.env = projectEnvID]
        BY <2>1, <3>2
      <4> QED
        BY <3>1, <4>1
    <3>3. CASE s # r
      BY <2>1, <3>1, <3>3
    <3> QED
      BY <3>2, <3>3
  <2> QED
    BY <1>2, <2>2 DEF GetProjectEnvID
<1>3. CASE GetContextValue(r)
  BY <1>3 DEF GetContextValue
<1> QED
  BY <1>1, <1>2, <1>3 DEF Evaluate

LEMMA NextTypeInv == TypeInv /\ [Next]_vars => TypeInv'
<1> SUFFICES ASSUME TypeInv, [Next]_vars PROVE TypeInv'
  OBVIOUS
<1>1. CASE UNCHANGED vars
  BY <1>1 DEF TypeInv, TypeOK, RetryPending, vars, serverVars, storeVars,
              fetchVars, sseVars
<1> QED
  BY <1>1, PublishTypeInv, FetchTypeInv, StreamTypeInv, EvaluateTypeInv DEF Next

LEMMA SpecTypeInv == Spec => []TypeInv
BY InitTypeInv, NextTypeInv, PTL DEF Spec

\* Every variable keeps its type: in particular the first fetch never retries
\* more than maxRetries times, whatever the API answers.
THEOREM TypeCorrectness == Spec => []TypeOK
<1>1. TypeInv => TypeOK
  BY DEF TypeInv
<1> QED
  BY SpecTypeInv, <1>1, PTL

-----------------------------------------------------------------------------
\* What callers and evaluations rely on

\* The stream's goroutine starts as the last act of the first fetch's, so that
\* the two never write at once (apiconfigstore.go:50-52): no assumption on the
\* server is needed.
LEMMA NextSingleWriter == SingleWriter /\ [Next]_vars => SingleWriter'
<1> SUFFICES ASSUME SingleWriter, [Next]_vars PROVE SingleWriter'
  OBVIOUS
<1>1. CASE FetchFromServer
  <2>1. fetchPc # "done" /\ ssePc = "idle"
    BY <1>1 DEF SingleWriter, FetchFromServer, LoadSucceeds, LoadFails, LoadHangs, Retry,
                FetchSetContext, FetchSetConfigs, FinishedLoading, Then
  <2> QED
    BY <1>1, <2>1 DEF SingleWriter, FetchFromServer, LoadSucceeds, LoadFails, LoadHangs, Retry,
                FetchSetContext, FetchSetConfigs, FinishedLoading, Then, sseVars
<1>2. CASE StartSSEConnection
  BY <1>2 DEF SingleWriter, StartSSEConnection, ReadWatermark, Connect, SubscribeReturns,
              LibraryReconnects, Deliver, DeliverUndecodable, Sendable, StreamSetContext,
              StreamSetConfigs, Reconnect, fetchVars
<1>3. CASE UNCHANGED vars \/ UNCHANGED <<fetchVars, sseVars>>
  BY <1>3 DEF SingleWriter, vars, fetchVars, sseVars
<1> QED
  BY <1>1, <1>2, <1>3 DEF Next, Publish, Evaluate, GetConfig, GetProjectEnvID,
                          GetContextValue

\* At no time do both goroutines write the store, although nothing but their
\* order keeps them apart (apiconfigstore.go:73).
THEOREM OneWriterAtATime == Spec => []SingleWriter
<1>1. Init => SingleWriter
  BY DEF Init, SingleWriter
<1> QED
  BY <1>1, NextSingleWriter, PTL DEF Spec

\* The context held is no newer than the log, and nothing is held or read that
\* is newer than it.
ContextFits ==
    /\ contextSet <= Len(log)
    /\ \A k \in Key : configMap[k] # Absent =>
          configMap[k] <= contextSet /\ projectEnvID = ProjectEnvId
    /\ \A r \in Reader : reader[r].pc # "idle" =>
          reader[r].config <= contextSet /\ projectEnvID = ProjectEnvId
    /\ \A r \in Reader : reader[r].pc = "GetContextValue" => reader[r].env = ProjectEnvId

\* A message in hand brings a context that is no older than the one held, and
\* fits its configs.
FetchFits ==
    /\ fetchPc \in {"load", "sleep", "setContext"} => contextSet = NoContextSet
    /\ fetchPc = "setContext" => fetched.upto <= fetched.context /\ fetched.context <= Len(log)
    /\ fetchPc = "setConfigs" => fetched.upto <= contextSet

StreamFits ==
    /\ ssePc = "setContext" =>
          /\ streamed.upto <= streamed.context /\ streamed.context <= Len(log)
          /\ contextSet <= streamed.context
    /\ ssePc = "setConfigs" => streamed.upto <= contextSet

\* Between the end of a successful load and the release of the callers the store
\* is usable already.
LoadIsUsable ==
    /\ fetchPc = "setConfigs" => contextSet # NoContextSet
    /\ fetchPc = "finishedLoading" \/ loaded =>
          Initialized /\ contextSet # NoContextSet /\ projectEnvID = ProjectEnvId

ReadInv ==
    TypeInv /\ SingleWriter /\ ContextFits /\ FetchFits /\ StreamFits /\ LoadIsUsable

LEMMA InitReadInv == Init => ReadInv
<1>1. Init => SingleWriter
  BY DEF Init, SingleWriter
<1>2. Init => ContextFits /\ FetchFits /\ StreamFits /\ LoadIsUsable
  BY DEF Init, ContextFits, FetchFits, StreamFits, LoadIsUsable, NoContextSet
<1> QED
  BY <1>1, <1>2, InitTypeInv DEF ReadInv

\* What a message brings is no newer than its end.
LEMMA SetConfigsBrings ==
    ASSUME TypeOK, NEW m \in Message, SetConfigs(m), NEW k \in Key
    PROVE  configMap'[k] = configMap[k] \/ configMap'[k] = Absent \/ configMap'[k] <= m.upto
<1>1. m.after \in Nat /\ m.upto \in Nat /\ m.upto <= MaxId /\ MaxId \in Nat
  BY ServerAssumption DEF Message
<1>2. Configs(m) \subseteq (m.after + 1) .. m.upto
  BY <1>1, ConfigsBounds
<1>3. CASE \E i \in Configs(m) : log[i].key = k
  <2> DEFINE c == CHOOSE i \in Configs(m) : log[i].key = k
  <2>1. c \in Configs(m)
    BY <1>3
  <2>2. configMap'[k] = setConfig(configMap[k], c)
    BY <1>3 DEF SetConfigs
  <2>3. c \in Id /\ c <= m.upto
    BY <1>1, <1>2, <2>1 DEF Id
  <2> HIDE DEF c
  <2> QED
    BY <2>2, <2>3, setConfigType
<1>4. CASE ~ \E i \in Configs(m) : log[i].key = k
  BY <1>4 DEF SetConfigs
<1> QED
  BY <1>3, <1>4

\* A message that the context held fits keeps it fitting.
LEMMA SetConfigsFits ==
    ASSUME TypeOK, ContextFits, NEW m \in Message, SetConfigs(m), m.upto <= contextSet,
           UNCHANGED <<log, contextSet, reader>>
    PROVE  ContextFits'
<1>1. contextSet \in Int /\ contextSet' = contextSet /\ m.upto \in Nat
  BY ServerAssumption DEF TypeOK, MaybeContext, NoContextSet, Message
<1>2. ASSUME NEW k \in Key, configMap'[k] # Absent
      PROVE  configMap'[k] <= contextSet'
  <2>1. CASE configMap'[k] = configMap[k]
    BY <1>1, <1>2, <2>1 DEF ContextFits
  <2>2. CASE configMap'[k] <= m.upto
    <3>1. configMap'[k] \in Int
      BY SetConfigsType, ServerAssumption DEF Id, Absent
    <3> QED
      BY <1>1, <2>2, <3>1
  <2> QED
    BY <1>2, <2>1, <2>2, SetConfigsBrings
<1>3. projectEnvID' = ProjectEnvId
  BY DEF SetConfigs
<1> QED
  BY <1>2, <1>3 DEF ContextFits

\* So does a context that is no older than the one held.
LEMMA SetContextFits ==
    ASSUME TypeOK, ContextFits, NEW m \in Message, SetContextSet(m),
           contextSet <= m.context, m.context <= Len(log),
           UNCHANGED <<log, storeVars, reader>>
    PROVE  ContextFits'
<1>1. contextSet \in Int /\ contextSet' = m.context /\ m.context \in Nat
  BY ServerAssumption DEF TypeOK, MaybeContext, NoContextSet, Message, SetContextSet
<1>2. \A k \in Key : configMap[k] \in Nat
  BY DEF TypeOK, Id, Absent
<1>3. \A r \in Reader : reader[r].config \in Nat
  BY DEF TypeOK, Id, Absent
<1> QED
  BY <1>1, <1>2, <1>3 DEF ContextFits, storeVars

LEMMA FetchReadInv ==
    ASSUME ReadInv, TypeInv', SingleWriter', FetchFromServer
    PROVE  ReadInv'
<1>1. fetchPc # "done" /\ ssePc = "idle"
  BY DEF ReadInv, SingleWriter, FetchFromServer, LoadSucceeds, LoadFails, LoadHangs, Retry,
         FetchSetContext, FetchSetConfigs, FinishedLoading, Then
<1>2. Len(log) \in Nat /\ TypeOK /\ fetched \in Message
  BY DEF ReadInv, TypeInv, TypeOK
<1>3. ASSUME UNCHANGED <<log, storeVars, contextSet, reader>> PROVE ContextFits'
  BY <1>3 DEF ReadInv, ContextFits, storeVars
<1>4. ASSUME NEW n \in 0 .. Len(log), LoadSucceeds(n) PROVE ReadInv'
  <2>1. ContextFits'
    BY <1>3, <1>4 DEF LoadSucceeds, serverVars
  <2>2. FetchFits' /\ StreamFits' /\ LoadIsUsable'
    BY <1>1, <1>2, <1>4
    DEF ReadInv, FetchFits, StreamFits, LoadIsUsable, LoadSucceeds, serverVars,
        storeVars, sseVars
  <2> QED
    BY <2>1, <2>2 DEF ReadInv
<1>5. CASE LoadFails \/ LoadHangs \/ Retry \/ FinishedLoading \/ Then
  <2>1. ContextFits'
    BY <1>3, <1>5 DEF LoadFails, LoadHangs, Retry, FinishedLoading, Then, serverVars
  <2>2. FetchFits' /\ StreamFits' /\ LoadIsUsable'
    BY <1>1, <1>5
    DEF ReadInv, FetchFits, StreamFits, LoadIsUsable, LoadFails, LoadHangs, Retry,
        FinishedLoading,
        Then, serverVars, storeVars, sseVars
  <2> QED
    BY <2>1, <2>2 DEF ReadInv
<1>6. CASE FetchSetContext
  <2>1. /\ contextSet = NoContextSet /\ SetContextSet(fetched)
        /\ fetched.upto <= fetched.context /\ fetched.context <= Len(log)
        /\ fetched.context \in Nat
    BY <1>2, <1>6 DEF ReadInv, FetchFits, FetchSetContext, Message
  <2>2. ContextFits'
    BY <1>2, <1>6, <2>1, SetContextFits DEF ReadInv, FetchSetContext, serverVars, NoContextSet
  <2>3. FetchFits' /\ StreamFits' /\ LoadIsUsable'
    BY <1>1, <1>6, <2>1
    DEF ReadInv, FetchFits, StreamFits, LoadIsUsable, FetchSetContext, SetContextSet,
        NoContextSet, storeVars, sseVars
  <2> QED
    BY <2>2, <2>3 DEF ReadInv
<1>7. CASE FetchSetConfigs
  <2>1. SetConfigs(fetched) /\ fetched.upto <= contextSet /\ contextSet # NoContextSet
    BY <1>7 DEF ReadInv, FetchFits, LoadIsUsable, FetchSetConfigs
  <2>2. ContextFits'
    BY <1>2, <1>7, <2>1, SetConfigsFits DEF ReadInv, FetchSetConfigs, serverVars
  <2>3. FetchFits' /\ StreamFits' /\ LoadIsUsable'
    BY <1>1, <1>7, <2>1
    DEF ReadInv, FetchFits, StreamFits, LoadIsUsable, FetchSetConfigs, SetConfigs, sseVars
  <2> QED
    BY <2>2, <2>3 DEF ReadInv
<1> QED
  BY <1>4, <1>5, <1>6, <1>7 DEF FetchFromServer

LEMMA StreamReadInv ==
    ASSUME ReadInv, TypeInv', SingleWriter', StartSSEConnection
    PROVE  ReadInv'
<1>1. fetchPc = "done" /\ UNCHANGED fetchVars
  BY DEF ReadInv, SingleWriter, StartSSEConnection, ReadWatermark, Connect,
         SubscribeReturns, LibraryReconnects, Deliver, DeliverUndecodable, Sendable,
         StreamSetContext, StreamSetConfigs, Reconnect
<1>2. /\ Len(log) \in Nat /\ TypeOK /\ streamed \in Message /\ contextSet \in Int
      /\ contextSet <= Len(log)
  BY ServerAssumption
  DEF ReadInv, TypeInv, TypeOK, MaybeContext, NoContextSet, ContextFits
<1>3. ASSUME UNCHANGED <<log, storeVars, contextSet, reader>>, StreamFits' PROVE ReadInv'
  BY <1>1, <1>3
  DEF ReadInv, ContextFits, FetchFits, LoadIsUsable, storeVars, fetchVars
<1>4. CASE ReadWatermark \/ Connect \/ SubscribeReturns \/ LibraryReconnects \/ Reconnect
  <2>1. ssePc' \notin {"setContext", "setConfigs"}
    BY <1>4 DEF ReadWatermark, Connect, SubscribeReturns, LibraryReconnects, Reconnect
  <2> QED
    BY <1>3, <1>4, <2>1
    DEF StreamFits, ReadWatermark, Connect, SubscribeReturns, LibraryReconnects,
        Reconnect, serverVars
<1>5. ASSUME NEW n \in 0 .. Len(log), Deliver(n) PROVE ReadInv'
  <2>1. StreamFits'
    BY <1>2, <1>5 DEF StreamFits, Deliver, serverVars
  <2> QED
    BY <1>3, <1>5, <2>1 DEF Deliver, serverVars
<1>6. ASSUME NEW n \in 0 .. Len(log), DeliverUndecodable(n) PROVE ReadInv'
  <2>1. StreamFits'
    BY <1>6 DEF StreamFits, DeliverUndecodable, Sendable
  <2> QED
    BY <1>3, <1>6, <2>1 DEF DeliverUndecodable, serverVars
<1>7. CASE StreamSetContext
  <2>1. /\ SetContextSet(streamed) /\ contextSet <= streamed.context
        /\ streamed.upto <= streamed.context /\ streamed.context <= Len(log)
        /\ contextSet' # NoContextSet
    BY <1>2, <1>7 DEF ReadInv, StreamFits, StreamSetContext, SetContextSet, Message, NoContextSet
  <2>2. ContextFits'
    BY <1>2, <1>7, <2>1, SetContextFits DEF ReadInv, StreamSetContext, serverVars
  <2>3. FetchFits' /\ StreamFits' /\ LoadIsUsable'
    BY <1>1, <1>7, <2>1
    DEF ReadInv, FetchFits, StreamFits, LoadIsUsable, StreamSetContext, SetContextSet,
        storeVars, fetchVars
  <2> QED
    BY <2>2, <2>3 DEF ReadInv
<1>8. CASE StreamSetConfigs
  <2>1. SetConfigs(streamed) /\ streamed.upto <= contextSet
    BY <1>8 DEF ReadInv, StreamFits, StreamSetConfigs
  <2>2. ContextFits'
    BY <1>2, <1>8, <2>1, SetConfigsFits DEF ReadInv, StreamSetConfigs, serverVars
  <2>3. FetchFits' /\ StreamFits' /\ LoadIsUsable'
    BY <1>1, <1>8, <2>1
    DEF ReadInv, FetchFits, StreamFits, LoadIsUsable, StreamSetConfigs, SetConfigs, fetchVars
  <2> QED
    BY <2>2, <2>3 DEF ReadInv
<1> QED
  BY <1>4, <1>5, <1>6, <1>7, <1>8 DEF StartSSEConnection

LEMMA EvaluateReadInv ==
    ASSUME ReadInv, TypeInv', SingleWriter', NEW r \in Reader, Evaluate(r)
    PROVE  ReadInv'
<1>1. UNCHANGED <<serverVars, storeVars, contextSet, fetchVars, sseVars>>
  BY DEF Evaluate, GetConfig, GetProjectEnvID, GetContextValue
<1>2. ASSUME NEW s \in Reader, reader'[s].pc # "idle"
      PROVE  /\ reader'[s].config <= contextSet /\ projectEnvID = ProjectEnvId
             /\ reader'[s].pc = "GetContextValue" => reader'[s].env = ProjectEnvId
  <2>1. CASE s # r
    BY <1>2, <2>1 DEF ReadInv, TypeInv, TypeOK, ContextFits, Evaluate, GetConfig,
                      GetProjectEnvID, GetContextValue
  <2>2. CASE s = r
    BY <1>2, <2>2 DEF ReadInv, TypeInv, TypeOK, ContextFits, Evaluate, GetConfig,
                      GetProjectEnvID, GetContextValue
  <2> QED
    BY <2>1, <2>2
<1>3. ContextFits'
  BY <1>1, <1>2 DEF ReadInv, ContextFits, serverVars, storeVars
<1> QED
  BY <1>1, <1>3 DEF ReadInv, FetchFits, StreamFits, LoadIsUsable, serverVars, storeVars,
                    fetchVars, sseVars

LEMMA PublishReadInv ==
    ASSUME ReadInv, TypeInv', SingleWriter', NEW k \in Key, NEW rows \in BOOLEAN,
           Publish(k, rows)
    PROVE  ReadInv'
<1>1. Len(log) \in Nat /\ Len(log') = Len(log) + 1
  BY DEF ReadInv, TypeInv, TypeOK, Publish
<1>2. /\ contextSet \in Int /\ fetched.context \in Int /\ streamed.context \in Int
  BY ServerAssumption DEF ReadInv, TypeInv, TypeOK, MaybeContext, NoContextSet, Message
<1>3. UNCHANGED <<storeVars, contextSet, fetchVars, sseVars, reader>>
  BY DEF Publish
<1> QED
  BY <1>1, <1>2, <1>3
  DEF ReadInv, ContextFits, FetchFits, StreamFits, LoadIsUsable, storeVars, fetchVars, sseVars

LEMMA NextReadInv == ReadInv /\ [Next]_vars => ReadInv'
<1> SUFFICES ASSUME ReadInv, [Next]_vars PROVE ReadInv'
  OBVIOUS
<1>1. TypeInv' /\ SingleWriter'
  BY NextTypeInv, NextSingleWriter DEF ReadInv
<1>2. CASE UNCHANGED vars
  BY <1>1, <1>2
  DEF ReadInv, ContextFits, FetchFits, StreamFits, LoadIsUsable, vars, serverVars, storeVars,
      fetchVars, sseVars
<1> QED
  BY <1>1, <1>2, PublishReadInv, FetchReadInv, StreamReadInv, EvaluateReadInv DEF Next

\* An evaluation that holds no lock between its reads finds the environment of
\* its config and a context no older than it (apiconfigstore.go:73-81, 119-132).
THEOREM EvaluationsAreConsistent == Spec => []EvaluationIsConsistent
<1>1. ReadInv => EvaluationIsConsistent
  BY DEF ReadInv, TypeInv, TypeOK, MaybeContext, NoContextSet, ContextFits,
         EvaluationIsConsistent
<1> QED
  BY <1>1, InitReadInv, NextReadInv, PTL DEF Spec

\* Callers are released to a store that has the snapshot, its context and its
\* environment (apiconfigstore.go:161-163).
THEOREM CallersFindAUsableStore == Spec => []LoadedStoreIsUsable
<1>1. ReadInv => LoadedStoreIsUsable
  BY ServerAssumption DEF ReadInv, LoadIsUsable, LoadedStoreIsUsable
<1> QED
  BY <1>1, InitReadInv, NextReadInv, PTL DEF Spec

-----------------------------------------------------------------------------
\* Resuming from the watermark

\* The theorems below need a stream that cannot replay, in pieces, what the
\* store has already seen: a split catch-up always starts at the watermark.
NoSplitReplay == ~SplitCatchUp \/ ~LibraryRetries

\* Nothing between the watermark and id a is still to come: it was all lost.
GapIsLost(a) == \A j \in (highWatermark + 1) .. a : j \in lost

\* A message leaves no gap behind it and goes at least up to the watermark.
Resumes(m) ==
    /\ m.after <= m.upto /\ m.upto <= Len(log)
    /\ highWatermark <= m.upto
    /\ GapIsLost(m.after)

\* A version held belongs to its key and is not newer than the watermark.
HeldVersions ==
    \A k \in Key : configMap[k] # Absent =>
        configMap[k] <= highWatermark /\ log[configMap[k]].key = k

FetchResumes == fetchPc \in {"setContext", "setConfigs"} => Resumes(fetched)

StreamResumes ==
    /\ ssePc \in {"connect", "connected", "setContext", "setConfigs"} =>
          startAt <= highWatermark
    /\ ssePc = "connect" /\ ~LibraryRetries => startAt = highWatermark
    /\ ssePc = "connected" =>
          /\ GapIsLost(cursor)
          /\ cursor >= highWatermark \/ checkpoint >= highWatermark
    /\ ssePc \in {"setContext", "setConfigs"} =>
          Resumes(streamed) /\ cursor = streamed.upto

\* NoMissedUpdate alone is not inductive: whether a message leaves a gap is
\* decided when the watermark is read and the connection made, long before the
\* message is stored, and nobody else may move the watermark meanwhile.
ResumeInv ==
    /\ TypeInv
    /\ highWatermark <= Len(log)
    /\ HeldVersions
    /\ NoMissedUpdate
    /\ SingleWriter
    /\ FetchResumes
    /\ StreamResumes

-----------------------------------------------------------------------------
\* What storing a message does

\* A version that arrives is held, or something newer is, or it deleted its key.
LEMMA setConfigArrives ==
    ASSUME NEW current \in Nat, NEW id \in Nat \ {0}
    PROVE  LET new == setConfig(current, id) IN
           /\ new >= id \/ (new = Absent /\ ~HasRows(id))
           /\ new \in {Absent, current, id}
           /\ current # Absent /\ new # Absent => new >= current
<1> USE DEF Absent
<1>1. CASE ~HasRows(id) /\ current # Absent /\ id > current
  BY <1>1 DEF setConfig
<1>2. CASE (HasRows(id) /\ current # Absent /\ id > current) \/ current = Absent
  BY <1>2 DEF setConfig
<1>3. CASE /\ ~(~HasRows(id) /\ current # Absent /\ id > current)
           /\ ~((HasRows(id) /\ current # Absent /\ id > current) \/ current = Absent)
  BY <1>3 DEF setConfig
<1> QED
  BY <1>1, <1>2, <1>3

\* What SetConfigs leaves under each key, without CHOOSE.
LEMMA SetConfigsResult ==
    ASSUME TypeOK, NEW m \in Message, SetConfigs(m)
    PROVE  /\ \A k \in Key, i \in Configs(m) :
                 log[i].key = k => configMap'[k] = setConfig(configMap[k], i)
           /\ \A k \in Key : (\A i \in Configs(m) : log[i].key # k) =>
                 configMap'[k] = configMap[k]
           /\ highWatermark' = IF m.after < m.upto /\ highWatermark < m.upto
                               THEN m.upto ELSE highWatermark
<1>1. m.after \in Nat /\ m.upto \in Nat /\ highWatermark \in Nat
  BY ServerAssumption DEF TypeOK, Message
<1>2. ASSUME NEW k \in Key, NEW i \in Configs(m), log[i].key = k
      PROVE  configMap'[k] = setConfig(configMap[k], i)
  <2>1. (CHOOSE j \in Configs(m) : log[j].key = k) = i
    BY <1>1, <1>2, ChosenVersion
  <2> QED
    BY <1>2, <2>1 DEF SetConfigs
<1>3. ASSUME NEW k \in Key, \A i \in Configs(m) : log[i].key # k
      PROVE  configMap'[k] = configMap[k]
  BY <1>3 DEF SetConfigs
<1>4. highWatermark' = IF m.after < m.upto /\ highWatermark < m.upto
                       THEN m.upto ELSE highWatermark
  <2>1. highWatermark' = Max({highWatermark} \cup Configs(m))
    BY DEF SetConfigs
  <2> QED
    BY <1>1, <2>1, WatermarkAfter
<1> QED
  BY <1>2, <1>3, <1>4

\* Storing a message that leaves no gap keeps the map complete up to the new
\* watermark, and what was lost in the message's range is lost no more.
LEMMA SetConfigsKeepsUp ==
    ASSUME TypeOK, highWatermark <= Len(log), HeldVersions, NoMissedUpdate,
           NEW m \in Message, Resumes(m), SetConfigs(m), UNCHANGED log,
           lost \ ((m.after + 1) .. m.upto) \subseteq lost'
    PROVE  /\ highWatermark <= highWatermark' /\ highWatermark' <= Len(log)
           /\ HeldVersions' /\ NoMissedUpdate'
           /\ highWatermark' <= m.upto /\ GapIsLost(m.upto)'
<1> DEFINE Span == (m.after + 1) .. m.upto
<1>1. /\ m.after \in Nat /\ m.upto \in Nat /\ highWatermark \in Nat
      /\ m.after <= m.upto /\ m.upto <= Len(log) /\ highWatermark <= m.upto
      /\ Len(log) \in Nat
      /\ \A j \in (highWatermark + 1) .. m.after : j \in lost
  <2>1. /\ m.after \in Nat /\ m.upto \in Nat /\ highWatermark \in Nat
    BY ServerAssumption DEF TypeOK, Message
  <2>2. Len(log) \in Nat
    BY DEF TypeOK
  <2> QED
    BY <2>1, <2>2 DEF Resumes, GapIsLost
<1>2. /\ m.after < m.upto => highWatermark' = m.upto
      /\ m.after = m.upto => highWatermark' = highWatermark
  BY <1>1, SetConfigsResult
<1>3. \A i \in 1 .. Len(log) : log[i].key \in Key
  BY EntryKey DEF TypeOK
<1>4. \A k \in Key : configMap[k] \in Nat
  BY ServerAssumption DEF TypeOK, Id, Absent
<1>5. /\ Configs(m) \subseteq Span
      /\ Configs(m) # {} => highWatermark' = m.upto
  BY <1>1, <1>2, ConfigsBounds
<1>6. /\ highWatermark <= highWatermark' /\ highWatermark' <= m.upto
      /\ highWatermark' <= Len(log)
  BY <1>1, <1>2
<1>7. HeldVersions'
  <2> SUFFICES ASSUME NEW k \in Key, configMap'[k] # Absent
               PROVE  configMap'[k] <= highWatermark' /\ log[configMap'[k]].key = k
    BY DEF HeldVersions
  <2>1. configMap[k] # Absent =>
            configMap[k] <= highWatermark /\ log[configMap[k]].key = k
    BY DEF HeldVersions
  <2>2. CASE \E i \in Configs(m) : log[i].key = k
    <3>1. PICK i \in Configs(m) : log[i].key = k
      BY <2>2
    <3>2. configMap'[k] = setConfig(configMap[k], i)
      BY <3>1, SetConfigsResult
    <3>3. i \in Nat \ {0} /\ i <= highWatermark'
      BY <1>1, <1>5
    <3>4. configMap'[k] \in {Absent, configMap[k], i}
      BY <1>4, <3>2, <3>3, setConfigArrives
    <3> QED
      BY <1>1, <1>2, <1>4, <1>6, <2>1, <3>1, <3>3, <3>4
  <2>3. CASE \A i \in Configs(m) : log[i].key # k
    <3>1. configMap'[k] = configMap[k]
      BY <2>3, SetConfigsResult
    <3> QED
      BY <1>1, <1>2, <1>4, <1>6, <2>1, <3>1
  <2> QED
    BY <2>2, <2>3
<1>8. NoMissedUpdate'
  <2> SUFFICES ASSUME NEW j \in (1 .. highWatermark') \ lost', NEW k, k = log[j].key
               PROVE  \/ configMap'[k] >= j
                      \/ /\ configMap'[k] = Absent
                         /\ \E i \in j .. highWatermark' :
                               log[i].key = k /\ ~HasRows(i)
    BY DEF NoMissedUpdate, HasRows
  <2>1. j \in Nat \ {0} /\ j <= m.upto /\ k \in Key
    BY <1>1, <1>2, <1>3
  <2>2. ASSUME NEW i \in Configs(m), log[i].key = k, j <= i
        PROVE  \/ configMap'[k] >= j
               \/ /\ configMap'[k] = Absent
                  /\ \E l \in j .. highWatermark' : log[l].key = k /\ ~HasRows(l)
    <3>1. configMap'[k] = setConfig(configMap[k], i)
      BY <2>1, <2>2, SetConfigsResult
    <3>2. i \in Nat \ {0} /\ i <= highWatermark'
      BY <1>1, <1>5
    <3>3. /\ configMap'[k] >= i \/ (configMap'[k] = Absent /\ ~HasRows(i))
          /\ configMap'[k] \in Nat
      BY <1>4, <2>1, <3>1, <3>2, setConfigArrives DEF Absent
    <3>4. CASE configMap'[k] >= i
      BY <2>1, <2>2, <3>2, <3>3, <3>4
    <3>5. CASE configMap'[k] = Absent /\ ~HasRows(i)
      BY <1>1, <1>2, <2>1, <2>2, <3>2, <3>5
    <3> QED
      BY <3>3, <3>4, <3>5
  <2>3. CASE j \in Span
    <3>1. PICK i \in Configs(m) : i >= j /\ log[i].key = log[j].key
      BY <1>1, <2>3, ConfigsCover
    <3> QED
      BY <1>1, <1>5, <2>1, <2>2, <3>1
  <2>4. CASE j \notin Span
    <3>1. j <= m.after /\ j \notin lost
      BY <1>1, <2>1, <2>4
    <3>2. j <= highWatermark
      BY <1>1, <2>1, <3>1
    <3>3. \/ configMap[k] >= j
          \/ /\ configMap[k] = Absent
             /\ \E i \in j .. highWatermark : log[i].key = k /\ ~HasRows(i)
      BY <2>1, <3>1, <3>2 DEF NoMissedUpdate
    <3>4. CASE \E i \in Configs(m) : log[i].key = k
      <4>1. PICK i \in Configs(m) : log[i].key = k
        BY <3>4
      <4>2. j <= i
        BY <1>1, <1>5, <3>1
      <4> QED
        BY <2>2, <4>1, <4>2
    <3>5. CASE \A i \in Configs(m) : log[i].key # k
      <4>1. configMap'[k] = configMap[k]
        BY <2>1, <3>5, SetConfigsResult
      <4>2. \A i \in j .. highWatermark : i \in j .. highWatermark'
        BY <1>1, <1>2, <1>6, <2>1
      <4> QED
        BY <3>3, <4>1, <4>2
    <3> QED
      BY <3>4, <3>5
  <2> QED
    BY <2>3, <2>4
<1>9. GapIsLost(m.upto)'
  <2> SUFFICES ASSUME NEW j \in (highWatermark' + 1) .. m.upto PROVE j \in lost'
    BY DEF GapIsLost
  <2>1. m.after = m.upto /\ highWatermark' = highWatermark
    BY <1>1, <1>2
  <2>2. j \in lost /\ j \notin Span
    BY <1>1, <2>1
  <2> QED
    BY <2>2
<1> QED
  BY <1>1, <1>6, <1>7, <1>8, <1>9

-----------------------------------------------------------------------------
\* ResumeInv is inductive

LEMMA InitResumeInv == Init => ResumeInv
<1> SUFFICES ASSUME Init PROVE ResumeInv
  OBVIOUS
<1>1. TypeInv
  BY InitTypeInv
<1>2. highWatermark <= Len(log) /\ HeldVersions /\ NoMissedUpdate
  BY DEF Init, HeldVersions, NoMissedUpdate
<1>3. SingleWriter /\ FetchResumes /\ StreamResumes
  BY DEF Init, SingleWriter, FetchResumes, StreamResumes
<1> QED
  BY <1>1, <1>2, <1>3 DEF ResumeInv

LEMMA PublishResumeInv ==
    ASSUME ResumeInv, TypeInv', NEW k \in Key, NEW rows \in BOOLEAN, Publish(k, rows)
    PROVE  ResumeInv'
<1>1. /\ Len(log) \in Nat /\ highWatermark \in Nat /\ highWatermark <= Len(log)
      /\ \A q \in Key : configMap[q] \in Nat
      /\ log \in Seq([key : Key, rows : BOOLEAN])
  BY ServerAssumption DEF ResumeInv, TypeInv, TypeOK, Id, Absent
<1>2. /\ Len(log') = Len(log) + 1
      /\ \A i \in 1 .. Len(log) : log'[i] = log[i]
  BY <1>1 DEF Publish
<1>3. UNCHANGED <<storeVars, contextSet, fetchVars, sseVars, lost>>
  BY DEF Publish
<1>4. highWatermark' <= Len(log')
  BY <1>1, <1>2, <1>3 DEF storeVars
<1>5. HeldVersions'
  <2>1. ASSUME NEW q \in Key, configMap[q] # Absent
        PROVE  configMap[q] \in 1 .. Len(log)
    BY <1>1, <2>1 DEF ResumeInv, HeldVersions, Absent
  <2> QED
    BY <1>2, <1>3, <2>1 DEF ResumeInv, HeldVersions, storeVars
<1>6. NoMissedUpdate'
  <2>1. \A i \in 1 .. highWatermark : log'[i] = log[i]
    BY <1>1, <1>2
  <2> SUFFICES ASSUME NEW j \in (1 .. highWatermark) \ lost
               PROVE  \/ configMap[log[j].key] >= j
                      \/ /\ configMap[log[j].key] = Absent
                         /\ \E i \in j .. highWatermark :
                               log'[i].key = log[j].key /\ ~log'[i].rows
    BY <1>3, <2>1 DEF NoMissedUpdate, HasRows, storeVars
  <2>2. \A i \in j .. highWatermark : log'[i] = log[i]
    BY <1>1, <2>1
  <2> QED
    BY <2>2 DEF ResumeInv, NoMissedUpdate, HasRows
<1>7. SingleWriter' /\ FetchResumes' /\ StreamResumes'
  <2>1. ASSUME NEW m \in Message, Resumes(m) PROVE Resumes(m)'
    BY <1>1, <1>2, <1>3, <2>1, ServerAssumption
    DEF Resumes, GapIsLost, storeVars, Message
  <2>2. fetched \in Message /\ streamed \in Message
    BY DEF ResumeInv, TypeInv, TypeOK
  <2>3. FetchResumes'
    BY <1>3, <2>1, <2>2 DEF ResumeInv, FetchResumes, fetchVars, Resumes
  <2>4. StreamResumes'
    <3>1. Resumes(streamed) => Resumes(streamed)'
      BY <1>3, <2>1, <2>2 DEF sseVars, Resumes
    <3>2. /\ ssePc' = ssePc /\ startAt' = startAt /\ cursor' = cursor
          /\ checkpoint' = checkpoint /\ streamed' = streamed
          /\ highWatermark' = highWatermark /\ lost' = lost
      BY <1>3 DEF sseVars, storeVars
    <3>3. GapIsLost(cursor) => GapIsLost(cursor)'
      BY <3>2 DEF GapIsLost
    <3> QED
      BY <3>1, <3>2, <3>3 DEF ResumeInv, StreamResumes
  <2> QED
    BY <1>3, <2>3, <2>4 DEF ResumeInv, SingleWriter, sseVars, fetchVars
<1> QED
  BY <1>4, <1>5, <1>6, <1>7 DEF ResumeInv

\* An action that touches neither the log nor the map keeps what is said of them.
LEMMA MapUntouched ==
    ASSUME ResumeInv, UNCHANGED <<log, configMap, highWatermark>>, lost \subseteq lost'
    PROVE  highWatermark' <= Len(log') /\ HeldVersions' /\ NoMissedUpdate'
<1>1. highWatermark' <= Len(log') /\ HeldVersions'
  BY DEF ResumeInv, HeldVersions
<1>2. NoMissedUpdate'
  BY DEF ResumeInv, NoMissedUpdate, HasRows
<1> QED
  BY <1>1, <1>2

LEMMA FetchResumeInv ==
    ASSUME ResumeInv, TypeInv', FetchFromServer
    PROVE  ResumeInv'
<1>1. /\ Len(log) \in Nat /\ highWatermark \in Nat /\ highWatermark <= Len(log)
      /\ UNCHANGED log /\ UNCHANGED lost
  BY ServerAssumption
  DEF ResumeInv, TypeInv, TypeOK, FetchFromServer, LoadSucceeds, LoadFails, LoadHangs, Retry,
      FetchSetContext, FetchSetConfigs, FinishedLoading, Then, serverVars
<1>2. fetchPc # "done" /\ ssePc = "idle"
  BY DEF ResumeInv, SingleWriter, FetchFromServer, LoadSucceeds, LoadFails, LoadHangs, Retry,
         FetchSetContext, FetchSetConfigs, FinishedLoading, Then
<1>3. ASSUME UNCHANGED <<configMap, highWatermark>>
      PROVE  highWatermark' <= Len(log') /\ HeldVersions' /\ NoMissedUpdate'
  BY <1>1, <1>3, MapUntouched
<1>4. ASSUME NEW n \in 0 .. Len(log), LoadSucceeds(n) PROVE ResumeInv'
  <2>1. UNCHANGED <<configMap, highWatermark, ssePc>>
    BY <1>4 DEF LoadSucceeds, storeVars, sseVars
  <2>2. Resumes(fetched)'
    BY <1>1, <1>4, <2>1 DEF LoadSucceeds, Resumes, GapIsLost
  <2> QED
    BY <1>2, <1>3, <2>1, <2>2
    DEF ResumeInv, SingleWriter, FetchResumes, StreamResumes
<1>5. CASE LoadFails \/ LoadHangs \/ Retry \/ FinishedLoading
  <2>1. UNCHANGED <<configMap, highWatermark, ssePc>>
        /\ fetchPc' \in {"hangs", "sleep", "load", "then"}
    BY <1>5 DEF LoadFails, LoadHangs, Retry, FinishedLoading, storeVars, sseVars
  <2> QED
    BY <1>2, <1>3, <2>1 DEF ResumeInv, SingleWriter, FetchResumes, StreamResumes
<1>6. CASE FetchSetContext
  <2>1. UNCHANGED <<configMap, highWatermark, ssePc, fetched>>
    BY <1>6 DEF FetchSetContext, storeVars, sseVars
  <2>2. Resumes(fetched)'
    BY <1>1, <1>6, <2>1 DEF ResumeInv, FetchSetContext, FetchResumes, Resumes, GapIsLost
  <2> QED
    BY <1>2, <1>3, <2>1, <2>2
    DEF ResumeInv, SingleWriter, FetchResumes, StreamResumes
<1>7. CASE FetchSetConfigs
  <2>1. TypeOK /\ fetched \in Message /\ Resumes(fetched) /\ SetConfigs(fetched)
    BY <1>7 DEF ResumeInv, TypeInv, TypeOK, FetchResumes, FetchSetConfigs
  <2>2. lost \ ((fetched.after + 1) .. fetched.upto) \subseteq lost'
    BY <1>1
  <2>3. highWatermark' <= Len(log) /\ HeldVersions' /\ NoMissedUpdate'
    BY <1>1, <2>1, <2>2, SetConfigsKeepsUp DEF ResumeInv
  <2>4. ssePc' = "idle" /\ fetchPc' = "finishedLoading"
    BY <1>2, <1>7 DEF FetchSetConfigs, sseVars
  <2> QED
    BY <1>1, <2>3, <2>4 DEF ResumeInv, SingleWriter, FetchResumes, StreamResumes
<1>8. CASE Then
  <2>1. UNCHANGED <<configMap, highWatermark>> /\ ssePc' = "header" /\ fetchPc' = "done"
    BY <1>8 DEF Then, storeVars
  <2> QED
    BY <1>3, <2>1 DEF ResumeInv, SingleWriter, FetchResumes, StreamResumes
<1> QED
  BY <1>4, <1>5, <1>6, <1>7, <1>8 DEF FetchFromServer

LEMMA StreamResumeInv ==
    ASSUME NoSplitReplay, ResumeInv, TypeInv', StartSSEConnection
    PROVE  ResumeInv'
<1>1. /\ Len(log) \in Nat /\ highWatermark \in Nat /\ highWatermark <= Len(log)
      /\ startAt \in Nat /\ cursor \in Nat /\ checkpoint \in Nat
      /\ UNCHANGED log
  BY ServerAssumption
  DEF ResumeInv, TypeInv, TypeOK, StartSSEConnection, ReadWatermark, Connect,
      SubscribeReturns, LibraryReconnects, Deliver, DeliverUndecodable,
      StreamSetContext, StreamSetConfigs, Reconnect, serverVars
<1>2. fetchPc = "done" /\ fetchPc' = "done" /\ SingleWriter' /\ FetchResumes'
  BY DEF ResumeInv, SingleWriter, FetchResumes, StartSSEConnection, ReadWatermark,
         Connect, SubscribeReturns, LibraryReconnects, Deliver, DeliverUndecodable,
         Sendable, StreamSetContext, StreamSetConfigs, Reconnect, fetchVars
<1>3. ASSUME UNCHANGED <<configMap, highWatermark>>, lost \subseteq lost', StreamResumes'
      PROVE  ResumeInv'
  BY <1>1, <1>2, <1>3, MapUntouched DEF ResumeInv
<1>4. CASE ReadWatermark
  <2>1. StreamResumes'
    BY <1>1, <1>4 DEF ReadWatermark, StreamResumes, GetHighWatermark, storeVars
  <2> QED
    BY <1>3, <1>4, <2>1 DEF ReadWatermark, storeVars
<1>5. CASE Connect
  <2>1. StreamResumes'
    <3>1. startAt <= highWatermark /\ (~LibraryRetries => startAt = highWatermark)
      BY <1>5 DEF ResumeInv, StreamResumes, Connect
    <3>2. cursor' = startAt /\ checkpoint' \in Nat
          /\ (cursor' >= highWatermark \/ checkpoint' >= highWatermark)
      BY <1>1, <1>5, <3>1, StreamAssumption DEF NoSplitReplay, Connect
    <3>3. GapIsLost(cursor)'
      BY <1>1, <1>5, <3>1, <3>2 DEF GapIsLost, Connect, storeVars
    <3> QED
      BY <1>5, <3>1, <3>2, <3>3 DEF StreamResumes, Connect, storeVars
  <2> QED
    BY <1>3, <1>5, <2>1 DEF Connect, storeVars
<1>6. CASE SubscribeReturns
  <2>1. StreamResumes'
    BY <1>6 DEF StreamResumes, SubscribeReturns
  <2> QED
    BY <1>3, <1>6, <2>1 DEF SubscribeReturns, storeVars
<1>7. CASE LibraryReconnects
  <2>1. StreamResumes'
    BY <1>7 DEF ResumeInv, StreamResumes, LibraryReconnects, storeVars
  <2> QED
    BY <1>3, <1>7, <2>1 DEF LibraryReconnects, storeVars
<1>8. ASSUME NEW n \in 0 .. Len(log), Deliver(n) PROVE ResumeInv'
  <2>1. StreamResumes'
    <3>1. /\ GapIsLost(cursor) /\ startAt <= highWatermark
          /\ cursor <= n /\ highWatermark <= n
      BY <1>1, <1>8 DEF ResumeInv, StreamResumes, Deliver, Sendable
    <3>2. Resumes(streamed)' /\ cursor' = streamed'.upto
      BY <1>1, <1>8, <3>1 DEF Deliver, Resumes, GapIsLost, storeVars
    <3> QED
      BY <1>8, <3>1, <3>2 DEF StreamResumes, Deliver, storeVars
  <2> QED
    BY <1>3, <1>8, <2>1 DEF Deliver, storeVars
<1>9. ASSUME NEW n \in 0 .. Len(log), DeliverUndecodable(n) PROVE ResumeInv'
  <2>1. StreamResumes'
    <3>1. /\ GapIsLost(cursor) /\ startAt <= highWatermark
          /\ cursor <= n /\ highWatermark <= n /\ ssePc = "connected"
      BY <1>1, <1>9 DEF ResumeInv, StreamResumes, DeliverUndecodable, Sendable
    <3>2. GapIsLost(cursor)' /\ cursor' >= highWatermark
      BY <1>1, <1>9, <3>1 DEF DeliverUndecodable, GapIsLost, storeVars
    <3> QED
      BY <1>9, <3>1, <3>2 DEF StreamResumes, DeliverUndecodable, storeVars
  <2> QED
    BY <1>3, <1>9, <2>1 DEF DeliverUndecodable, storeVars
<1>10. CASE StreamSetContext
  <2>1. StreamResumes'
    BY <1>1, <1>10
    DEF ResumeInv, StreamResumes, StreamSetContext, storeVars, Resumes, GapIsLost
  <2> QED
    BY <1>3, <1>10, <2>1 DEF StreamSetContext, storeVars
<1>11. CASE StreamSetConfigs
  <2>1. /\ TypeOK /\ streamed \in Message /\ Resumes(streamed)
        /\ SetConfigs(streamed) /\ cursor = streamed.upto /\ startAt <= highWatermark
    BY <1>11 DEF ResumeInv, TypeInv, TypeOK, StreamResumes, StreamSetConfigs
  <2>2. lost \ ((streamed.after + 1) .. streamed.upto) \subseteq lost'
    BY <1>11 DEF StreamSetConfigs
  <2>3. /\ highWatermark <= highWatermark' /\ highWatermark' <= Len(log)
        /\ HeldVersions' /\ NoMissedUpdate'
        /\ highWatermark' <= streamed.upto
        /\ \A j \in (highWatermark' + 1) .. streamed.upto : j \in lost'
    BY <1>1, <2>1, <2>2, SetConfigsKeepsUp DEF ResumeInv, GapIsLost
  <2>4. highWatermark' \in Nat
    BY ServerAssumption DEF TypeInv, TypeOK
  <2>5. StreamResumes'
    <3>1. /\ ssePc' = "connected" /\ cursor' = cursor /\ startAt' = startAt
      BY <1>11 DEF StreamSetConfigs
    <3>2. GapIsLost(cursor)' /\ cursor' >= highWatermark'
      BY <1>1, <2>1, <2>3, <2>4, <3>1 DEF GapIsLost
    <3>3. startAt' <= highWatermark'
      BY <1>1, <2>1, <2>3, <2>4, <3>1
    <3> QED
      BY <3>1, <3>2, <3>3 DEF StreamResumes
  <2> QED
    BY <1>1, <1>2, <2>3, <2>5 DEF ResumeInv
<1>12. CASE Reconnect
  <2>1. StreamResumes'
    BY <1>12 DEF StreamResumes, Reconnect
  <2> QED
    BY <1>3, <1>12, <2>1 DEF Reconnect, storeVars
<1> QED
  BY <1>4, <1>5, <1>6, <1>7, <1>8, <1>9, <1>10, <1>11, <1>12
  DEF StartSSEConnection

LEMMA QuietResumeInv ==
    ASSUME ResumeInv, TypeInv', UNCHANGED <<serverVars, storeVars, fetchVars, sseVars, lost>>
    PROVE  ResumeInv'
<1>1. highWatermark' <= Len(log') /\ HeldVersions' /\ NoMissedUpdate'
  BY MapUntouched DEF serverVars, storeVars
<1>2. SingleWriter' /\ FetchResumes' /\ StreamResumes'
  BY DEF ResumeInv, SingleWriter, FetchResumes, StreamResumes, Resumes, GapIsLost,
         serverVars, storeVars, fetchVars, sseVars
<1> QED
  BY <1>1, <1>2 DEF ResumeInv

LEMMA NextResumeInv ==
    ASSUME NoSplitReplay, ResumeInv, [Next]_vars
    PROVE  ResumeInv'
<1>1. TypeInv'
  BY NextTypeInv DEF ResumeInv
<1>2. CASE UNCHANGED vars
  BY <1>1, <1>2, QuietResumeInv DEF vars
<1>3. ASSUME NEW r \in Reader, Evaluate(r) PROVE ResumeInv'
  BY <1>1, <1>3, QuietResumeInv
  DEF Evaluate, GetConfig, GetProjectEnvID, GetContextValue
<1> QED
  BY <1>1, <1>2, <1>3, PublishResumeInv, FetchResumeInv, StreamResumeInv DEF Next

LEMMA SpecResumeInv == ASSUME NoSplitReplay PROVE Spec => []ResumeInv
<1>1. ResumeInv /\ [Next]_vars => ResumeInv'
  BY NextResumeInv
<1> QED
  BY InitResumeInv, <1>1, PTL DEF Spec

\* Whatever the interleaving of publications, retries, reconnects and
\* undecodable messages, resuming from the high watermark misses no update.
THEOREM NoUpdateIsMissed == ASSUME NoSplitReplay PROVE Spec => []NoMissedUpdate
<1>1. ResumeInv => NoMissedUpdate
  BY DEF ResumeInv
<1> QED
  BY SpecResumeInv, <1>1, PTL

-----------------------------------------------------------------------------
\* No rollback

LEMMA SetConfigsForward ==
    ASSUME TypeOK, NEW m \in Message, SetConfigs(m)
    PROVE  /\ highWatermark' >= highWatermark
           /\ \A k \in Key : configMap[k] # Absent /\ configMap'[k] # Absent
                             => configMap'[k] >= configMap[k]
<1>1. /\ m.after \in Nat /\ m.upto \in Nat /\ highWatermark \in Nat
      /\ \A k \in Key : configMap[k] \in Nat
  BY ServerAssumption DEF TypeOK, Message, Id, Absent
<1>2. highWatermark' >= highWatermark
  BY <1>1, SetConfigsResult
<1>3. ASSUME NEW k \in Key, configMap[k] # Absent, configMap'[k] # Absent
      PROVE  configMap'[k] >= configMap[k]
  <2>1. CASE \E i \in Configs(m) : log[i].key = k
    <3>1. PICK i \in Configs(m) : log[i].key = k
      BY <2>1
    <3>2. i \in Nat \ {0} /\ configMap'[k] = setConfig(configMap[k], i)
      BY <1>1, <3>1, ConfigsBounds, SetConfigsResult
    <3> QED
      BY <1>1, <1>3, <3>2, setConfigArrives
  <2>2. CASE \A i \in Configs(m) : log[i].key # k
    <3>1. configMap'[k] = configMap[k]
      BY <2>2, SetConfigsResult
    <3> QED
      BY <1>1, <3>1
  <2> QED
    BY <2>1, <2>2
<1> QED
  BY <1>2, <1>3

LEMMA StepForward ==
    ASSUME TypeInv, [Next]_vars
    PROVE  /\ highWatermark' >= highWatermark
           /\ \A k \in Key : configMap[k] # Absent /\ configMap'[k] # Absent
                             => configMap'[k] >= configMap[k]
<1>1. /\ highWatermark \in Nat /\ \A k \in Key : configMap[k] \in Nat
      /\ fetched \in Message /\ streamed \in Message /\ TypeOK
  BY ServerAssumption DEF TypeInv, TypeOK, Id, Absent
<1>2. CASE UNCHANGED storeVars
  BY <1>1, <1>2 DEF storeVars
<1>3. CASE FetchSetConfigs \/ StreamSetConfigs
  BY <1>1, <1>3, SetConfigsForward DEF FetchSetConfigs, StreamSetConfigs
<1>4. FetchSetConfigs \/ StreamSetConfigs \/ UNCHANGED storeVars
  BY DEF vars, Next, Publish, FetchFromServer, LoadSucceeds, LoadFails, LoadHangs, Retry,
      FetchSetContext, FinishedLoading, Then, StartSSEConnection, ReadWatermark,
      Connect, SubscribeReturns, LibraryReconnects, Deliver, DeliverUndecodable,
      StreamSetContext, Reconnect, Evaluate, GetConfig, GetProjectEnvID,
      GetContextValue
<1> QED
  BY <1>2, <1>3, <1>4

\* Whatever the stream sends again, even in pieces after a reconnect with an
\* old header, no version held is ever replaced by an older one.
THEOREM NoStepRollsBack == Spec => NoRollback
BY SpecTypeInv, StepForward, PTL DEF Spec, NoRollback

-----------------------------------------------------------------------------
\* The store implements the replica

\* When every message decodes, nothing is ever lost.
NothingLost == lost = {}

LEMMA SpecNothingLost == ASSUME ~Undecodable PROVE Spec => []NothingLost
<1>1. Init => NothingLost
  BY DEF Init, NothingLost
<1>2. NothingLost /\ [Next]_vars => NothingLost'
  BY DEF NothingLost, vars, Next, Publish, FetchFromServer, LoadSucceeds, LoadFails, LoadHangs,
      Retry, FetchSetContext, FetchSetConfigs, FinishedLoading, Then,
      StartSSEConnection, ReadWatermark, Connect, SubscribeReturns,
      LibraryReconnects, Deliver, DeliverUndecodable, StreamSetContext,
      StreamSetConfigs, Reconnect, Evaluate, GetConfig, GetProjectEnvID,
      GetContextValue
<1> QED
  BY <1>1, <1>2, PTL DEF Spec

\* A map that misses nothing shows exactly the snapshot at the watermark.
LEMMA ViewIsSnapshot ==
    ASSUME ResumeInv, NothingLost, NEW k \in Key
    PROVE  Replica!IsSnapshot(Visible(k), highWatermark, k)
<1>1. /\ highWatermark \in Nat /\ configMap[k] \in Nat
      /\ configMap[k] # 0 =>
            configMap[k] <= highWatermark /\ log[configMap[k]].key = k
  BY ServerAssumption DEF ResumeInv, TypeInv, TypeOK, Id, Absent, HeldVersions
<1>2. \A j \in 1 .. highWatermark : log[j].key = k =>
          \/ configMap[k] >= j
          \/ /\ configMap[k] = 0
             /\ \E i \in j .. highWatermark : log[i].key = k /\ ~log[i].rows
  BY DEF ResumeInv, NoMissedUpdate, NothingLost, HasRows, Absent
<1>3. CASE configMap[k] # 0 /\ log[configMap[k]].rows
  <2>1. Visible(k) = configMap[k]
    BY <1>3 DEF Visible, HasRows, Absent
  <2>2. \A j \in (configMap[k] + 1) .. highWatermark : log[j].key # k
    BY <1>1, <1>2, <1>3
  <2> QED
    BY <1>1, <1>3, <2>1, <2>2 DEF Replica!IsSnapshot
<1>4. CASE ~(configMap[k] # 0 /\ log[configMap[k]].rows)
  <2>1. Visible(k) = 0
    BY <1>4 DEF Visible, HasRows, Absent
  <2>2. ASSUME NEW i \in 1 .. highWatermark, log[i].key = k, log[i].rows
        PROVE  \E j \in (i + 1) .. highWatermark : log[j].key = k
    <3>1. CASE configMap[k] >= i
      <4>1. configMap[k] # i /\ configMap[k] # 0
        BY <1>4, <2>2, <3>1
      <4> QED
        BY <1>1, <3>1, <4>1
    <3>2. CASE /\ configMap[k] = 0
               /\ \E j \in i .. highWatermark : log[j].key = k /\ ~log[j].rows
      <4>1. PICK j \in i .. highWatermark : log[j].key = k /\ ~log[j].rows
        BY <3>2
      <4>2. j # i
        BY <2>2, <4>1
      <4> QED
        BY <1>1, <4>1, <4>2
    <3> QED
      BY <1>2, <2>2, <3>1, <3>2
  <2> QED
    BY <2>1, <2>2 DEF Replica!IsSnapshot, Replica!Absent
<1> QED
  BY <1>3, <1>4

\* Readers see, at every moment, what was live at the watermark.
ViewInv == \A k \in Key : Replica!IsSnapshot(Visible(k), highWatermark, k)

LEMMA InitIsReplicaInit == Init => Replica!Init
BY DEF Init, Replica!Init, Replica!Absent, Visible, Absent

LEMMA StepIsReplicaStep ==
    ASSUME ResumeInv, ResumeInv', ViewInv', [Next]_vars
    PROVE  [Replica!Next]_(Replica!vars)
<1> DEFINE view == [k \in Key |-> Visible(k)]
<1>1. ASSUME NEW k \in Key, NEW rows \in BOOLEAN, Publish(k, rows)
      PROVE  Replica!Publish
  <2>1. log' = Append(log, [key |-> k, rows |-> rows])
        /\ UNCHANGED <<configMap, highWatermark>>
    BY <1>1 DEF Publish, storeVars
  <2>2. ASSUME NEW q \in Key PROVE Visible(q)' = Visible(q)
    <3>1. /\ log \in Seq([key : Key, rows : BOOLEAN]) /\ configMap[q] \in Nat
          /\ configMap[q] # 0 => configMap[q] \in 1 .. Len(log)
      BY ServerAssumption
      DEF ResumeInv, TypeInv, TypeOK, Id, Absent, HeldVersions
    <3>2. configMap[q] # 0 => log'[configMap[q]] = log[configMap[q]]
      BY <2>1, <3>1
    <3> QED
      BY <2>1, <3>2 DEF Visible, HasRows, Absent
  <2>3. view' = view
    BY <2>2
  <2> QED
    BY <2>1, <2>3 DEF Replica!Publish
<1>2. ASSUME UNCHANGED log PROVE Replica!Advance
  <2>1. highWatermark' >= highWatermark /\ highWatermark' <= Len(log)
    BY <1>2, StepForward DEF ResumeInv
  <2> QED
    BY <1>2, <2>1 DEF ViewInv, Replica!Advance, Replica!IsSnapshot, Replica!Absent
<1>3. UNCHANGED log \/ \E k \in Key, rows \in BOOLEAN : Publish(k, rows)
  BY DEF vars, serverVars, Next, FetchFromServer, LoadSucceeds, LoadFails, LoadHangs, Retry,
      FetchSetContext, FetchSetConfigs, FinishedLoading, Then, StartSSEConnection,
      ReadWatermark, Connect, SubscribeReturns, LibraryReconnects, Deliver,
      DeliverUndecodable, StreamSetContext, StreamSetConfigs, Reconnect, Evaluate,
      GetConfig, GetProjectEnvID, GetContextValue
<1> QED
  BY <1>1, <1>2, <1>3 DEF Replica!Next

\* When every message decodes, the store is a replica of the server: what it
\* shows is always a snapshot of the log, and it only moves forward.
THEOREM StoreImplementsReplica ==
    ASSUME NoSplitReplay, ~Undecodable PROVE Spec => ImplementsReplica
<1>1. ResumeInv /\ NothingLost => ViewInv
  BY ViewIsSnapshot DEF ViewInv
<1>2. ResumeInv /\ ResumeInv' /\ ViewInv' /\ [Next]_vars
        => [Replica!Next]_(Replica!vars)
  BY StepIsReplicaStep
<1>3. Spec => []ResumeInv
  BY SpecResumeInv
<1>4. Spec => []NothingLost
  BY SpecNothingLost
<1> QED
  BY <1>1, <1>2, <1>3, <1>4, InitIsReplicaInit, PTL
  DEF Spec, ImplementsReplica, Replica!Spec
=============================================================================
