-------------------------- MODULE ClientInitProofs --------------------------
(***************************************************************************)
(* Theorems about ClientInit, for every set of callers and keys and for    *)
(* every set of options that a client may be made with.                    *)
(***************************************************************************)
EXTENDS ClientInit, TLAPS

-----------------------------------------------------------------------------
\* Types

\* What the assumption on the constants says of the options of this client.
LEMMA OptionsOfClient ==
    ASSUME options \in Options
    PROVE  /\ Sources \in Seq(StoreType) /\ Sources # <<>>
           /\ Len(Sources) \in Nat \ {0}
           /\ OnInitializationFailure \in {"ReturnError", "ReturnNilMatch"}
           /\ options.withConfigs \in BOOLEAN
<1>1. /\ Sources \in Seq(StoreType) /\ Sources # <<>>
      /\ OnInitializationFailure \in {"ReturnError", "ReturnNilMatch"}
      /\ options.withConfigs \in BOOLEAN
  BY OptionsAssumption DEF Sources, OnInitializationFailure
<1>2. Len(Sources) \in Nat \ {0}
  BY <1>1
<1> QED
  BY <1>1, <1>2

\* The next states of a call are calls.
LEMMA CallTypes ==
    ASSUME call \in [Caller -> Call], NEW c \in Caller
    PROVE  /\ \A p \in {"idle", "waiting", "resolve", "context"} :
                 [call EXCEPT ![c].pc = p] \in [Caller -> Call]
           /\ \A r \in {"none", "value", "notFound", "timeout"} :
                 [call EXCEPT ![c].pc = "idle", ![c].result = r] \in [Caller -> Call]
           /\ \A r \in Call : [call EXCEPT ![c] = r] \in [Caller -> Call]
<1>1. \A r \in Call : [call EXCEPT ![c] = r] \in [Caller -> Call]
  OBVIOUS
<1>2. \A p \in {"idle", "waiting", "resolve", "context"} :
          /\ [call[c] EXCEPT !.pc = p] \in Call
          /\ [call EXCEPT ![c].pc = p] \in [Caller -> Call]
  BY DEF Call
<1>3. ASSUME NEW r \in {"none", "value", "notFound", "timeout"}
      PROVE  [call EXCEPT ![c].pc = "idle", ![c].result = r] \in [Caller -> Call]
  <2>1. PICK f \in [Caller -> Call] : f = [call EXCEPT ![c].pc = "idle"]
    BY <1>2
  <2>2. [f[c] EXCEPT !.result = r] \in Call
    BY DEF Call
  <2>3. [f EXCEPT ![c].result = r] \in [Caller -> Call]
    BY <2>2
  <2> QED
    BY <2>1, <2>3
<1> QED
  BY <1>1, <1>2, <1>3

\* once.Do changes the channel, the Once and the crash flag within their types.
LEMMA CloseOnceTypes ==
    ASSUME CloseOnce, TypeOK
    PROVE  /\ initializationComplete' \in {"nil", "open", "closed"}
           /\ once' \in BOOLEAN
           /\ crashed' \in BOOLEAN
BY DEF CloseOnce, TypeOK, channelVars

LEMMA InitTypes == ASSUME Init PROVE TypeOK
<1>1. Len(Sources) \in Nat
  BY OptionsOfClient DEF Init
<1>2. NoCall \in Call
  BY DEF NoCall, Call
<1>3. call \in [Caller -> Call]
  BY <1>2 DEF Init
<1>4. sourcesBuilt \in 0 .. Len(Sources)
  BY <1>1 DEF Init
<1> QED
  BY <1>3, <1>4 DEF Init, TypeOK

\* Every variable stays within its type: NewClient builds no more stores than
\* it has sources, and every call is in one of its states.
THEOREM ClientTypeCorrectness == Spec => []TypeOK
<1>1. Init => TypeOK
  BY InitTypes
<1>2. TypeOK /\ [Next]_vars => TypeOK'
  <2> SUFFICES ASSUME TypeOK, [Next]_vars PROVE TypeOK'
    OBVIOUS
  <2> USE DEF newClientVars, channelVars, apiVars
  <2>0. Len(Sources) \in Nat
    BY OptionsOfClient DEF TypeOK
  <2>1. CASE BuildConfigStore
    <3>1. options' = options /\ Sources' = Sources
      BY <2>1 DEF BuildConfigStore, Sources
    <3>2. sourcesBuilt' \in 0 .. Len(Sources)
      BY <2>0, <2>1 DEF TypeOK, BuildConfigStore, BuildApiStore, BuildLocalStore
    <3> QED
      BY <2>1, <3>1, <3>2 DEF TypeOK, BuildConfigStore, BuildApiStore, BuildLocalStore
  <2>2. CASE CheckConfigs
    BY <2>2 DEF TypeOK, CheckConfigs, Sources
  <2>3. CASE AssignClient
    BY <2>3 DEF TypeOK, AssignClient, Sources
  <2>4. CASE ReturnClient
    BY <2>4, CloseOnceTypes DEF TypeOK, ReturnClient, Sources
  <2>5. CASE ApiStore
    BY <2>5, CloseOnceTypes
       DEF TypeOK, ApiStore, LoadSucceeds, FinishedLoading, GivesUp, StreamDelivers, Sources
  <2>6. ASSUME NEW c \in Caller, NEW k \in Key, GetConfig(c, k) PROVE TypeOK'
    <3>1. [pc |-> "idle", op |-> "GetConfig", key |-> k,
           result |-> IF Found(k) THEN "value" ELSE "notFound",
           begunClosed |-> initializationComplete = "closed"] \in Call
      BY DEF Call, Op
    <3> QED
      BY <2>6, <3>1, CallTypes DEF TypeOK, GetConfig, Sources
  <2>7. ASSUME NEW c \in Caller, NEW k \in Key, NEW op \in Op, StartCall(c, op, k)
        PROVE  TypeOK'
    <3>1. [pc |-> IF initializationComplete = "closed" /\ TimeoutSeconds > 0
                  THEN "resolve" ELSE "waiting",
           op |-> op, key |-> k, result |-> "none",
           begunClosed |-> initializationComplete = "closed"] \in Call
      BY DEF Call
    <3> QED
      BY <2>7, <3>1, CallTypes DEF TypeOK, StartCall, Sources
  <2>8. ASSUME NEW c \in Caller, Proceed(c) PROVE TypeOK'
    <3>1. CASE AwaitSucceeds(c)
      BY <3>1, CallTypes DEF TypeOK, AwaitSucceeds, Sources
    <3>2. CASE AwaitTimesOut(c)
      <4>1. call' \in [Caller -> Call]
        <5>1. CASE call' = [call EXCEPT ![c].pc = "resolve"]
          BY <5>1, CallTypes DEF TypeOK
        <5>2. CASE Returns(c, "timeout")
          BY <5>2, CallTypes DEF TypeOK, Returns
        <5> QED
          BY <3>2, <5>1, <5>2 DEF AwaitTimesOut
      <4> QED
        BY <3>2, <4>1, CloseOnceTypes DEF TypeOK, AwaitTimesOut, Sources
    <3>3. CASE ResolveKeys(c)
      BY <3>3, CallTypes DEF TypeOK, ResolveKeys, Returns, Sources
    <3>4. CASE ResolveValue(c)
      <4>1. call' \in [Caller -> Call]
        <5>1. CASE call' = [call EXCEPT ![c].pc = "context"]
          BY <5>1, CallTypes DEF TypeOK
        <5>2. ASSUME NEW r \in {"notFound", "value"}, Returns(c, r)
              PROVE  call' \in [Caller -> Call]
          BY <5>2, CallTypes DEF TypeOK, Returns
        <5> QED
          BY <3>4, <5>1, <5>2 DEF ResolveValue
      <4>2. UNCHANGED <<options, newClientPc, sourcesBuilt, anyAsync, initializationComplete,
                        once, apiPc, hasData, crashed>>
        BY <3>4 DEF ResolveValue
      <4> QED
        BY <4>1, <4>2 DEF TypeOK, Sources
    <3>5. CASE GetContextValue(c)
      <4>1. call' \in [Caller -> Call] /\ crashed' \in BOOLEAN
        <5>1. CASE crashed' = TRUE /\ UNCHANGED call
          BY <5>1 DEF TypeOK
        <5>2. CASE Returns(c, "value") /\ UNCHANGED crashed
          <6>1. call' \in [Caller -> Call]
            BY <5>2, CallTypes DEF TypeOK, Returns
          <6> QED
            BY <5>2, <6>1 DEF TypeOK
        <5> QED
          BY <3>5, <5>1, <5>2 DEF GetContextValue
      <4>2. UNCHANGED <<options, newClientPc, sourcesBuilt, anyAsync, initializationComplete,
                        once, apiPc, hasData>>
        BY <3>5 DEF GetContextValue
      <4> QED
        BY <4>1, <4>2 DEF TypeOK, Sources
    <3> QED
      BY <2>8, <3>1, <3>2, <3>3, <3>4, <3>5 DEF Proceed
  <2>9. CASE UNCHANGED vars
    BY <2>9 DEF TypeOK, vars, Sources
  <2> QED
    BY <2>1, <2>2, <2>3, <2>4, <2>5, <2>6, <2>7, <2>8, <2>9 DEF Next, NewClient
<1> QED
  BY <1>1, <1>2, PTL DEF Spec

-----------------------------------------------------------------------------
\* The inductive invariant

HasApi == Contains(Sources, "API")

\* A client that exists has all its stores, and loads in the background exactly
\* if the API is one of them.
BuildInv ==
    /\ newClientPc \in {"assign", "sync", "ready"} => sourcesBuilt = Len(Sources)
    /\ anyAsync <=> \E i \in 1 .. sourcesBuilt : Sources[i] = "API"
    /\ ~anyAsync => apiPc = "off"
    /\ apiPc = "loaded" => hasData

\* The channel is made with the client, and closed exactly if the Once is spent.
\* Without a background source it is closed before a call can look at it.
ChannelInv ==
    /\ newClientPc \in {"stores", "assign", "failed"} => initializationComplete = "nil"
    /\ newClientPc \in {"sync", "ready"} =>
          initializationComplete # "nil" /\ (once <=> initializationComplete = "closed")
    /\ newClientPc = "ready" /\ ~HasApi => initializationComplete = "closed"

\* There are no calls before there is a client.
CallInv == \A c \in Caller : newClientPc # "ready" => call[c] = NoCall

\* Under ReturnError only data opens the way to an answer.
DataInv ==
    OnInitializationFailure = "ReturnError" /\ HasApi =>
        /\ initializationComplete = "closed" => hasData
        /\ \A c \in Caller :
              /\ call[c].pc \in {"resolve", "context"} => hasData
              /\ call[c].op # "GetConfig" /\ call[c].result \in {"value", "notFound"}
                 => hasData

InitInv == TypeOK /\ BuildInv /\ ChannelInv /\ CallInv /\ DataInv

\* The options with which the process is safe, if the API is a source:
\* WithConfigs is not used with it, no source comes after it (its store may
\* fail to build when the API's goroutine is on its way), and a call that timed
\* out either gets an error or finds nothing in other stores.
SafeOptions(o) ==
    Contains(o.sources, "API") =>
        /\ ~o.withConfigs
        /\ \A i \in 1 .. Len(o.sources) - 1 : o.sources[i] # "API"
        /\ o.onInitializationFailure = "ReturnError" \/ Len(o.sources) = 1

CrashInv ==
    /\ crashed => newClientPc \in {"stores", "assign"}
    /\ newClientPc = "stores" /\ apiPc # "off" => sourcesBuilt = Len(Sources)
    /\ newClientPc = "failed" => apiPc = "off"
    /\ \A c \in Caller : call[c].pc = "context" /\ HasApi => hasData

\* A timeout that time.Duration(seconds) does not round to zero.
PatientOptions(o) == o.timeoutTenths >= 10

PatientInv ==
    \A c \in Caller :
        /\ call[c].begunClosed => call[c].pc # "waiting" /\ call[c].result # "timeout"
        /\ ~HasApi => call[c].pc # "waiting"

-----------------------------------------------------------------------------
\* The invariant is preserved

\* The options of a client never change, nor do its sources.
LEMMA OptionsStay ==
    ASSUME [Next]_vars
    PROVE  /\ options' = options /\ Sources' = Sources /\ HasApi' = HasApi
           /\ OnInitializationFailure' = OnInitializationFailure
<1>1. options' = options
  BY DEF Next, NewClient, BuildConfigStore, CheckConfigs, AssignClient, ReturnClient,
         ApiStore, LoadSucceeds, FinishedLoading, GivesUp, StreamDelivers, GetConfig,
         StartCall, Proceed, AwaitSucceeds, AwaitTimesOut, ResolveKeys, ResolveValue,
         GetContextValue, vars
<1> QED
  BY <1>1 DEF Sources, HasApi, OnInitializationFailure, Contains

\* A step of a call is one of a caller in the client that NewClient returned,
\* or in a call that was begun there; it builds nothing and loads nothing.
CallStep(c) ==
    \/ \E k \in Key : GetConfig(c, k)
    \/ \E k \in Key, op \in Op : StartCall(c, op, k)
    \/ Proceed(c)

LEMMA CallFrame ==
    ASSUME NEW c \in Caller, CallStep(c)
    PROVE  UNCHANGED <<newClientVars, apiVars>>
BY DEF CallStep, GetConfig, StartCall, Proceed, AwaitSucceeds, AwaitTimesOut, ResolveKeys,
       ResolveValue, GetContextValue

LEMMA Steps ==
    ASSUME [Next]_vars
    PROVE  \/ NewClient
           \/ ApiStore
           \/ \E c \in Caller : CallStep(c)
           \/ UNCHANGED vars
BY DEF Next, CallStep

LEMMA NewClientFrame == ASSUME NewClient PROVE UNCHANGED call
BY DEF NewClient, BuildConfigStore, CheckConfigs, AssignClient, ReturnClient

LEMMA ApiStoreFrame == ASSUME ApiStore PROVE UNCHANGED <<newClientVars, call>>
BY DEF ApiStore, LoadSucceeds, FinishedLoading, GivesUp, StreamDelivers

LEMMA BuildStep ==
    ASSUME TypeOK, BuildInv, [Next]_vars
    PROVE  BuildInv'
<1> USE DEF newClientVars, apiVars
<1>0. /\ Sources' = Sources /\ Len(Sources) \in Nat /\ sourcesBuilt \in Nat
      /\ sourcesBuilt <= Len(Sources)
  BY OptionsStay, OptionsOfClient DEF TypeOK
<1>1. CASE BuildConfigStore
  <2>1. CASE BuildApiStore /\ Sources[sourcesBuilt + 1] = "API"
    BY <1>0, <1>1, <2>1 DEF BuildInv, BuildConfigStore, BuildApiStore
  <2>2. CASE BuildLocalStore /\ Sources[sourcesBuilt + 1] # "API"
    BY <1>0, <1>1, <2>2 DEF BuildInv, BuildConfigStore, BuildLocalStore
  <2> QED
    BY <1>1, <2>1, <2>2 DEF BuildConfigStore
<1>2. CASE CheckConfigs \/ AssignClient \/ ReturnClient
  BY <1>0, <1>2 DEF BuildInv, CheckConfigs, AssignClient, ReturnClient
<1>3. CASE ApiStore
  BY <1>0, <1>3 DEF BuildInv, ApiStore, LoadSucceeds, FinishedLoading, GivesUp, StreamDelivers
<1>4. ASSUME NEW c \in Caller, CallStep(c) PROVE BuildInv'
  BY <1>0, <1>4, CallFrame DEF BuildInv
<1>5. CASE UNCHANGED vars
  BY <1>0, <1>5 DEF BuildInv, vars
<1> QED
  BY <1>1, <1>2, <1>3, <1>4, <1>5, Steps DEF NewClient

LEMMA ChannelStep ==
    ASSUME TypeOK, BuildInv, ChannelInv, CallInv, [Next]_vars
    PROVE  ChannelInv'
<1> USE DEF newClientVars, channelVars, apiVars
<1>0. HasApi' = HasApi
  BY OptionsStay
<1>1. CASE BuildConfigStore \/ CheckConfigs \/ AssignClient
  BY <1>0, <1>1 DEF ChannelInv, BuildConfigStore, BuildApiStore, BuildLocalStore,
                    CheckConfigs, AssignClient
<1>2. CASE ReturnClient
  <2>1. anyAsync <=> HasApi
    BY <1>2 DEF ReturnClient, BuildInv, HasApi, Contains
  <2> QED
    BY <1>0, <1>2, <2>1 DEF ChannelInv, ReturnClient, CloseOnce, TypeOK
<1>3. CASE ApiStore
  BY <1>0, <1>3 DEF ChannelInv, ApiStore, LoadSucceeds, FinishedLoading, GivesUp,
                    StreamDelivers, CloseOnce, TypeOK
<1>4. ASSUME NEW c \in Caller, CallStep(c) PROVE ChannelInv'
  <2>1. CASE newClientPc = "ready"
    BY <1>0, <1>4, <2>1
       DEF CallStep, ChannelInv, GetConfig, StartCall, Proceed, AwaitSucceeds,
           AwaitTimesOut, ResolveKeys, ResolveValue, GetContextValue, CloseOnce, TypeOK
  <2>2. CASE newClientPc # "ready"
    BY <1>4, <2>2
       DEF CallInv, NoCall, CallStep, GetConfig, StartCall, Proceed, AwaitSucceeds,
           AwaitTimesOut, ResolveKeys, ResolveValue, GetContextValue
  <2> QED
    BY <2>1, <2>2
<1>5. CASE UNCHANGED vars
  BY <1>0, <1>5 DEF ChannelInv, vars
<1> QED
  BY <1>1, <1>2, <1>3, <1>4, <1>5, Steps DEF NewClient

LEMMA CallsStep ==
    ASSUME CallInv, [Next]_vars
    PROVE  CallInv'
<1> USE DEF newClientVars
<1>1. CASE NewClient
  BY <1>1, NewClientFrame
     DEF CallInv, NewClient, BuildConfigStore, BuildApiStore, BuildLocalStore, CheckConfigs,
         AssignClient, ReturnClient
<1>2. CASE ApiStore
  BY <1>2, ApiStoreFrame DEF CallInv
<1>3. ASSUME NEW c \in Caller, CallStep(c) PROVE CallInv'
  <2>1. CASE newClientPc = "ready"
    BY <1>3, <2>1, CallFrame DEF CallInv
  <2>2. CASE newClientPc # "ready"
    BY <1>3, <2>2
       DEF CallInv, NoCall, CallStep, GetConfig, StartCall, Proceed, AwaitSucceeds,
           AwaitTimesOut, ResolveKeys, ResolveValue, GetContextValue
  <2> QED
    BY <2>1, <2>2
<1>4. CASE UNCHANGED vars
  BY <1>4 DEF CallInv, vars
<1> QED
  BY <1>1, <1>2, <1>3, <1>4, Steps

\* Whatever the calls of DataInv may do: a call that gets on has data to look at.
LEMMA DataStep ==
    ASSUME TypeOK, TypeOK', BuildInv, ChannelInv, CallInv, DataInv, [Next]_vars
    PROVE  DataInv'
<1> USE DEF newClientVars, channelVars, apiVars
<1> SUFFICES ASSUME OnInitializationFailure = "ReturnError", HasApi
             PROVE  /\ initializationComplete' = "closed" => hasData'
                    /\ \A c \in Caller :
                          /\ call'[c].pc \in {"resolve", "context"} => hasData'
                          /\ call'[c].op # "GetConfig"
                                /\ call'[c].result \in {"value", "notFound"} => hasData'
  BY OptionsStay DEF DataInv
<1>0. /\ initializationComplete = "closed" => hasData
      /\ \A c \in Caller :
            /\ call[c].pc \in {"resolve", "context"} => hasData
            /\ call[c].op # "GetConfig" /\ call[c].result \in {"value", "notFound"} => hasData
  BY DEF DataInv
<1>1. CASE NewClient
  <2>1. CASE ReturnClient
    <3>1. anyAsync
      BY <2>1 DEF ReturnClient, BuildInv, HasApi, Contains
    <3> QED
      BY <1>0, <2>1, <3>1 DEF ReturnClient
  <2>2. CASE BuildConfigStore \/ CheckConfigs \/ AssignClient
    BY <1>0, <2>2 DEF BuildConfigStore, BuildApiStore, BuildLocalStore, CheckConfigs, AssignClient
  <2> QED
    BY <1>1, <2>1, <2>2 DEF NewClient
<1>2. CASE ApiStore
  <2>1. UNCHANGED call
    BY <1>2, ApiStoreFrame
  <2>2. hasData => hasData'
    BY <1>2 DEF ApiStore, LoadSucceeds, FinishedLoading, GivesUp, StreamDelivers
  <2>3. initializationComplete' = "closed" => hasData'
    BY <1>0, <1>2 DEF ApiStore, LoadSucceeds, FinishedLoading, GivesUp, StreamDelivers,
                      CloseOnce, BuildInv
  <2> QED
    BY <1>0, <2>1, <2>2, <2>3
<1>3. ASSUME NEW c \in Caller, CallStep(c) PROVE DataInv'
  <2>1. hasData' = hasData
    BY <1>3, CallFrame
  <2>2. CASE hasData
    BY <2>1, <2>2 DEF DataInv
  <2>3. CASE ~hasData
    <3>1. initializationComplete # "closed" /\ call[c].pc \notin {"resolve", "context"}
      BY <1>0, <2>3
    <3>2. initializationComplete' = initializationComplete
      BY <1>3, <3>1 DEF CallStep, GetConfig, StartCall, Proceed, AwaitSucceeds, AwaitTimesOut,
                        ResolveKeys, ResolveValue, GetContextValue
    <3>3. \A d \in Caller \ {c} : call'[d] = call[d]
      BY <1>3, <3>1 DEF TypeOK, CallStep, GetConfig, StartCall, Proceed, AwaitSucceeds,
                        AwaitTimesOut, ResolveKeys, ResolveValue, GetContextValue, Returns
    <3>4. /\ call'[c].pc \notin {"resolve", "context"}
          /\ call'[c].op = "GetConfig" \/ call'[c].result \notin {"value", "notFound"}
      <4>1. ASSUME NEW k \in Key, GetConfig(c, k)
            PROVE  call'[c].pc = "idle" /\ call'[c].op = "GetConfig"
        BY <4>1 DEF TypeOK, GetConfig
      <4>2. ASSUME NEW k \in Key, NEW op \in Op, StartCall(c, op, k)
            PROVE  call'[c].pc = "waiting" /\ call'[c].result = "none"
        BY <3>1, <4>2 DEF TypeOK, StartCall
      <4>3. CASE Proceed(c)
        <5>1. Returns(c, "timeout")
          BY <3>1, <4>3 DEF Proceed, AwaitSucceeds, AwaitTimesOut, ResolveKeys, ResolveValue,
                            GetContextValue
        <5> QED
          BY <5>1 DEF TypeOK, Call, Returns
      <4> QED
        BY <1>3, <4>1, <4>2, <4>3 DEF CallStep
    <3> QED
      BY <1>0, <2>1, <2>3, <3>1, <3>2, <3>3, <3>4 DEF DataInv
  <2> QED
    BY <2>2, <2>3
<1>4. CASE UNCHANGED vars
  BY <1>0, <1>4 DEF vars
<1> QED
  BY <1>1, <1>2, <1>3, <1>4, Steps, OptionsStay DEF DataInv

LEMMA InitInvAlways == Spec => []InitInv
<1>1. Init => InitInv
  <2> SUFFICES ASSUME Init, TypeOK PROVE BuildInv /\ ChannelInv /\ CallInv /\ DataInv
    BY InitTypes DEF InitInv
  <2> QED
    BY DEF Init, BuildInv, ChannelInv, CallInv, DataInv, NoCall
<1>2. InitInv /\ TypeOK' /\ [Next]_vars => InitInv'
  BY BuildStep, ChannelStep, CallsStep, DataStep DEF InitInv
<1> QED
  BY <1>1, <1>2, ClientTypeCorrectness, PTL DEF Spec

-----------------------------------------------------------------------------
\* The theorems

\* Under ReturnError a call that waits for initialization answers from a store
\* that holds the server's data, or reports the timeout (client.go:495-507),
\* for every list of sources that has the API in it.
THEOREM AnswersHaveData == Spec => []AnswersComeFromInitializedStore
<1>1. InitInv => AnswersComeFromInitializedStore
  BY DEF InitInv, DataInv, AnswersComeFromInitializedStore, HasApi
<1> QED
  BY <1>1, InitInvAlways, PTL

\* Closing is safe once there is a channel.
LEMMA CloseOnceIsSafe ==
    ASSUME CloseOnce, ChannelInv, newClientPc \in {"sync", "ready"}, TypeOK
    PROVE  crashed' = crashed
BY DEF CloseOnce, ChannelInv, TypeOK, channelVars

\* With safe options, a rule that reads the context is reached with data only.
LEMMA FoundMeansData ==
    ASSUME TypeOK, DataInv, SafeOptions(options), HasApi,
           NEW c \in Caller, call[c].pc = "resolve", NEW k, Found(k)
    PROVE  hasData
<1>1. CASE OnInitializationFailure = "ReturnError"
  BY <1>1 DEF DataInv
<1>2. CASE Len(Sources) = 1
  <2>1. Sources[1] = "API"
    BY <1>2 DEF HasApi, Contains
  <2>2. DOMAIN Sources = {1}
    BY <1>2, OptionsOfClient DEF TypeOK
  <2>3. ToSet(Sources) = {"API"}
    BY <2>1, <2>2 DEF ToSet
  <2> QED
    BY <2>3 DEF Found
<1> QED
  BY <1>1, <1>2 DEF SafeOptions, HasApi, Sources, OnInitializationFailure

LEMMA CrashStep ==
    ASSUME InitInv, SafeOptions(options), CrashInv, [Next]_vars
    PROVE  CrashInv'
<1> USE DEF newClientVars, channelVars, apiVars, InitInv
<1>0. /\ Sources' = Sources /\ HasApi' = HasApi /\ Len(Sources) \in Nat
      /\ sourcesBuilt \in 0 .. Len(Sources)
  BY OptionsStay, OptionsOfClient DEF TypeOK
<1>1. CASE BuildConfigStore
  <2>1. apiPc = "off"
    BY <1>0, <1>1 DEF BuildConfigStore, CrashInv
  <2>2. CASE BuildApiStore /\ Sources[sourcesBuilt + 1] = "API"
    <3>1. sourcesBuilt + 1 = Len(Sources)
      BY <1>0, <1>1, <2>2 DEF BuildConfigStore, SafeOptions, Sources, Contains
    <3> QED
      BY <1>0, <1>1, <2>2, <3>1 DEF BuildConfigStore, BuildApiStore, CrashInv
  <2>3. CASE BuildLocalStore
    BY <1>0, <1>1, <2>1, <2>3 DEF BuildConfigStore, BuildLocalStore, CrashInv, Running
  <2> QED
    BY <1>1, <2>2, <2>3 DEF BuildConfigStore
<1>2. CASE CheckConfigs
  <2>1. apiPc # "off" => HasApi
    BY <1>2 DEF CheckConfigs, BuildInv, HasApi, Contains
  <2>2. apiPc # "off" => ~options.withConfigs
    BY <2>1 DEF SafeOptions, HasApi, Sources
  <2> QED
    BY <1>0, <1>2, <2>2 DEF CheckConfigs, CrashInv, Running
<1>3. CASE AssignClient
  BY <1>0, <1>3 DEF AssignClient, CrashInv, Running
<1>4. CASE ReturnClient
  <2>1. crashed' = crashed
    BY <1>4, CloseOnceIsSafe DEF ReturnClient
  <2> QED
    BY <1>0, <1>4, <2>1 DEF ReturnClient, CrashInv, Running
<1>5. CASE ApiStore
  <2>1. hasData => hasData'
    BY <1>5 DEF ApiStore, LoadSucceeds, FinishedLoading, GivesUp, StreamDelivers
  <2>2. apiPc' # "off" /\ apiPc # "off"
    BY <1>5 DEF ApiStore, LoadSucceeds, FinishedLoading, GivesUp, StreamDelivers
  <2>3. crashed' => newClientPc \in {"stores", "assign"}
    <3>1. CASE FinishedLoading
      BY <2>2, <3>1, CloseOnceIsSafe DEF FinishedLoading, CrashInv, TypeOK, Running
    <3>2. CASE LoadSucceeds \/ GivesUp \/ StreamDelivers
      BY <3>2 DEF LoadSucceeds, GivesUp, StreamDelivers, CrashInv
    <3> QED
      BY <1>5, <3>1, <3>2 DEF ApiStore
  <2> QED
    BY <1>0, <1>5, <2>1, <2>2, <2>3, ApiStoreFrame DEF CrashInv
<1>6. ASSUME NEW c \in Caller, CallStep(c) PROVE CrashInv'
  <2>1. newClientPc = "ready"
    BY <1>6 DEF CallInv, NoCall, CallStep, GetConfig, StartCall, Proceed, AwaitSucceeds,
                AwaitTimesOut, ResolveKeys, ResolveValue, GetContextValue
  <2>2. ~crashed
    BY <2>1 DEF CrashInv
  <2>3. ~crashed'
    <3>1. CASE AwaitTimesOut(c)
      BY <2>1, <2>2, <3>1, CloseOnceIsSafe DEF AwaitTimesOut
    <3>2. CASE GetContextValue(c)
      BY <2>2, <3>2 DEF GetContextValue, CrashInv, HasApi
    <3> QED
      BY <1>6, <2>2, <3>1, <3>2
         DEF CallStep, GetConfig, StartCall, Proceed, AwaitSucceeds, ResolveKeys, ResolveValue
  <2>4. \A d \in Caller : call'[d].pc = "context" /\ HasApi => hasData
    <3>1. \A d \in Caller \ {c} : call'[d] = call[d]
      BY <1>6 DEF TypeOK, CallStep, GetConfig, StartCall, Proceed, AwaitSucceeds, AwaitTimesOut,
                  ResolveKeys, ResolveValue, GetContextValue, Returns
    <3>2. ASSUME call'[c].pc = "context", HasApi PROVE hasData
      <4>1. CASE ResolveValue(c)
        BY <3>2, <4>1, FoundMeansData DEF ResolveValue, Returns, TypeOK, Call
      <4>2. CASE call[c].pc = "context"
        BY <3>2, <4>2 DEF CrashInv
      <4>3. CASE call[c].pc # "context" /\ ~ResolveValue(c)
        <5>1. \A k \in Key : GetConfig(c, k) => call'[c].pc = "idle"
          BY DEF GetConfig, TypeOK
        <5>2. \A k \in Key, op \in Op : StartCall(c, op, k) => call'[c].pc # "context"
          BY DEF StartCall, TypeOK
        <5>3. Proceed(c) => call'[c].pc # "context"
          BY <4>3 DEF Proceed, AwaitSucceeds, AwaitTimesOut, ResolveKeys, GetContextValue,
                      Returns, TypeOK, Call
        <5> QED
          BY <1>6, <3>2, <5>1, <5>2, <5>3 DEF CallStep
      <4> QED
        BY <4>1, <4>2, <4>3
    <3> QED
      BY <3>1, <3>2 DEF CrashInv
  <2> QED
    BY <1>0, <1>6, <2>1, <2>3, <2>4, CallFrame DEF CrashInv
<1>7. CASE UNCHANGED vars
  BY <1>0, <1>7 DEF CrashInv, vars
<1> QED
  BY <1>1, <1>2, <1>3, <1>4, <1>5, <1>6, <1>7, Steps DEF NewClient

\* A client made with safe options never takes its process down once NewClient
\* has returned: its channel is closed once, by the first of the load, the
\* constructor and the calls that time out, and never while nil
\* (client.go:103-107, 141-145, 255-261, 496-502), and no rule reads a context set that
\* is not there (apiconfigstore.go:78).
THEOREM LibraryNeverCrashes ==
    ASSUME \A o \in Options : SafeOptions(o)
    PROVE  Spec => []NeverCrashes
<1>1. Init => CrashInv
  BY DEF Init, CrashInv, NoCall
<1>2. InitInv /\ CrashInv /\ [Next]_vars => CrashInv'
  BY CrashStep DEF InitInv, TypeOK
<1>3. CrashInv => NeverCrashes
  BY DEF CrashInv, NeverCrashes
<1> QED
  BY <1>1, <1>2, <1>3, InitInvAlways, PTL DEF Spec

LEMMA PatientStep ==
    ASSUME InitInv, PatientOptions(options), PatientInv, [Next]_vars
    PROVE  PatientInv'
<1> USE DEF newClientVars, channelVars, apiVars, InitInv
<1>0. HasApi' = HasApi
  BY OptionsStay
<1>1. CASE NewClient \/ ApiStore \/ UNCHANGED vars
  BY <1>0, <1>1, NewClientFrame, ApiStoreFrame DEF PatientInv, vars
<1>2. ASSUME NEW c \in Caller, CallStep(c) PROVE PatientInv'
  <2>1. \A d \in Caller \ {c} : call'[d] = call[d]
    BY <1>2 DEF TypeOK, CallStep, GetConfig, StartCall, Proceed, AwaitSucceeds, AwaitTimesOut,
                ResolveKeys, ResolveValue, GetContextValue, Returns
  <2>2. /\ call'[c].begunClosed => call'[c].pc # "waiting" /\ call'[c].result # "timeout"
        /\ ~HasApi => call'[c].pc # "waiting"
    <3>1. ASSUME NEW k \in Key, GetConfig(c, k)
          PROVE  call'[c].pc = "idle" /\ call'[c].result # "timeout"
      BY <3>1 DEF GetConfig, TypeOK
    <3>2. ASSUME NEW k \in Key, NEW op \in Op, StartCall(c, op, k)
          PROVE  /\ call'[c].begunClosed => call'[c].pc = "resolve"
                 /\ ~HasApi => call'[c].pc = "resolve"
                 /\ call'[c].result = "none"
      <4>1. TimeoutSeconds > 0
        <5>1. options.timeoutTenths \in Nat
          BY OptionsAssumption DEF TypeOK
        <5> QED
          BY <5>1 DEF TimeoutSeconds, PatientOptions
      <4>2. ~HasApi => initializationComplete = "closed"
        BY <3>2 DEF StartCall, ChannelInv
      <4> QED
        BY <3>2, <4>1, <4>2 DEF StartCall, TypeOK
    <3>3. CASE Proceed(c)
      <4>1. call'[c].pc # "waiting" /\ call'[c].begunClosed = call[c].begunClosed
        BY <3>3 DEF Proceed, AwaitSucceeds, AwaitTimesOut, ResolveKeys, ResolveValue,
                    GetContextValue, Returns, TypeOK, Call
      <4>2. call'[c].result = "timeout" => call[c].result = "timeout" \/ call[c].pc = "waiting"
        BY <3>3 DEF Proceed, AwaitSucceeds, AwaitTimesOut, ResolveKeys, ResolveValue,
                    GetContextValue, Returns, TypeOK, Call
      <4> QED
        BY <4>1, <4>2 DEF PatientInv
    <3> QED
      BY <1>2, <3>1, <3>2, <3>3 DEF CallStep
  <2> QED
    BY <1>0, <2>1, <2>2 DEF PatientInv
<1> QED
  BY <1>1, <1>2, Steps

\* A call that begins after initialization is answered however the select of
\* awaitInitialization falls, and without the API no call waits, if the timeout
\* is a second or more (client.go:554-562).
THEOREM InitializedClientsAnswer ==
    ASSUME \A o \in Options : PatientOptions(o)
    PROVE  Spec => []InitializedClientNeverTimesOut
<1>1. Init => PatientInv
  BY DEF Init, PatientInv, NoCall
<1>2. InitInv /\ PatientInv /\ [Next]_vars => PatientInv'
  BY PatientStep DEF InitInv, TypeOK
<1>3. PatientInv => InitializedClientNeverTimesOut
  BY DEF PatientInv, InitializedClientNeverTimesOut, HasApi
<1> QED
  BY <1>1, <1>2, <1>3, InitInvAlways, PTL DEF Spec
=============================================================================
