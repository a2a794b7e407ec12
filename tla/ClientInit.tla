----------------------------- MODULE ClientInit -----------------------------
(***************************************************************************)
(* How a client comes to life: NewClient builds its stores and starts the  *)
(* API goroutine, the first load closes the channel initializationComplete *)
(* once, and calls wait for the channel or for their timeout.              *)
(*                                                                         *)
(* The API store is reduced to what a caller can tell: whether it holds    *)
(* data yet (hasData), and whether its goroutine is still loading.         *)
(* ApiConfigStore models it in full.                                       *)
(***************************************************************************)
EXTENDS Integers, Sequences, SequencesExt

CONSTANTS
    Caller,                  \* goroutines that call the client
    Key,                     \* keys they ask for
    LocalKey,                \* keys the stores other than the API hold
    Options                  \* the options that clients are made with

StoreType == {"API", "DataFile", "ConfigDump", "Memory"}

\* Of the options: the types of the sources in order; whether WithConfigs gave
\* any configs; and InitializationTimeoutSeconds, in tenths.
ASSUME OptionsAssumption ==
    /\ LocalKey \subseteq Key
    /\ \A o \in Options :
          /\ o.sources \in Seq(StoreType) /\ o.sources # <<>>
          /\ o.withConfigs \in BOOLEAN
          /\ o.onInitializationFailure \in {"ReturnError", "ReturnNilMatch"}
          /\ o.timeoutTenths \in Nat

VARIABLES
    options,                \* the options of this client
    newClientPc,            \* where NewClient is
    sourcesBuilt,           \* how many of Sources it has built stores for
    anyAsync,               \* one of them loads in the background
    initializationComplete, \* the channel: "nil", "open" or "closed"
    once,                   \* closeInitializationCompleteOnce is spent
    apiPc,                  \* where the goroutine of the API store is
    hasData,                \* the API store's maps and contextSet are set
    crashed,                \* the process panicked
    call                    \* the call each caller has in progress, or its last

newClientVars == <<newClientPc, sourcesBuilt, anyAsync>>
channelVars   == <<initializationComplete, once, crashed>>
apiVars       == <<apiPc, hasData>>

vars == <<options, newClientVars, channelVars, apiVars, call>>

Op == {"GetValue", "Keys", "GetConfig"}

\* `begunClosed`: the channel was closed when the call began to wait for it.
Call == [pc : {"idle", "waiting", "resolve", "context"},
         op : Op \cup {"none"}, key : Key \cup {"none"}, begunClosed : BOOLEAN,
         result : {"none", "value", "notFound", "timeout"}]

NoCall == [pc |-> "idle", op |-> "none", key |-> "none", begunClosed |-> FALSE,
           result |-> "none"]

Sources                 == options.sources
OnInitializationFailure == options.onInitializationFailure

\* time.Duration(seconds) * time.Second: the fraction is cut off.
TimeoutSeconds == options.timeoutTenths \div 10

Init ==
    /\ options \in Options
    /\ newClientPc = "stores"
    /\ sourcesBuilt = 0
    /\ anyAsync = FALSE
    /\ initializationComplete = "nil"
    /\ once = FALSE
    /\ apiPc = "off"
    /\ hasData = FALSE
    /\ crashed = FALSE
    /\ call = [c \in Caller |-> NoCall]

\* A panic in any goroutine ends the process.
Running == ~crashed

\* Operators named ...Mistake are plausible errors in the definition that
\* follows them; the properties are checked to tell them apart.

\* once.Do(close): closing a nil channel panics.
CloseOnce ==
    \/ /\ once
       /\ UNCHANGED channelVars
    \/ /\ ~once
       /\ once' = TRUE
       /\ IF initializationComplete = "open"
          THEN initializationComplete' = "closed" /\ UNCHANGED crashed
          ELSE crashed' = TRUE /\ UNCHANGED initializationComplete

-----------------------------------------------------------------------------
\* NewClient

BuildApiStoreCountsTwiceMistake ==
    /\ apiPc' = "loading"
    /\ anyAsync' = TRUE
    /\ sourcesBuilt' = sourcesBuilt + 2
    /\ UNCHANGED <<newClientPc, hasData>>

BuildApiStore ==
    /\ apiPc' = "loading"
    /\ anyAsync' = TRUE
    /\ sourcesBuilt' = sourcesBuilt + 1
    /\ UNCHANGED <<newClientPc, hasData>>

\* The other stores read their file at once; a file may be missing or bad.
BuildLocalStore ==
    /\ \/ sourcesBuilt' = sourcesBuilt + 1 /\ UNCHANGED newClientPc
       \/ newClientPc' = "failed" /\ UNCHANGED sourcesBuilt
    /\ UNCHANGED <<anyAsync, apiVars>>

BuildConfigStore ==
    /\ Running
    /\ newClientPc = "stores"
    /\ sourcesBuilt < Len(Sources)
    /\ IF Sources[sourcesBuilt + 1] = "API" THEN BuildApiStore ELSE BuildLocalStore
    /\ UNCHANGED <<options, channelVars, call>>

\* "cannot use WithConfigs with other sources"
CheckConfigs ==
    /\ Running
    /\ newClientPc = "stores"
    /\ sourcesBuilt = Len(Sources)
    /\ newClientPc' = IF (Len(Sources) > 1 \/ Sources[1] # "Memory") /\ options.withConfigs
                      THEN "failed" ELSE "assign"
    /\ UNCHANGED <<options, sourcesBuilt, anyAsync, channelVars, apiVars, call>>

AssignClientForgetsChannelMistake ==
    /\ Running
    /\ newClientPc = "assign"
    /\ once' = FALSE
    /\ newClientPc' = "sync"
    /\ UNCHANGED <<options, sourcesBuilt, anyAsync, initializationComplete, crashed, apiVars, call>>

\* client = Client{...}: a new channel and a fresh Once.  The closure that the
\* API store calls shares this variable; the copy is taken to be one step.
AssignClient ==
    /\ Running
    /\ newClientPc = "assign"
    /\ initializationComplete' = "open"
    /\ once' = FALSE
    /\ newClientPc' = "sync"
    /\ UNCHANGED <<options, sourcesBuilt, anyAsync, crashed, apiVars, call>>

ReturnClient ==
    /\ Running
    /\ newClientPc = "sync"
    /\ IF anyAsync THEN UNCHANGED channelVars ELSE CloseOnce
    /\ newClientPc' = "ready"
    /\ UNCHANGED <<options, sourcesBuilt, anyAsync, apiVars, call>>

NewClient == BuildConfigStore \/ CheckConfigs \/ AssignClient \/ ReturnClient

-----------------------------------------------------------------------------
\* The goroutine of the API store

LoadSucceeds ==
    /\ Running
    /\ apiPc = "loading"
    /\ hasData' = TRUE
    /\ apiPc' = "loaded"
    /\ UNCHANGED <<options, newClientVars, channelVars, call>>

FinishedLoadingUncalledMistake ==
    /\ Running
    /\ apiPc = "loaded"
    /\ apiPc' = "streaming"
    /\ UNCHANGED <<options, newClientVars, channelVars, hasData, call>>

\* finishedLoading(), then the stream.
FinishedLoading ==
    /\ Running
    /\ apiPc = "loaded"
    /\ CloseOnce
    /\ apiPc' = "streaming"
    /\ UNCHANGED <<options, newClientVars, hasData, call>>

\* Every retry failed: the stream, without finishedLoading().
GivesUp ==
    /\ Running
    /\ apiPc = "loading"
    /\ apiPc' = "streaming"
    /\ UNCHANGED <<options, newClientVars, channelVars, hasData, call>>

StreamDelivers ==
    /\ Running
    /\ apiPc = "streaming"
    /\ hasData' = TRUE
    /\ UNCHANGED <<options, newClientVars, channelVars, apiPc, call>>

ApiStore == LoadSucceeds \/ FinishedLoading \/ GivesUp \/ StreamDelivers

-----------------------------------------------------------------------------
\* Calls

Returns(c, result) ==
    call' = [call EXCEPT ![c].pc = "idle", ![c].result = result]

\* What the composite store finds: the first store that has the key.  The
\* server's data has every key.
Found(k) ==
    \/ k \in LocalKey /\ ToSet(Sources) # {"API"}
    \/ Contains(Sources, "API") /\ hasData

StartCallBlindMistake(c, op, k) ==
    /\ Running
    /\ newClientPc = "ready"
    /\ call[c].pc = "idle"
    /\ op \in {"GetValue", "Keys"}
    /\ call' = [call EXCEPT ![c] =
          [pc |-> "waiting", op |-> op, key |-> k, result |-> "none",
           begunClosed |-> initializationComplete = "closed"]]
    /\ UNCHANGED <<options, newClientVars, channelVars, apiVars>>

\* A call that awaits initialization looks at the channel first.
StartCall(c, op, k) ==
    /\ Running
    /\ newClientPc = "ready"
    /\ call[c].pc = "idle"
    /\ op \in {"GetValue", "Keys"}
    /\ call' = [call EXCEPT ![c] =
          [pc |-> IF initializationComplete = "closed" /\ TimeoutSeconds > 0
                  THEN "resolve" ELSE "waiting",
           op |-> op, key |-> k, result |-> "none",
           begunClosed |-> initializationComplete = "closed"]]
    /\ UNCHANGED <<options, newClientVars, channelVars, apiVars>>

\* GetConfig asks the store without waiting.
GetConfig(c, k) ==
    /\ Running
    /\ newClientPc = "ready"
    /\ call[c].pc = "idle"
    /\ call' = [call EXCEPT ![c] =
          [pc |-> "idle", op |-> "GetConfig", key |-> k,
           result |-> IF Found(k) THEN "value" ELSE "notFound",
           begunClosed |-> initializationComplete = "closed"]]
    /\ UNCHANGED <<options, newClientVars, channelVars, apiVars>>

AwaitSucceeds(c) ==
    /\ Running
    /\ call[c].pc = "waiting"
    /\ initializationComplete = "closed"
    /\ call' = [call EXCEPT ![c].pc = "resolve"]
    /\ UNCHANGED <<options, newClientVars, channelVars, apiVars>>

AwaitForeverMistake(c) == c \in Caller /\ FALSE

AwaitTimeoutProceedsMistake(c) ==
    /\ Running
    /\ call[c].pc = "waiting"
    /\ CloseOnce
    /\ call' = [call EXCEPT ![c].pc = "resolve"]
    /\ UNCHANGED <<options, newClientVars, apiVars>>

\* The timer fires.  If the channel was closed meanwhile, both branches of the
\* select are ready and either may be taken.
AwaitTimesOut(c) ==
    /\ Running
    /\ call[c].pc = "waiting"
    /\ \/ /\ OnInitializationFailure = "ReturnNilMatch"
          /\ CloseOnce
          /\ call' = [call EXCEPT ![c].pc = "resolve"]
       \/ /\ OnInitializationFailure = "ReturnError"
          /\ Returns(c, "timeout")
          /\ UNCHANGED channelVars
    /\ UNCHANGED <<options, newClientVars, apiVars>>

ResolveKeys(c) ==
    /\ Running
    /\ call[c].pc = "resolve"
    /\ call[c].op = "Keys"
    /\ Returns(c, "value")
    /\ UNCHANGED <<options, newClientVars, channelVars, apiVars>>

\* The config is found, or not; its rules may then ask for a property that the
\* caller's context does not have.
ResolveValue(c) ==
    /\ Running
    /\ call[c].pc = "resolve"
    /\ call[c].op = "GetValue"
    /\ \/ ~Found(call[c].key) /\ Returns(c, "notFound")
       \/ Found(call[c].key) /\ Returns(c, "value")
       \/ Found(call[c].key) /\ call' = [call EXCEPT ![c].pc = "context"]
    /\ UNCHANGED <<options, newClientVars, channelVars, apiVars>>

\* Every store is asked; the API store dereferences its contextSet.
GetContextValue(c) ==
    /\ Running
    /\ call[c].pc = "context"
    /\ IF Contains(Sources, "API") /\ ~hasData
       THEN crashed' = TRUE /\ UNCHANGED call
       ELSE Returns(c, "value") /\ UNCHANGED crashed
    /\ UNCHANGED <<options, newClientVars, initializationComplete, once, apiVars>>

Proceed(c) ==
    AwaitSucceeds(c) \/ AwaitTimesOut(c) \/ ResolveKeys(c) \/ ResolveValue(c)
    \/ GetContextValue(c)

-----------------------------------------------------------------------------
Next ==
    \/ NewClient
    \/ ApiStore
    \/ \E c \in Caller, k \in Key : GetConfig(c, k)
    \/ \E c \in Caller, k \in Key, op \in Op : StartCall(c, op, k)
    \/ \E c \in Caller : Proceed(c)

Spec == Init /\ [][Next]_vars

\* Every goroutine that can take its next step does; callers need not call, and
\* the API need not answer: http.DefaultClient has no timeout, so a load may go
\* on for ever.
Fairness ==
    /\ WF_vars(NewClient)
    /\ WF_vars(FinishedLoading)
    /\ \A c \in Caller : WF_vars(Proceed(c))

FairSpec == Spec /\ Fairness

-----------------------------------------------------------------------------
\* Properties

TypeOK ==
    /\ options \in Options
    /\ newClientPc \in {"stores", "assign", "sync", "ready", "failed"}
    /\ sourcesBuilt \in 0 .. Len(Sources)
    /\ anyAsync \in BOOLEAN
    /\ initializationComplete \in {"nil", "open", "closed"}
    /\ once \in BOOLEAN
    /\ apiPc \in {"off", "loading", "loaded", "streaming"}
    /\ hasData \in BOOLEAN
    /\ crashed \in BOOLEAN
    /\ call \in [Caller -> Call]

\* The library never takes its host process down once NewClient has returned:
\* the channel is closed once and never while nil, and no evaluation
\* dereferences a nil context set.  (A load that ends before NewClient has made
\* the channel does panic: client.go:105.)
NeverCrashes == newClientPc \in {"ready", "failed"} => ~crashed

\* Under ReturnError, a call that waits for initialization and gets an answer
\* got it from a store that holds the server's data.
AnswersComeFromInitializedStore ==
    OnInitializationFailure = "ReturnError" /\ Contains(Sources, "API") =>
        \A c \in Caller :
            call[c].op # "GetConfig" /\ call[c].result \in {"value", "notFound"}
            => hasData

\* A call that begins after initialization is never turned away, and one of a
\* client without a background source never even waits.
InitializedClientNeverTimesOut ==
    \A c \in Caller :
        /\ call[c].begunClosed => call[c].result # "timeout"
        /\ ~Contains(Sources, "API") => call[c].pc # "waiting"

\* Every call returns, with an answer or an error, whatever the API does, also
\* when it never answers: the timer of the call sees to that (client.go:555).
EveryCallReturns ==
    \A c \in Caller : call[c].pc # "idle" ~> call[c].pc = "idle"

\* A first load that completes lets the callers in; should it complete before
\* NewClient has made the channel, the process panics rather than hang them.
LoadReleasesCallers ==
    apiPc = "loaded" ~> (initializationComplete = "closed" \/ crashed)

\* Once the API store holds data, clients are let in, be it the first fetch or
\* the stream that brought the data.
StoreWithDataServes == hasData ~> initializationComplete = "closed"
=============================================================================
