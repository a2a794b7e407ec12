------------------------- MODULE TelemetrySubmitter -------------------------
(***************************************************************************)
(* Telemetry: calls put what they saw on a bounded queue without ever      *)
(* waiting, one goroutine moves queued items into the aggregators, and     *)
(* Submit - run by the ticker and by SendTelemetry - empties the           *)
(* aggregators into a payload that it posts, with retries.                 *)
(*                                                                         *)
(* Every evaluation and every context is told apart from the others, so    *)
(* that a count kept by an aggregator is the set of what it counted.       *)
(***************************************************************************)
EXTENDS Integers, Sequences, FiniteSets, FiniteSetsExt, SequencesExt

CONSTANTS
    Evaluation,                 \* matches that RecordEvaluation is given
    Context,                    \* context sets that RecordContext is given
    GroupedKey,                 \* [Context -> key], NoKey for an empty key
    NoKey,
    Options,                    \* the telemetry options a client may be given
    Sender,                     \* goroutines that call SendTelemetry
    Ticker,                     \* the goroutine of the periodic submission
    QueueSize,                  \* 10000 in the code
    MaxAttempts                 \* maxRetries, 5 in the code

Item == Evaluation \cup Context

ASSUME TelemetryAssumption ==
    /\ Evaluation \cap Context = {}
    /\ DOMAIN GroupedKey = Context
    /\ Options \subseteq [contextTelemetryMode : {"PeriodicExample", "Shapes", "None"},
                         collectEvaluationSummaries : BOOLEAN]
    /\ Ticker \notin Sender /\ "free" \notin Sender \cup {Ticker}
    /\ QueueSize \in Nat /\ MaxAttempts \in Nat \ {0}

Submitter == Sender \cup {Ticker}

Aggregator == {"example", "shape", "summary"}

VARIABLES
    options,   \* the options of this client
    recorded,  \* ghost: items offered to the queue so far
    dropped,   \* ghost: those it had no room for
    queue,     \* the channel
    handling,  \* the item the consumer took, and the aggregators still to get it
    data,      \* what each aggregator holds
    mutex,     \* who holds Submitter.mutex, or "free"
    submit,    \* the Submit call of each submitter
    received,  \* ghost: what the server was sent in a request that reached it
    recounted, \* ghost: what two submissions brought it
    lost       \* ghost: what Submit gave up on without the server having it

vars == <<options, recorded, dropped, queue, handling, data, mutex, submit,
          received, recounted, lost>>

queueVars == <<recorded, dropped, queue>>
ghostVars == <<received, recounted, lost>>

\* The aggregators that NewTelemetrySubmitter makes, in order.
contextAggregators ==
    CASE options.contextTelemetryMode = "PeriodicExample" -> <<"example", "shape">>
      [] options.contextTelemetryMode = "Shapes"          -> <<"shape">>
      [] OTHER                                            -> <<>>

aggregators ==
    contextAggregators \o IF options.collectEvaluationSummaries THEN <<"summary">> ELSE <<>>

Idling == [item |-> "none", todo |-> <<>>]

\* `before`: what a call that drains found in the queue, or past it, at first.
\* `unread`: no attempt has used up the body of the request yet.
\* `accepted`: the server got this payload, whatever it answered.
NoSubmit == [pc |-> "idle", drain |-> FALSE, before |-> {}, next |-> 1,
             payload |-> {}, events |-> 0, attempt |-> 1, unread |-> TRUE,
             accepted |-> FALSE, result |-> "none"]

Init ==
    /\ options \in Options
    /\ recorded = {} /\ dropped = {} /\ queue = <<>>
    /\ handling = Idling
    /\ data = [a \in Aggregator |-> {}]
    /\ mutex = "free"
    /\ submit = [s \in Submitter |-> NoSubmit]
    /\ received = {} /\ recounted = {} /\ lost = {}

\* Operators named ...Mistake are plausible errors in the definition that
\* follows them; the properties are checked to tell them apart.

-----------------------------------------------------------------------------
\* Recording

enqueue(i) ==
    /\ recorded' = recorded \cup {i}
    /\ IF Len(queue) < QueueSize
       THEN queue' = Append(queue, i) /\ UNCHANGED dropped
       ELSE dropped' = dropped \cup {i} /\ UNCHANGED queue
    /\ UNCHANGED <<options, handling, data, mutex, submit, ghostVars>>

RecordEvaluation(e) ==
    /\ e \notin recorded
    /\ options.collectEvaluationSummaries
    /\ enqueue(e)

RecordContext(c) ==
    /\ c \notin recorded
    /\ contextAggregators # <<>>
    /\ enqueue(c)

\* The consumer receives an item; a context goes to each context aggregator.
SetupQueueConsumer ==
    /\ handling = Idling
    /\ queue # <<>>
    /\ handling' = [item |-> Head(queue),
                    todo |-> IF Head(queue) \in Evaluation THEN <<"summary">>
                             ELSE contextAggregators]
    /\ queue' = Tail(queue)
    /\ UNCHANGED <<options, recorded, dropped, data, mutex, submit, ghostVars>>

KeptEveryTimeMistake(a, i) ==
    a = "example" => GroupedKey[i] # NoKey

\* The example aggregator keeps the first context of each key, and none
\* without a key; the others keep everything.
Kept(a, i) ==
    a = "example" =>
        /\ GroupedKey[i] # NoKey
        /\ \A c \in data["example"] : GroupedKey[c] # GroupedKey[i]

RecordLosesEarlierMistake ==
    /\ handling # Idling
    /\ data' = [data EXCEPT ![Head(handling.todo)] = {handling.item}]
    /\ handling' = IF Len(handling.todo) = 1 THEN Idling
                   ELSE [handling EXCEPT !.todo = Tail(@)]
    /\ UNCHANGED <<options, queueVars, mutex, submit, ghostVars>>

\* aggregator.Record, under the lock of that aggregator.
Record ==
    /\ handling # Idling
    /\ LET a == Head(handling.todo)
       IN  data' = [data EXCEPT ![a] = IF Kept(a, handling.item) THEN @ \cup {handling.item}
                                       ELSE @]
    /\ handling' = IF Len(handling.todo) = 1 THEN Idling
                   ELSE [handling EXCEPT !.todo = Tail(@)]
    /\ UNCHANGED <<options, queueVars, mutex, submit, ghostVars>>

-----------------------------------------------------------------------------
\* Submit

Call(s, drain) ==
    /\ submit[s].pc = "idle"
    /\ submit' = [submit EXCEPT ![s] =
          [NoSubmit EXCEPT !.pc = "lock", !.drain = drain,
                           !.before = IF drain THEN recorded \ dropped ELSE {}]]
    /\ UNCHANGED <<options, queueVars, handling, data, mutex, ghostVars>>

\* The ticker submits only if there is something that aggregates.
StartPeriodicSubmission == aggregators # <<>> /\ Call(Ticker, FALSE)

SendTelemetry(s) == \E waitOnQueueToDrain \in BOOLEAN : Call(s, waitOnQueueToDrain)

Lock(s) ==
    /\ submit[s].pc = "lock"
    /\ mutex = "free"
    /\ mutex' = s
    /\ submit' = [submit EXCEPT ![s].pc = IF submit[s].drain THEN "drain" ELSE "collect"]
    /\ UNCHANGED <<options, queueVars, handling, data, ghostVars>>

DrainedButOneMistake(s) ==
    /\ submit[s].pc = "drain"
    /\ Len(queue) <= 1
    /\ submit' = [submit EXCEPT ![s].pc = "collect"]
    /\ UNCHANGED <<options, queueVars, handling, data, mutex, ghostVars>>

\* The poll that finds the queue empty.
Drained(s) ==
    /\ submit[s].pc = "drain"
    /\ queue = <<>>
    /\ submit' = [submit EXCEPT ![s].pc = "collect"]
    /\ UNCHANGED <<options, queueVars, handling, data, mutex, ghostVars>>

\* GetData is nil only for an example aggregator that holds nothing.
HasEvent(a) == a # "example" \/ data[a] # {}

CollectForgetsClearMistake(s) ==
    /\ submit[s].pc = "collect"
    /\ submit[s].next <= Len(aggregators)
    /\ LET a == aggregators[submit[s].next]
       IN  submit' = [submit EXCEPT ![s].next = @ + 1,
                                    ![s].events = @ + IF HasEvent(a) THEN 1 ELSE 0,
                                    ![s].payload = @ \cup ({a} \X data[a])]
    /\ UNCHANGED <<options, queueVars, handling, data, mutex, ghostVars>>

\* GetData and Clear, under the lock of the aggregator.
Collect(s) ==
    /\ submit[s].pc = "collect"
    /\ submit[s].next <= Len(aggregators)
    /\ LET a == aggregators[submit[s].next]
       IN  /\ submit' = [submit EXCEPT ![s].next = @ + 1,
                                       ![s].events = @ + IF HasEvent(a) THEN 1 ELSE 0,
                                       ![s].payload = @ \cup ({a} \X data[a])]
           /\ data' = [data EXCEPT ![a] = {}]
    /\ UNCHANGED <<options, queueVars, handling, mutex, ghostVars>>

ReturnKeepsMutexMistake(s, result) ==
    /\ submit' = [submit EXCEPT ![s] = [NoSubmit EXCEPT !.result = result]]
    /\ UNCHANGED mutex

\* return, with the deferred Unlock.
Return(s, result) ==
    /\ submit' = [submit EXCEPT ![s] = [NoSubmit EXCEPT !.result = result]]
    /\ mutex' = "free"

GiveUp(s) ==
    /\ Return(s, "error")
    /\ lost' = IF submit[s].accepted THEN lost ELSE lost \cup submit[s].payload
    /\ UNCHANGED <<received, recounted>>

\* All aggregators visited: no aggregators, nothing to send, or a request.
Collected(s) ==
    /\ submit[s].pc = "collect"
    /\ submit[s].next > Len(aggregators)
    /\ \/ /\ submit[s].events = 0
          /\ Return(s, IF aggregators = <<>> THEN "error" ELSE "nil")
       \/ /\ submit[s].events > 0
          /\ submit' = [submit EXCEPT ![s].pc = "marshal"]
          /\ UNCHANGED mutex
    /\ UNCHANGED <<options, queueVars, handling, data, ghostVars>>

\* proto.Marshal or http.NewRequest may fail.
Marshal(s) ==
    /\ submit[s].pc = "marshal"
    /\ \/ GiveUp(s)
       \/ submit' = [submit EXCEPT ![s].pc = "attempt"] /\ UNCHANGED <<mutex, ghostVars>>
    /\ UNCHANGED <<options, queueVars, handling, data>>

\* The server gets the payload.  It may get it again from a retry of the same
\* submission, which recounted leaves out.
Accept(s) ==
    /\ received' = received \cup submit[s].payload
    /\ recounted' = recounted \cup
          IF submit[s].accepted THEN {} ELSE received \cap submit[s].payload
    /\ UNCHANGED lost

\* An attempt that failed is followed by another one unless it was the last.
RetryForeverMistake(s, unread, accepted) ==
    /\ submit' = [submit EXCEPT ![s].attempt = @ + 1, ![s].unread = unread,
                                ![s].accepted = accepted]
    /\ UNCHANGED mutex

RetryReportsNilMistake(s, unread, accepted) ==
    IF submit[s].attempt = MaxAttempts
    THEN Return(s, "nil")
    ELSE /\ submit' = [submit EXCEPT ![s].attempt = @ + 1, ![s].unread = unread,
                                     ![s].accepted = accepted]
         /\ UNCHANGED mutex

Retry(s, unread, accepted) ==
    IF submit[s].attempt = MaxAttempts
    THEN Return(s, "error")
    ELSE /\ submit' = [submit EXCEPT ![s].attempt = @ + 1, ![s].unread = unread,
                                     ![s].accepted = accepted]
         /\ UNCHANGED mutex

\* An attempt that failed without the server getting the payload.
Fails(s, unread) ==
    /\ Retry(s, unread, submit[s].accepted)
    /\ lost' = IF submit[s].attempt = MaxAttempts /\ ~submit[s].accepted
               THEN lost \cup submit[s].payload ELSE lost
    /\ UNCHANGED <<received, recounted>>

\* Nothing was sent: no connection, or a body that an earlier attempt used up,
\* for which net/http reports a length that does not match.
NotSent(s) == Fails(s, submit[s].unread)

AnsweredOK(s) ==
    /\ Accept(s)
    /\ Return(s, "nil")

\* The server got the request and its answer was lost, or was not a 200.
AnswerLost(s) ==
    /\ Accept(s)
    /\ Retry(s, FALSE, TRUE)

\* The server turned the request away.
Rejected(s) == Fails(s, FALSE)

\* The server took the request, processed it or not, and never answers: the
\* http.Client has no timeout, so Submit waits for good and keeps the mutex.
Hangs(s) ==
    /\ \E processed \in BOOLEAN :
          /\ IF processed THEN Accept(s) ELSE UNCHANGED ghostVars
          /\ submit' = [submit EXCEPT ![s].pc = "hangs", ![s].unread = FALSE,
                                      ![s].accepted = @ \/ processed]
    /\ UNCHANGED mutex

\* One client.Do(req) of retryRequest.  The body is sent if no attempt has used
\* it up, or if the attempt goes over a connection used before: that fails with
\* nothing written, and net/http then tries again with the body rewound (GetBody).
retryRequest(s) ==
    /\ submit[s].pc = "attempt"
    /\ \E reused \in BOOLEAN :
          \/ NotSent(s)
          \/ /\ submit[s].unread \/ reused
             /\ AnsweredOK(s) \/ AnswerLost(s) \/ Rejected(s) \/ Hangs(s)
    /\ UNCHANGED <<options, queueVars, handling, data>>

Proceed(s) == Drained(s) \/ Collect(s) \/ Collected(s) \/ Marshal(s) \/ retryRequest(s)

-----------------------------------------------------------------------------
Next ==
    \/ \E e \in Evaluation : RecordEvaluation(e)
    \/ \E c \in Context : RecordContext(c)
    \/ SetupQueueConsumer
    \/ Record
    \/ StartPeriodicSubmission
    \/ \E s \in Sender : SendTelemetry(s)
    \/ \E s \in Submitter : Lock(s) \/ Proceed(s)

Spec == Init /\ [][Next]_vars

\* The consumer and every submission run on, and an attempt ends or hangs; the
\* mutex is a sync.Mutex, which no goroutine waits for in vain while others
\* unlock it; the ticker ticks on.
Fairness ==
    /\ WF_vars(SetupQueueConsumer)
    /\ WF_vars(Record)
    /\ WF_vars(StartPeriodicSubmission)
    /\ \A s \in Submitter : SF_vars(Lock(s)) /\ WF_vars(Proceed(s))

FairSpec == Spec /\ Fairness

-----------------------------------------------------------------------------
\* Properties

Submission ==
    [pc : {"idle", "lock", "drain", "collect", "marshal", "attempt", "hangs"},
     drain : BOOLEAN, before : SUBSET Item, next : 1..Len(aggregators) + 1,
     payload : SUBSET (Aggregator \X Item), events : 0..Len(aggregators),
     attempt : 1..MaxAttempts, unread : BOOLEAN, accepted : BOOLEAN,
     result : {"none", "nil", "error"}]

\* The type invariant: in particular the queue never outgrows its channel, the
\* attempts stay within maxRetries, and the mutex is held by exactly the
\* submission that is between its Lock and its return, or that hangs.
TypeOK ==
    /\ options \in Options
    /\ recorded \subseteq Item /\ dropped \subseteq recorded
    /\ queue \in Seq(Item) /\ Len(queue) <= QueueSize
    /\ handling = Idling \/ (handling.item \in Item /\ handling.todo # <<>>)
    /\ data \in [Aggregator -> SUBSET Item]
    /\ submit \in [Submitter -> Submission]
    /\ \A s \in Submitter : submit[s].pc \notin {"idle", "lock"} <=> mutex = s
    /\ received \subseteq Aggregator \X Item
    /\ recounted \subseteq Aggregator \X Item
    /\ lost \subseteq Aggregator \X Item

\* Payloads that are neither with the server nor given up yet.
InPayload(a, i) ==
    \E s \in Submitter :
        /\ submit[s].pc \in {"collect", "marshal", "attempt", "hangs"}
        /\ ~submit[s].accepted
        /\ <<a, i>> \in submit[s].payload

Waiting(a, i) ==
    \/ Contains(queue, i)
    \/ handling.item = i /\ Contains(handling.todo, a)

\* Where an item is on its way to the server in the events of aggregator a.
Places(a, i) ==
    {p \in {"waiting", "held", "payload", "received", "lost"} :
        \/ p = "waiting"  /\ Waiting(a, i)
        \/ p = "held"     /\ i \in data[a]
        \/ p = "payload"  /\ InPayload(a, i)
        \/ p = "received" /\ <<a, i>> \in received
        \/ p = "lost"     /\ <<a, i>> \in lost}

\* Whatever the order of recording, submitting, failing and hanging, each
\* evaluation that was not dropped, and each context in the shapes, is in exactly
\* one place, although Submit clears the aggregators before it knows whether the
\* request succeeds (submitter.go:154-189): none is forgotten, none is taken by
\* two submissions, and no submission brings the server what another one brought.
\* (A retry may bring again what an unacknowledged attempt of its own submission
\* brought: submitter.go:199.)
EverythingCountedOnce ==
    /\ recounted = {}
    /\ options.collectEvaluationSummaries =>
          \A e \in (recorded \ dropped) \cap Evaluation : Cardinality(Places("summary", e)) = 1
    /\ contextAggregators # <<>> =>
          \A c \in (recorded \ dropped) \cap Context : Cardinality(Places("shape", c)) = 1

\* A Submit that reports success left nothing behind: what it took out of the
\* aggregators is with the server (submitter.go:198-220).
SuccessMeansReceived ==
    [][\A s \in Submitter :
          submit[s].pc # "idle" /\ submit'[s].result = "nil"
              => submit[s].payload \subseteq received']_vars

\* A Submit that waited for the queue misses at most the one item that the
\* consumer had taken from it and not finished recording (submitter.go:140-144).
DrainMissesAtMostOne ==
    \A s \in Submitter :
        submit[s].pc \in {"marshal", "attempt", "hangs"} /\ submit[s].drain =>
            Cardinality({i \in submit[s].before :
                \E a \in Aggregator : Waiting(a, i) \/ i \in data[a]}) <= 1

\* No two examples with one key are taken in one submission, although the
\* consumer records while Submit collects (example_context_aggregator.go:44).
OneExamplePerKey ==
    \A s \in Submitter : \A c, d \in Context :
        {<<"example", c>>, <<"example", d>>} \subseteq submit[s].payload
            /\ GroupedKey[c] = GroupedKey[d] => c = d

\* A request that is never answered, with the mutex held (submitter.go:137,199).
SomeHangs == \E s \in Submitter : submit[s].pc = "hangs"

\* Every Submit returns, unless a request is never answered: nothing else, be it
\* the mutex, the queue once recording pauses or failing requests, keeps it for
\* ever.
EverySubmitReturns ==
    \A s \in Submitter : submit[s].pc = "lock" ~> submit[s].pc = "idle" \/ SomeHangs

\* Unless a request is never answered, whatever is recorded and not dropped is
\* sent or given up in the end: the ticker leaves nothing in the aggregators.
EverythingIsSettled ==
    \A e \in Evaluation :
        e \in recorded \ dropped ~> <<"summary", e>> \in received \cup lost \/ SomeHangs

\* "retryRequest attempts an HTTP request with retries" (submitter.go:192): an
\* attempt has the body to send that the first one had, without the help of
\* net/http, which rewinds it for a connection used before only.
RetriesCarryThePayload ==
    \A s \in Submitter : submit[s].pc = "attempt" => submit[s].unread

=============================================================================
