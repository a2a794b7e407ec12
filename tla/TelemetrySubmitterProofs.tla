---------------------- MODULE TelemetrySubmitterProofs ----------------------
(***************************************************************************)
(* Theorems about TelemetrySubmitter, for every set of evaluations,        *)
(* contexts and senders, every queue size and number of attempts.          *)
(***************************************************************************)
EXTENDS TelemetrySubmitter, FiniteSetTheorems, TLAPS

-----------------------------------------------------------------------------
\* The inductive invariant

Enqueued == recorded \ dropped

\* Every item is of a kind that some aggregator is there for.
KindInv ==
    \A i \in recorded :
        /\ i \in Evaluation => options.collectEvaluationSummaries
        /\ i \in Context => contextAggregators # <<>>

\* The queue holds what was enqueued, each item once.
QueueInv ==
    /\ \A j \in 1 .. Len(queue) : queue[j] \in Enqueued
    /\ \A j, k \in 1 .. Len(queue) : queue[j] = queue[k] => j = k

\* The consumer is done, or has an item on its way to its last aggregators.
HandlingInv ==
    \/ handling = Idling
    \/ /\ handling \in [item : Evaluation \cap Enqueued, todo : {<<"summary">>}]
       /\ ~Contains(queue, handling.item)
    \/ /\ handling \in [item : Context \cap Enqueued, todo : {contextAggregators, <<"shape">>}]
       /\ ~Contains(queue, handling.item)

\* What an aggregator holds is of its kind, and so it is one of aggregators.
DataInv ==
    /\ data["summary"] \subseteq Evaluation \cap recorded
    /\ data["shape"] \subseteq Context \cap recorded
    /\ data["example"] \subseteq Context \cap recorded
    /\ data["example"] # {} => options.contextTelemetryMode = "PeriodicExample"

Active(s) == submit[s].pc \in {"collect", "marshal", "attempt", "hangs"}

\* A submission has taken from the aggregators it has visited only; it has
\* something unless there was nothing, and visited all of them before it sends
\* anything.
SubmissionInv(s) ==
    /\ submit[s].pc # "idle" => submit[s].result = "none"
    /\ submit[s].pc \notin {"attempt", "hangs"} => ~submit[s].accepted
    /\ submit[s].events < submit[s].next
    /\ submit[s].events = 0 => submit[s].payload = {}
    /\ ~Active(s) => submit[s].next = 1 /\ submit[s].events = 0
    /\ submit[s].pc \in {"marshal", "attempt", "hangs"} => submit[s].next > Len(aggregators)
    /\ \A p \in submit[s].payload :
          \E j \in 1 .. submit[s].next - 1 : p[1] = aggregators[j]
    /\ submit[s].before \subseteq Enqueued

SubmitInv == \A s \in Submitter : SubmissionInv(s)

\* TypeOK with what an induction needs.
TypeInv == TypeOK /\ KindInv /\ QueueInv /\ HandlingInv /\ DataInv /\ SubmitInv

\* Where an item is for an aggregator, one condition for each member of Places.
At(p, a, i) ==
    \/ p = "waiting"  /\ Waiting(a, i)
    \/ p = "held"     /\ i \in data[a]
    \/ p = "payload"  /\ InPayload(a, i)
    \/ p = "received" /\ <<a, i>> \in received
    \/ p = "lost"     /\ <<a, i>> \in lost

Place == {"waiting", "held", "payload", "received", "lost"}

\* The aggregator that every item of its kind goes to.
Main(i) == IF i \in Evaluation THEN "summary" ELSE "shape"

\* An item is nowhere before it is enqueued, and never in two places for the
\* same aggregator; for its main aggregator it is always somewhere.
PlacedOnce(a, i) ==
    /\ \A p \in Place : At(p, a, i) => i \in Enqueued
    /\ \A p, q \in Place : At(p, a, i) /\ At(q, a, i) => p = q
    /\ i \in Enqueued /\ a = Main(i) => \E p \in Place : At(p, a, i)

PlaceInv == \A a \in Aggregator, i \in Item : PlacedOnce(a, i)

\* The server has the payload that an attempt brought it: a retry which brings it
\* again moves nothing.
AcceptedInv ==
    \A s \in Submitter : submit[s].accepted => submit[s].payload \subseteq received

CountInv == TypeInv /\ PlaceInv /\ AcceptedInv /\ recounted = {}

\* The examples of an aggregator, and so those of a payload, have distinct keys.
ExampleInv ==
    /\ \A c, d \in data["example"] : GroupedKey[c] = GroupedKey[d] => c = d
    /\ OneExamplePerKey

\* What reached the aggregators too late for a submission: the item that the
\* consumer is busy with, and what the aggregators it has visited got since.
Late(s, i) ==
    \/ handling # Idling /\ i = handling.item
    \/ \E j \in 1 .. submit[s].next - 1 : i \in data[aggregators[j]]

\* After the poll that found the queue empty, nothing that the submission waited
\* for is in the queue any more, and at most one item of it is late: the one that
\* the consumer was busy with during that poll.
DrainInv ==
    \A s \in Submitter : Active(s) /\ submit[s].drain =>
        /\ \A i \in submit[s].before : ~Contains(queue, i)
        /\ \A i, j \in submit[s].before : Late(s, i) /\ Late(s, j) => i = j

-----------------------------------------------------------------------------
\* Facts about the queue and the aggregators

LEMMA Appended ==
    ASSUME NEW S, NEW q \in Seq(S), NEW i \in S
    PROVE  /\ Append(q, i) \in Seq(S) /\ Len(Append(q, i)) = Len(q) + 1
           /\ \A j \in 1 .. Len(q) : Append(q, i)[j] = q[j]
           /\ Append(q, i)[Len(q) + 1] = i
           /\ \A x : Contains(Append(q, i), x) <=> Contains(q, x) \/ x = i
<1>1. /\ Append(q, i) \in Seq(S) /\ Len(Append(q, i)) = Len(q) + 1 /\ Len(q) \in Nat
      /\ \A j \in 1 .. Len(q) : Append(q, i)[j] = q[j]
      /\ Append(q, i)[Len(q) + 1] = i
  OBVIOUS
<1> HIDE DEF Contains
<1>2. ASSUME NEW x PROVE Contains(Append(q, i), x) <=> Contains(q, x) \/ x = i
  <2>1. 1 .. (Len(q) + 1) = (1 .. Len(q)) \cup {Len(q) + 1}
    BY <1>1
  <2> QED
    BY <1>1, <2>1 DEF Contains
<1> QED
  BY <1>1, <1>2

LEMMA HeadOrTail ==
    ASSUME NEW S, NEW q \in Seq(S), q # <<>>
    PROVE  /\ Head(q) \in S /\ Head(q) = q[1] /\ Tail(q) \in Seq(S)
           /\ Len(q) \in Nat \ {0} /\ Len(Tail(q)) = Len(q) - 1
           /\ \A j \in 1 .. Len(Tail(q)) : Tail(q)[j] = q[j + 1]
           /\ \A x : Contains(q, x) <=> x = Head(q) \/ Contains(Tail(q), x)
<1>1. /\ Head(q) \in S /\ Head(q) = q[1] /\ Tail(q) \in Seq(S)
      /\ Len(q) \in Nat \ {0} /\ Len(Tail(q)) = Len(q) - 1
      /\ \A j \in 1 .. Len(Tail(q)) : Tail(q)[j] = q[j + 1]
  OBVIOUS
<1>2. ASSUME NEW x PROVE Contains(q, x) <=> x = Head(q) \/ Contains(Tail(q), x)
  <2>1. ASSUME NEW j \in 1 .. Len(q), q[j] = x, j # 1 PROVE Contains(Tail(q), x)
    <3>1. j - 1 \in 1 .. Len(Tail(q)) /\ Tail(q)[j - 1] = x
      BY <1>1, <2>1
    <3> QED
      BY <3>1 DEF Contains
  <2>2. ASSUME NEW j \in 1 .. Len(Tail(q)), Tail(q)[j] = x PROVE Contains(q, x)
    <3>1. j + 1 \in 1 .. Len(q) /\ q[j + 1] = x
      BY <1>1, <2>2
    <3> QED
      BY <3>1 DEF Contains
  <2> QED
    BY <1>1, <2>1, <2>2 DEF Contains
<1> QED
  BY <1>1, <1>2

\* The aggregators that NewTelemetrySubmitter makes, for each kind of options.
LEMMA ContextAggregatorsAre ==
    ASSUME options \in Options
    PROVE  /\ contextAggregators \in {<<>>, <<"shape">>, <<"example", "shape">>}
           /\ contextAggregators = <<"example", "shape">>
                 <=> options.contextTelemetryMode = "PeriodicExample"
           /\ options.collectEvaluationSummaries \in BOOLEAN
<1>1. /\ options.contextTelemetryMode \in {"PeriodicExample", "Shapes", "None"}
      /\ options.collectEvaluationSummaries \in BOOLEAN
  BY TelemetryAssumption
<1> QED
  BY <1>1 DEF contextAggregators

LEMMA AggregatorsAre ==
    ASSUME options \in Options
    PROVE  /\ aggregators \in Seq(Aggregator)
           /\ Len(aggregators) \in Nat
           /\ \A j \in 1 .. Len(aggregators) : aggregators[j] \in Aggregator
           /\ \A j, k \in 1 .. Len(aggregators) : aggregators[j] = aggregators[k] => j = k
           /\ contextAggregators # <<>> => Contains(aggregators, "shape")
           /\ options.contextTelemetryMode = "PeriodicExample"
                 => Contains(aggregators, "example")
           /\ options.collectEvaluationSummaries => Contains(aggregators, "summary")
<1> DEFINE last == IF options.collectEvaluationSummaries THEN <<"summary">> ELSE <<>>
<1>0. aggregators = contextAggregators \o last
  BY DEF aggregators
<1> HIDE DEF last
<1>1. last \in {<<>>, <<"summary">>}
  BY DEF last
<1>2. CASE contextAggregators = <<>>
  <2>1. aggregators = last
    BY <1>0, <1>1, <1>2
  <2>2. CASE options.collectEvaluationSummaries
    BY <1>2, <2>1, <2>2, ContextAggregatorsAre DEF last, Aggregator, Contains
  <2>3. CASE ~options.collectEvaluationSummaries
    BY <1>2, <2>1, <2>3, ContextAggregatorsAre DEF last, Aggregator, Contains
  <2> QED
    BY <2>2, <2>3
<1>3. CASE contextAggregators = <<"shape">>
  <2>1. CASE options.collectEvaluationSummaries
    <3>1. /\ aggregators \in Seq(Aggregator) /\ Len(aggregators) = 2
          /\ aggregators[1] = "shape" /\ aggregators[2] = "summary"
      BY <1>0, <1>3, <2>1 DEF last, Aggregator
    <3> QED
      BY <1>3, <3>1, ContextAggregatorsAre DEF Aggregator, Contains
  <2>2. CASE ~options.collectEvaluationSummaries
    <3>1. aggregators = <<"shape">>
      BY <1>0, <1>3, <2>2 DEF last
    <3> QED
      BY <1>3, <2>2, <3>1, ContextAggregatorsAre DEF Aggregator, Contains
  <2> QED
    BY <2>1, <2>2
<1>4. CASE contextAggregators = <<"example", "shape">>
  <2>1. CASE options.collectEvaluationSummaries
    <3>1. /\ aggregators \in Seq(Aggregator) /\ Len(aggregators) = 3
          /\ aggregators[1] = "example" /\ aggregators[2] = "shape"
          /\ aggregators[3] = "summary"
      BY <1>0, <1>4, <2>1 DEF last, Aggregator
    <3> QED
      BY <1>4, <3>1, ContextAggregatorsAre DEF Aggregator, Contains
  <2>2. CASE ~options.collectEvaluationSummaries
    <3>1. aggregators = <<"example", "shape">>
      BY <1>0, <1>4, <2>2 DEF last
    <3> QED
      BY <1>4, <2>2, <3>1, ContextAggregatorsAre DEF Aggregator, Contains
  <2> QED
    BY <2>1, <2>2
<1> QED
  BY <1>2, <1>3, <1>4, ContextAggregatorsAre

-----------------------------------------------------------------------------
\* The steps and what they leave alone

Enqueue(i) ==
    /\ i \in Item /\ i \notin recorded
    /\ i \in Evaluation => options.collectEvaluationSummaries
    /\ i \in Context => contextAggregators # <<>>
    /\ enqueue(i)

SubmitStep(s) == (\E drain \in BOOLEAN : Call(s, drain)) \/ Lock(s) \/ Proceed(s)

LEMMA Steps ==
    ASSUME [Next]_vars
    PROVE  \/ \E i \in Item : Enqueue(i)
           \/ SetupQueueConsumer
           \/ Record
           \/ \E s \in Submitter : SubmitStep(s)
           \/ UNCHANGED vars
<1>1. ASSUME NEW e \in Evaluation, RecordEvaluation(e) PROVE Enqueue(e)
  BY <1>1, TelemetryAssumption DEF RecordEvaluation, Enqueue, Item
<1>2. ASSUME NEW c \in Context, RecordContext(c) PROVE Enqueue(c)
  BY <1>2, TelemetryAssumption DEF RecordContext, Enqueue, Item
<1> QED
  BY <1>1, <1>2 DEF Next, SubmitStep, Item, Submitter, StartPeriodicSubmission, SendTelemetry

\* The options of a client never change, nor do its aggregators.
LEMMA OptionsStay ==
    ASSUME [Next]_vars
    PROVE  /\ options' = options /\ contextAggregators' = contextAggregators
           /\ aggregators' = aggregators /\ Submission' = Submission
<1>1. options' = options
  BY Steps
     DEF Enqueue, enqueue, SetupQueueConsumer, Record, SubmitStep, Call, Lock, Proceed, Drained,
         Collect, Collected, Marshal, retryRequest, vars
<1>2. contextAggregators' = contextAggregators
  BY <1>1 DEF contextAggregators
<1>3. aggregators' = aggregators
  BY <1>1, <1>2 DEF aggregators
<1> QED
  BY <1>1, <1>2, <1>3 DEF Submission

\* A step of one submission leaves the others, the queue and the consumer alone.
LEMMA SubmitFrame ==
    ASSUME TypeOK, NEW s \in Submitter, SubmitStep(s)
    PROVE  /\ UNCHANGED <<options, queueVars, handling>>
           /\ DOMAIN submit' = Submitter
           /\ \A t \in Submitter \ {s} : submit'[t] = submit[t]
BY DEF TypeOK, SubmitStep, Call, Lock, Proceed, Drained, Collect, Collected, Marshal,
       retryRequest, Return, GiveUp, Accept, Retry, Fails, NotSent, AnsweredOK, AnswerLost,
       Rejected, Hangs, queueVars

LEMMA NoSubmission == ASSUME TypeOK PROVE NoSubmit \in Submission
<1>1. /\ 1 \in 1 .. Len(aggregators) + 1 /\ 0 \in 0 .. Len(aggregators)
      /\ 1 \in 1 .. MaxAttempts /\ {} \in SUBSET (Aggregator \X Item)
  BY AggregatorsAre, TelemetryAssumption DEF TypeOK
<1> QED
  BY <1>1 DEF NoSubmit, Submission

LEMMA BegunSubmission ==
    ASSUME NEW r \in Submission, NEW b \in SUBSET Item, NEW d \in BOOLEAN,
           NEW c, c = [r EXCEPT !.pc = "lock", !.drain = d, !.before = b]
    PROVE  c \in Submission
<1>1. [r EXCEPT !.pc = "lock"] \in Submission
  BY DEF Submission
<1>2. [[r EXCEPT !.pc = "lock"] EXCEPT !.drain = d] \in Submission
  BY <1>1 DEF Submission
<1>3. [[[r EXCEPT !.pc = "lock"] EXCEPT !.drain = d] EXCEPT !.before = b] \in Submission
  BY <1>2 DEF Submission
<1> QED
  BY <1>3

\* A submission that returns leaves nothing behind but its result.
LEMMA Returned ==
    ASSUME TypeOK, NEW s \in Submitter, NEW r \in {"nil", "error"}, Return(s, r)
    PROVE  /\ submit'[s] \in Submission /\ submit'[s].pc = "idle" /\ mutex' = "free"
           /\ submit'[s].payload = {} /\ submit'[s].before = {} /\ submit'[s].next = 1
           /\ submit'[s].events = 0 /\ submit'[s].unread /\ ~submit'[s].accepted
           /\ submit'[s].result = r
<1>1. submit'[s] = [NoSubmit EXCEPT !.result = r] /\ mutex' = "free"
  BY DEF TypeOK, Return
<1>2. submit'[s] \in Submission
  BY <1>1, NoSubmission DEF Submission
<1> QED
  BY <1>1, <1>2 DEF NoSubmit

\* A submission goes on to the next attempt, or waits for an answer for good; the
\* server has its payload, or nothing changed for it.
GoesOn(s) ==
    /\ submit'[s] \in Submission /\ submit'[s].pc \in {"attempt", "hangs"} /\ mutex' = mutex
    /\ submit'[s].payload = submit[s].payload /\ submit'[s].before = submit[s].before
    /\ submit'[s].next = submit[s].next /\ submit'[s].events = submit[s].events
    /\ submit'[s].drain = submit[s].drain /\ submit'[s].result = submit[s].result
    /\ \/ submit'[s].accepted /\ Accept(s)
       \/ submit'[s].accepted = submit[s].accepted /\ UNCHANGED ghostVars

\* It is given up after its last attempt; what the server does not have is lost.
GivenUp(s) ==
    /\ Return(s, "error")
    /\ \/ Accept(s)
       \/ /\ UNCHANGED <<received, recounted>>
          /\ lost' = IF submit[s].accepted THEN lost ELSE lost \cup submit[s].payload

LEMMA AttemptStep ==
    ASSUME TypeOK, NEW s \in Submitter, retryRequest(s)
    PROVE  /\ submit[s].pc = "attempt" /\ data' = data
           /\ AnsweredOK(s) \/ GivenUp(s) \/ GoesOn(s)
<1>0. submit[s].pc = "attempt" /\ data' = data /\ submit[s] \in Submission
  BY DEF retryRequest, TypeOK
<1>1. ASSUME NEW u \in BOOLEAN, NEW d \in BOOLEAN, Retry(s, u, d),
             \/ d /\ Accept(s)
             \/ d = submit[s].accepted /\ (submit[s].attempt # MaxAttempts => UNCHANGED ghostVars)
      PROVE  submit[s].attempt # MaxAttempts => GoesOn(s)
  <2> SUFFICES ASSUME submit[s].attempt # MaxAttempts PROVE GoesOn(s)
    OBVIOUS
  <2> DEFINE n == submit[s].attempt + 1
  <2>1. mutex' = mutex /\ submit'[s] = [submit[s] EXCEPT !.attempt = n, !.unread = u, !.accepted = d]
    BY <1>1 DEF Retry, TypeOK
  <2>2. n \in 1 .. MaxAttempts
    BY <1>0, TelemetryAssumption DEF Submission
  <2> HIDE DEF n
  <2>3. /\ submit'[s] \in Submission /\ submit'[s].pc = submit[s].pc /\ submit'[s].accepted = d
        /\ submit'[s].payload = submit[s].payload /\ submit'[s].before = submit[s].before
        /\ submit'[s].next = submit[s].next /\ submit'[s].events = submit[s].events
        /\ submit'[s].drain = submit[s].drain /\ submit'[s].result = submit[s].result
    BY <1>0, <2>1, <2>2 DEF Submission
  <2> QED
    BY <1>0, <1>1, <2>1, <2>3 DEF GoesOn
<1>2. ASSUME NEW u \in BOOLEAN, Fails(s, u) PROVE GivenUp(s) \/ GoesOn(s)
  <2>1. submit[s].accepted \in BOOLEAN /\ Retry(s, u, submit[s].accepted)
    BY <1>0, <1>2 DEF Submission, Fails
  <2>2. CASE submit[s].attempt = MaxAttempts
    BY <1>2, <2>1, <2>2 DEF Fails, Retry, GivenUp
  <2>3. CASE submit[s].attempt # MaxAttempts
    <3>1. UNCHANGED ghostVars
      BY <1>2, <2>3 DEF Fails, ghostVars
    <3> QED
      BY <1>1, <2>1, <2>3, <3>1
  <2> QED
    BY <2>2, <2>3
<1>3. ASSUME AnswerLost(s) PROVE GivenUp(s) \/ GoesOn(s)
  <2>0. Accept(s) /\ Retry(s, FALSE, TRUE)
    BY <1>3 DEF AnswerLost
  <2>1. CASE submit[s].attempt = MaxAttempts
    <3>1. Return(s, "error")
      BY <2>0, <2>1 DEF Retry
    <3> QED
      BY <2>0, <3>1 DEF GivenUp
  <2>2. CASE submit[s].attempt # MaxAttempts
    <3>1. TRUE \in BOOLEAN /\ FALSE \in BOOLEAN
      OBVIOUS
    <3> HIDE DEF Accept, Retry, GoesOn
    <3> QED
      BY ONLY <1>1, <2>0, <2>2, <3>1
  <2> QED
    BY <2>1, <2>2
<1>4. ASSUME Hangs(s) PROVE GoesOn(s)
  <2>1. PICK processed \in BOOLEAN :
           /\ IF processed THEN Accept(s) ELSE UNCHANGED ghostVars
           /\ submit' = [submit EXCEPT ![s].pc = "hangs", ![s].unread = FALSE,
                                       ![s].accepted = @ \/ processed]
    BY <1>4 DEF Hangs
  <2> DEFINE d == submit[s].accepted \/ processed
  <2>2. submit'[s] = [submit[s] EXCEPT !.pc = "hangs", !.unread = FALSE, !.accepted = d]
    BY <2>1 DEF TypeOK
  <2>3. d \in BOOLEAN /\ (processed => d = TRUE) /\ (~processed => d = submit[s].accepted)
    BY <1>0 DEF Submission
  <2> HIDE DEF d
  <2>4. /\ submit'[s] \in Submission /\ submit'[s].pc = "hangs" /\ submit'[s].accepted = d
        /\ submit'[s].payload = submit[s].payload /\ submit'[s].before = submit[s].before
        /\ submit'[s].next = submit[s].next /\ submit'[s].events = submit[s].events
        /\ submit'[s].drain = submit[s].drain /\ submit'[s].result = submit[s].result
    BY <1>0, <2>2, <2>3 DEF Submission
  <2>5. mutex' = mutex
    BY <1>4 DEF Hangs
  <2>6. \/ submit'[s].accepted /\ Accept(s)
        \/ submit'[s].accepted = submit[s].accepted /\ UNCHANGED ghostVars
    <3>1. CASE processed
      BY <2>1, <2>3, <2>4, <3>1
    <3>2. CASE ~processed
      BY <2>1, <2>3, <2>4, <3>2
    <3> QED
      BY <3>1, <3>2
  <2> QED
    BY <2>4, <2>5, <2>6 DEF GoesOn
<1>5. NotSent(s) \/ AnsweredOK(s) \/ AnswerLost(s) \/ Rejected(s) \/ Hangs(s)
  BY DEF retryRequest
<1>6. submit[s].unread \in BOOLEAN
  BY <1>0 DEF Submission
<1> QED
  BY <1>0, <1>2, <1>3, <1>4, <1>5, <1>6 DEF NotSent, Rejected

\* What a step of a submission makes of it, of the mutex and of the aggregators.
LEMMA SubmissionStep ==
    ASSUME TypeInv, [Next]_vars, NEW s \in Submitter, SubmitStep(s)
    PROVE  /\ submit'[s] \in Submission
           /\ SubmissionInv(s)'
           /\ \/ submit'[s].pc \notin {"idle", "lock"} /\ mutex' = s
              \/ submit'[s].pc \in {"idle", "lock"} /\ mutex' = "free" /\ mutex = s
              \/ submit'[s].pc = "lock" /\ mutex' = mutex /\ mutex # s
           /\ mutex \in {"free", s} \/ mutex' = mutex
<1> USE DEF TypeInv
<1>0. /\ aggregators' = aggregators /\ Len(aggregators) \in Nat
      /\ Enqueued' = Enqueued /\ Enqueued \subseteq Item
      /\ submit[s] \in Submission /\ SubmissionInv(s)
      /\ submit[s].pc \notin {"idle", "lock"} <=> mutex = s
      /\ "free" \notin Submitter
  BY OptionsStay, AggregatorsAre, SubmitFrame, TelemetryAssumption
     DEF TypeOK, SubmitInv, Enqueued, queueVars, Submitter
<1>1. ASSUME NEW drain \in BOOLEAN, Call(s, drain)
      PROVE  /\ submit'[s] \in Submission /\ SubmissionInv(s)'
             /\ submit'[s].pc = "lock" /\ mutex' = mutex /\ mutex # s
  <2> DEFINE before == IF drain THEN Enqueued ELSE {}
  <2>0. before \in SUBSET Item /\ before \subseteq Enqueued
    BY <1>0
  <2>1. submit'[s] = [NoSubmit EXCEPT !.pc = "lock", !.drain = drain, !.before = before]
    BY <1>1 DEF Call, TypeOK, Enqueued
  <2> HIDE DEF before
  <2>2. submit'[s] \in Submission
    BY <2>0, <2>1, NoSubmission, BegunSubmission
  <2>3. SubmissionInv(s)'
    BY <1>0, <2>0, <2>1 DEF SubmissionInv, Active, NoSubmit
  <2>4. mutex' = mutex /\ mutex # s
    BY <1>0, <1>1 DEF Call
  <2> QED
    BY <2>1, <2>2, <2>3, <2>4 DEF NoSubmit
<1>2. ASSUME Lock(s)
      PROVE  /\ submit'[s] \in Submission /\ SubmissionInv(s)'
             /\ submit'[s].pc \notin {"idle", "lock"} /\ mutex' = s /\ mutex = "free"
  <2>1. PICK pc \in {"drain", "collect"} : submit'[s] = [submit[s] EXCEPT !.pc = pc]
    BY <1>2 DEF Lock, TypeOK
  <2>2. submit'[s] \in Submission
    BY <1>0, <2>1 DEF Submission
  <2>3. /\ submit'[s].pc = pc /\ submit'[s].result = submit[s].result
        /\ submit'[s].unread = submit[s].unread /\ submit'[s].accepted = submit[s].accepted
        /\ submit'[s].events = submit[s].events /\ submit'[s].next = submit[s].next
        /\ submit'[s].payload = submit[s].payload /\ submit'[s].before = submit[s].before
    BY <1>0, <2>1 DEF Submission
  <2>4. SubmissionInv(s)'
    BY <1>0, <1>2, <2>3 DEF Lock, SubmissionInv, Active
  <2> QED
    BY <1>0, <1>2, <2>2, <2>3, <2>4 DEF Lock
<1>3. ASSUME Drained(s)
      PROVE  /\ submit'[s] \in Submission /\ SubmissionInv(s)'
             /\ submit'[s].pc = "collect" /\ mutex' = mutex /\ mutex = s
  <2>1. submit'[s] = [submit[s] EXCEPT !.pc = "collect"]
    BY <1>3 DEF Drained, TypeOK
  <2> QED
    BY <1>0, <1>3, <2>1 DEF Drained, Submission, SubmissionInv, Active
<1>4. ASSUME Collect(s)
      PROVE  /\ submit'[s] \in Submission /\ SubmissionInv(s)'
             /\ submit'[s].pc = "collect" /\ mutex' = mutex /\ mutex = s
  <2> DEFINE r == submit[s]
             a == aggregators[r.next]
             e == r.events + IF HasEvent(a) THEN 1 ELSE 0
             w == r.payload \cup ({a} \X data[a])
  <2>1. /\ r.pc = "collect" /\ mutex' = mutex /\ mutex = s
        /\ r.next \in 1 .. Len(aggregators) /\ a \in Aggregator
        /\ r.events \in Nat /\ r.payload \in SUBSET (Aggregator \X Item)
    BY <1>0, <1>4, AggregatorsAre DEF Collect, Submission, TypeOK
  <2>2. submit'[s] = [r EXCEPT !.next = r.next + 1, !.events = e, !.payload = w]
    BY <1>4 DEF Collect, TypeOK
  <2>3. r.next + 1 \in 1 .. Len(aggregators) + 1
    BY <1>0, <2>1
  <2>4. e \in 0 .. Len(aggregators) /\ e < r.next + 1
    BY <1>0, <2>1 DEF SubmissionInv
  <2>5. w \in SUBSET (Aggregator \X Item)
    BY <2>1 DEF TypeOK
  <2>6. e = 0 => w = {}
    <3>1. CASE HasEvent(a)
      BY <2>1, <3>1
    <3>2. CASE ~HasEvent(a)
      <4>1. data[a] = {} /\ e = r.events
        BY <2>1, <3>2 DEF HasEvent
      <4>2. {a} \X data[a] = {}
        BY <4>1
      <4> QED
        BY <1>0, <4>1, <4>2 DEF SubmissionInv
    <3> QED
      BY <3>1, <3>2
  <2>7. \A p \in w : \E j \in 1 .. r.next + 1 - 1 : p[1] = aggregators[j]
    <3> SUFFICES ASSUME NEW p \in w PROVE \E j \in 1 .. r.next : p[1] = aggregators[j]
      BY <2>1
    <3>1. CASE p \in r.payload
      BY <1>0, <2>1, <3>1 DEF SubmissionInv
    <3>2. CASE p \in {a} \X data[a]
      BY <2>1, <3>2
    <3> QED
      BY <3>1, <3>2
  <2> DEFINE n == r.next + 1
  <2>a. r \in Submission /\ n \in 1 .. Len(aggregators) + 1
    BY <1>0, <2>3
  <2>b. submit'[s] = [r EXCEPT !.next = n, !.events = e, !.payload = w]
    BY <2>2
  <2> HIDE DEF r, a, e, w, n
  <2>8. submit'[s] \in Submission
    <3> DEFINE N == 1 .. Len(aggregators) + 1
               E == 0 .. Len(aggregators)
               W == SUBSET (Aggregator \X Item)
    <3>1. n \in N /\ e \in E /\ w \in W
      BY <2>a, <2>4, <2>5
    <3>2. Submission =
            [pc : {"idle", "lock", "drain", "collect", "marshal", "attempt", "hangs"},
             drain : BOOLEAN, before : SUBSET Item, next : N, payload : W, events : E,
             attempt : 1..MaxAttempts, unread : BOOLEAN, accepted : BOOLEAN,
             result : {"none", "nil", "error"}]
      BY DEF Submission
    <3> HIDE DEF N, E, W
    <3> QED
      BY <2>a, <2>b, <3>1, <3>2
  <2>9. /\ submit'[s].next = n /\ submit'[s].events = e /\ submit'[s].payload = w
        /\ submit'[s].pc = r.pc /\ submit'[s].before = r.before
        /\ submit'[s].unread = r.unread /\ submit'[s].accepted = r.accepted
        /\ submit'[s].result = r.result
    BY <2>a, <2>b DEF Submission
  <2> USE DEF r, n
  <2>10. SubmissionInv(s)'
    BY <1>0, <2>1, <2>4, <2>6, <2>7, <2>8, <2>9 DEF SubmissionInv, Active
  <2> QED
    BY <2>1, <2>8, <2>9, <2>10
<1>5. ASSUME NEW r \in {"nil", "error"}, Return(s, r)
      PROVE  /\ submit'[s] \in Submission /\ SubmissionInv(s)'
             /\ submit'[s].pc = "idle" /\ mutex' = "free"
  BY <1>0, <1>5, Returned DEF SubmissionInv, Active
<1>6. ASSUME Collected(s) \/ Marshal(s),
             ~Return(s, "nil"), ~Return(s, "error")
      PROVE  /\ submit'[s] \in Submission /\ SubmissionInv(s)'
             /\ submit'[s].pc \in {"marshal", "attempt"} /\ mutex' = mutex /\ mutex = s
  <2>1. CASE Collected(s)
    <3>1. submit'[s] = [submit[s] EXCEPT !.pc = "marshal"] /\ mutex' = mutex
      BY <1>6, <2>1 DEF Collected, TypeOK
    <3> QED
      BY <1>0, <2>1, <3>1 DEF Collected, Submission, SubmissionInv, Active
  <2>2. CASE Marshal(s)
    <3>1. submit'[s] = [submit[s] EXCEPT !.pc = "attempt"] /\ mutex' = mutex
      BY <1>6, <2>2 DEF Marshal, GiveUp, TypeOK
    <3> QED
      BY <1>0, <2>2, <3>1 DEF Marshal, Submission, SubmissionInv, Active
  <2> QED
    BY <1>6, <2>1, <2>2
<1>7. ASSUME retryRequest(s), ~Return(s, "nil"), ~Return(s, "error")
      PROVE  /\ submit'[s] \in Submission /\ SubmissionInv(s)'
             /\ submit'[s].pc \in {"attempt", "hangs"} /\ mutex' = mutex /\ mutex = s
  <2>1. submit[s].pc = "attempt" /\ GoesOn(s)
    BY <1>7, AttemptStep DEF AnsweredOK, GivenUp
  <2>2. SubmissionInv(s)'
    BY <1>0, <2>1 DEF GoesOn, SubmissionInv, Active
  <2> QED
    BY <1>0, <2>1, <2>2 DEF GoesOn
<1>8. Collected(s) \/ Marshal(s) \/ retryRequest(s) => mutex = s
  BY <1>0 DEF Collected, Marshal, retryRequest
<1> QED
  BY <1>0, <1>1, <1>2, <1>3, <1>4, <1>5, <1>6, <1>7, <1>8 DEF SubmitStep, Proceed

\* What enqueue makes of the queue.
LEMMA EnqueueStep ==
    ASSUME TypeOK, NEW i \in Item, Enqueue(i)
    PROVE  /\ recorded' = recorded \cup {i} /\ dropped' \subseteq recorded'
           /\ queue' \in Seq(Item) /\ Len(queue') <= QueueSize
           /\ i \notin Enqueued /\ Enqueued \subseteq Enqueued'
           /\ \/ queue' = queue /\ Enqueued' = Enqueued
              \/ queue' = Append(queue, i) /\ Enqueued' = Enqueued \cup {i}
           /\ UNCHANGED <<options, handling, data, mutex, submit, ghostVars>>
<1>1. CASE Len(queue) < QueueSize
  <2>1. queue' = Append(queue, i) /\ dropped' = dropped /\ recorded' = recorded \cup {i}
    BY <1>1 DEF Enqueue, enqueue
  <2>2. queue' \in Seq(Item) /\ Len(queue') = Len(queue) + 1
    BY <2>1, Appended DEF TypeOK
  <2>3. Len(queue') <= QueueSize
    BY <1>1, <2>2, TelemetryAssumption DEF TypeOK
  <2> QED
    BY <2>1, <2>2, <2>3 DEF Enqueue, enqueue, Enqueued, TypeOK
<1>2. CASE ~(Len(queue) < QueueSize)
  BY <1>2 DEF Enqueue, enqueue, Enqueued, TypeOK
<1> QED
  BY <1>1, <1>2

\* The submissions and the mutex, whatever step is taken.
LEMMA SubmitsStep ==
    ASSUME TypeInv, [Next]_vars
    PROVE  /\ submit' \in [Submitter -> Submission]
           /\ \A s \in Submitter : submit'[s].pc \notin {"idle", "lock"} <=> mutex' = s
           /\ SubmitInv'
<1> USE DEF TypeInv
<1>0. aggregators' = aggregators
  BY OptionsStay
<1>1. ASSUME UNCHANGED <<mutex, submit>>, Enqueued \subseteq Enqueued'
      PROVE  /\ submit' \in [Submitter -> Submission]
             /\ \A s \in Submitter : submit'[s].pc \notin {"idle", "lock"} <=> mutex' = s
             /\ SubmitInv'
  <2>1. \A s \in Submitter : SubmissionInv(s)'
    BY <1>0, <1>1 DEF SubmitInv, SubmissionInv, Active
  <2> QED
    BY <1>1, <2>1 DEF TypeOK, SubmitInv
<1>2. ASSUME NEW i \in Item, Enqueue(i)
      PROVE  UNCHANGED <<mutex, submit>> /\ Enqueued \subseteq Enqueued'
  BY <1>2, EnqueueStep
<1>3. CASE SetupQueueConsumer \/ Record \/ UNCHANGED vars
  BY <1>1, <1>3 DEF SetupQueueConsumer, Record, vars, Enqueued, queueVars
<1>4. ASSUME NEW s \in Submitter, SubmitStep(s)
      PROVE  /\ submit' \in [Submitter -> Submission]
             /\ \A t \in Submitter : submit'[t].pc \notin {"idle", "lock"} <=> mutex' = t
             /\ SubmitInv'
  <2>1. /\ DOMAIN submit' = Submitter
        /\ \A t \in Submitter \ {s} : submit'[t] = submit[t]
        /\ Enqueued' = Enqueued
    BY <1>4, SubmitFrame DEF Enqueued, queueVars
  <2>2. submit'[s] \in Submission
    BY <1>4, SubmissionStep
  <2>3. submit' \in [Submitter -> Submission]
    <3>1. submit' = [t \in Submitter |-> submit'[t]]
      BY <1>4 DEF TypeOK, SubmitStep, Call, Lock, Proceed, Drained, Collect, Collected, Marshal,
                  retryRequest, Return, GiveUp, Accept, Retry, Fails, NotSent, AnsweredOK,
                  AnswerLost, Rejected, Hangs
    <3> QED
      BY <2>1, <2>2, <3>1 DEF TypeOK
  <2>4. ASSUME NEW t \in Submitter
        PROVE  submit'[t].pc \notin {"idle", "lock"} <=> mutex' = t
    <3>1. "free" \notin Submitter
      BY TelemetryAssumption DEF Submitter
    <3>2. CASE t = s
      BY <1>4, <3>1, <3>2, SubmissionStep DEF TypeOK
    <3>3. CASE t # s
      BY <1>4, <2>1, <3>1, <3>3, SubmissionStep DEF TypeOK
    <3> QED
      BY <3>2, <3>3
  <2>5. ASSUME NEW t \in Submitter PROVE SubmissionInv(t)'
    <3>1. CASE t = s
      BY <1>4, <3>1, SubmissionStep
    <3>2. CASE t # s
      BY <1>0, <2>1, <3>2 DEF SubmitInv, SubmissionInv, Active
    <3> QED
      BY <3>1, <3>2
  <2> QED
    BY <2>3, <2>4, <2>5 DEF SubmitInv
<1> QED
  BY <1>1, <1>2, <1>3, <1>4, Steps

\* The queue and the consumer.
LEMMA QueueStep ==
    ASSUME TypeInv, [Next]_vars
    PROVE  /\ KindInv' /\ QueueInv' /\ HandlingInv'
           /\ recorded' \subseteq Item /\ dropped' \subseteq recorded'
           /\ queue' \in Seq(Item) /\ Len(queue') <= QueueSize
<1> USE DEF TypeInv
<1>0. options' = options /\ contextAggregators' = contextAggregators
  BY OptionsStay
<1>1. ASSUME NEW i \in Item, Enqueue(i)
      PROVE  KindInv' /\ QueueInv' /\ HandlingInv'
  <2>1. KindInv'
    BY <1>0, <1>1, EnqueueStep DEF KindInv, Enqueue
  <2>2. CASE queue' = queue /\ Enqueued' = Enqueued
    BY <1>0, <1>1, <2>1, <2>2, EnqueueStep DEF QueueInv, HandlingInv
  <2>3. CASE queue' = Append(queue, i) /\ Enqueued' = Enqueued \cup {i}
    <3>1. /\ Len(queue') = Len(queue) + 1 /\ Len(queue) \in Nat
          /\ \A j \in 1 .. Len(queue) : queue'[j] = queue[j]
          /\ queue'[Len(queue) + 1] = i
          /\ \A x : Contains(queue', x) <=> Contains(queue, x) \/ x = i
      BY <2>3, Appended DEF TypeOK
    <3>2. i \notin Enqueued /\ handling' = handling
      BY <1>1, EnqueueStep
    <3>3. QueueInv'
      BY <2>3, <3>1, <3>2 DEF QueueInv
    <3>4. HandlingInv'
      BY <1>0, <2>3, <3>1, <3>2 DEF HandlingInv
    <3> QED
      BY <2>1, <3>3, <3>4
  <2> QED
    BY <1>1, <2>2, <2>3, EnqueueStep
<1>2. CASE SetupQueueConsumer
  <2>1. /\ handling = Idling /\ queue # <<>> /\ queue' = Tail(queue)
        /\ UNCHANGED <<recorded, dropped>> /\ Enqueued' = Enqueued
        /\ handling' = [item |-> Head(queue),
                        todo |-> IF Head(queue) \in Evaluation THEN <<"summary">>
                                 ELSE contextAggregators]
    BY <1>2 DEF SetupQueueConsumer, Enqueued
  <2>2. /\ Head(queue) \in Item /\ Head(queue) = queue[1] /\ queue' \in Seq(Item)
        /\ Len(queue) \in Nat \ {0} /\ Len(queue') = Len(queue) - 1
        /\ \A j \in 1 .. Len(queue') : queue'[j] = queue[j + 1]
    BY <2>1, HeadOrTail DEF TypeOK
  <2>3. KindInv' /\ QueueInv'
    BY <1>0, <2>1, <2>2 DEF KindInv, QueueInv
  <2>4. Head(queue) \in Enqueued /\ ~Contains(queue', Head(queue))
    BY <2>2 DEF QueueInv, Contains
  <2>5. HandlingInv'
    <3>1. CASE Head(queue) \in Evaluation
      BY <2>1, <2>4, <3>1 DEF HandlingInv
    <3>2. CASE Head(queue) \notin Evaluation
      BY <1>0, <2>1, <2>2, <2>4, <3>2 DEF HandlingInv, Item
    <3> QED
      BY <3>1, <3>2
  <2> QED
    BY <2>1, <2>2, <2>3, <2>5, TelemetryAssumption DEF TypeOK
<1>3. CASE Record
  <2>1. UNCHANGED <<queueVars, Enqueued>>
    BY <1>3 DEF Record, Enqueued, queueVars
  <2>2. \/ handling' = Idling
        \/ handling' = [handling EXCEPT !.todo = Tail(@)] /\ Len(handling.todo) # 1
    BY <1>3 DEF Record
  <2>3. HandlingInv'
    <3>1. CASE handling' = Idling
      BY <3>1 DEF HandlingInv
    <3>2. CASE handling' = [handling EXCEPT !.todo = Tail(@)] /\ Len(handling.todo) # 1
      <4>1. handling # Idling
        BY <1>3 DEF Record
      <4>2. /\ handling \in [item : Context \cap Enqueued, todo : {<<"example", "shape">>}]
            /\ ~Contains(queue, handling.item)
        BY <3>2, <4>1, ContextAggregatorsAre DEF HandlingInv, TypeOK
      <4>3. Tail(<<"example", "shape">>) = <<"shape">>
        OBVIOUS
      <4>4. handling' \in [item : Context \cap Enqueued, todo : {<<"shape">>}]
        <5>1. handling.todo = <<"example", "shape">>
          BY <4>2
        <5>2. handling' = [handling EXCEPT !.todo = <<"shape">>]
          BY <3>2, <4>3, <5>1
        <5> QED
          BY <4>2, <5>2
      <4>5. handling'.item = handling.item
        BY <3>2, <4>2
      <4> QED
        BY <2>1, <4>2, <4>4, <4>5 DEF HandlingInv, queueVars
    <3> QED
      BY <2>2, <3>1, <3>2
  <2> QED
    BY <1>0, <2>1, <2>3 DEF KindInv, QueueInv, TypeOK, queueVars
<1>4. ASSUME NEW s \in Submitter, SubmitStep(s)
      PROVE  UNCHANGED <<queueVars, handling, Enqueued>>
  BY <1>4, SubmitFrame DEF queueVars, Enqueued
<1>5. CASE UNCHANGED <<queueVars, handling, Enqueued>>
  BY <1>0, <1>5 DEF KindInv, QueueInv, HandlingInv, TypeOK, queueVars
<1>6. CASE UNCHANGED vars
  BY <1>5, <1>6 DEF vars, queueVars, Enqueued
<1>7. ASSUME NEW i \in Item, Enqueue(i)
      PROVE  /\ recorded' \subseteq Item /\ dropped' \subseteq recorded'
             /\ queue' \in Seq(Item) /\ Len(queue') <= QueueSize
  BY <1>7, EnqueueStep DEF TypeOK
<1> QED
  BY <1>1, <1>2, <1>3, <1>4, <1>5, <1>6, <1>7, Steps

-----------------------------------------------------------------------------
\* The steps by what they move

\* Record gives an item to one aggregator; only the example aggregator may not
\* keep it, and then the aggregator of shapes is still to come.
LEMMA RecordStep ==
    ASSUME TypeInv, Record
    PROVE  LET a == Head(handling.todo)
               i == handling.item
           IN  /\ a \in Aggregator /\ i \in Enqueued /\ i \in Item /\ ~Contains(queue, i)
               /\ UNCHANGED <<options, queueVars, mutex, submit, ghostVars, Enqueued>>
               /\ data' = [data EXCEPT ![a] = IF Kept(a, i) THEN @ \cup {i} ELSE @]
               /\ \/ /\ i \in Evaluation /\ a = "summary" /\ handling' = Idling
                     /\ \A b : Contains(handling.todo, b) <=> b = "summary"
                  \/ /\ i \in Context /\ a = "shape" /\ handling' = Idling
                     /\ \A b : Contains(handling.todo, b) <=> b = "shape"
                  \/ /\ i \in Context /\ a = "example"
                     /\ options.contextTelemetryMode = "PeriodicExample"
                     /\ handling'.item = i /\ handling'.todo = <<"shape">>
                     /\ \A b : Contains(handling.todo, b) <=> b \in {"example", "shape"}
<1> USE DEF TypeInv
<1> DEFINE a == Head(handling.todo)
           i == handling.item
<1>1. /\ UNCHANGED <<options, queueVars, mutex, submit, ghostVars, Enqueued>>
      /\ data' = [data EXCEPT ![a] = IF Kept(a, i) THEN @ \cup {i} ELSE @]
      /\ handling # Idling
      /\ handling' = IF Len(handling.todo) = 1 THEN Idling ELSE [handling EXCEPT !.todo = Tail(@)]
  BY DEF Record, Enqueued, queueVars
<1>2. i \in Enqueued /\ i \in Item /\ ~Contains(queue, i)
  BY <1>1 DEF HandlingInv, Item
<1>3. CASE i \in Evaluation /\ handling.todo = <<"summary">>
  BY <1>1, <1>2, <1>3 DEF Aggregator, Contains
<1>4. CASE i \in Context /\ handling.todo = <<"shape">>
  BY <1>1, <1>2, <1>4 DEF Aggregator, Contains
<1>5. CASE i \in Context /\ handling.todo = <<"example", "shape">>
  <2>1. /\ Len(handling.todo) = 2 /\ a = "example" /\ Tail(handling.todo) = <<"shape">>
        /\ \A b : Contains(handling.todo, b) <=> b \in {"example", "shape"}
    BY <1>5 DEF Contains
  <2>2. options.contextTelemetryMode = "PeriodicExample"
    BY <1>1, <1>5, ContextAggregatorsAre, TelemetryAssumption DEF HandlingInv, TypeOK
  <2>3. handling'.item = i /\ handling'.todo = <<"shape">>
    BY <1>1, <2>1 DEF HandlingInv
  <2> QED
    BY <1>1, <1>2, <1>5, <2>1, <2>2, <2>3 DEF Aggregator
<1>6. \/ i \in Evaluation /\ handling.todo = <<"summary">>
      \/ i \in Context /\ handling.todo = <<"shape">>
      \/ i \in Context /\ handling.todo = <<"example", "shape">>
  BY <1>1, ContextAggregatorsAre DEF HandlingInv, TypeOK, KindInv, Enqueued
<1> QED
  BY <1>3, <1>4, <1>5, <1>6

\* A payload that is neither with the server nor given up.
Carries(s, a, i) == Active(s) /\ ~submit[s].accepted /\ <<a, i>> \in submit[s].payload

\* The things that a step of a submission may do with telemetry: nothing, take
\* what an aggregator holds, hand its payload to the server, hand it over again,
\* or lose it.
Keeps(s) ==
    /\ UNCHANGED <<data, ghostVars>>
    /\ \A a, i : Carries(s, a, i)' <=> Carries(s, a, i)

Takes(s) ==
    /\ Active(s) /\ UNCHANGED ghostVars
    /\ \E b \in Aggregator :
          /\ data' = [data EXCEPT ![b] = {}]
          /\ \A a, i : Carries(s, a, i)' <=> Carries(s, a, i) \/ (a = b /\ i \in data[b])

HandsOver(s) ==
    /\ Active(s) /\ ~submit[s].accepted /\ UNCHANGED <<data, lost>>
    /\ Accept(s)
    /\ \A a, i : ~Carries(s, a, i)'

Repeats(s) ==
    /\ Active(s) /\ submit[s].accepted /\ UNCHANGED <<data, lost>>
    /\ Accept(s)
    /\ \A a, i : ~Carries(s, a, i)'

Loses(s) ==
    /\ Active(s) /\ ~submit[s].accepted /\ UNCHANGED <<data, received, recounted>>
    /\ lost' = lost \cup submit[s].payload
    /\ \A a, i : ~Carries(s, a, i)'

LEMMA Moves ==
    ASSUME TypeInv, NEW s \in Submitter, SubmitStep(s)
    PROVE  Keeps(s) \/ Takes(s) \/ HandsOver(s) \/ Repeats(s) \/ Loses(s)
<1> USE DEF TypeInv, ghostVars
<1>0. submit[s] \in Submission /\ SubmissionInv(s)
  BY DEF TypeOK, SubmitInv
<1>1. ASSUME NEW drain \in BOOLEAN, Call(s, drain) PROVE Keeps(s)
  <2>1. submit[s].pc = "idle" /\ submit'[s].pc = "lock"
    BY <1>1 DEF Call, TypeOK, NoSubmit
  <2> QED
    BY <1>1, <2>1 DEF Call, Keeps, Carries, Active
<1>2. CASE Lock(s) \/ Drained(s)
  <2>1. /\ ~Active(s) /\ submit[s].payload = {}
    BY <1>0, <1>2 DEF Lock, Drained, Active, SubmissionInv
  <2>2. submit'[s].payload = submit[s].payload
    BY <1>0, <1>2 DEF Lock, Drained, TypeOK, Submission
  <2> QED
    BY <1>2, <2>1, <2>2 DEF Lock, Drained, Keeps, Carries
<1>3. CASE Collect(s)
  <2> DEFINE b == aggregators[submit[s].next]
  <2>1. submit[s].pc = "collect" /\ ~submit[s].accepted /\ b \in Aggregator
    BY <1>0, <1>3, AggregatorsAre DEF Collect, SubmissionInv, Submission, TypeOK
  <2>2. /\ submit'[s].pc = "collect" /\ submit'[s].accepted = submit[s].accepted
        /\ submit'[s].payload = submit[s].payload \cup ({b} \X data[b])
    BY <1>0, <1>3, <2>1 DEF Collect, TypeOK, Submission
  <2>3. data' = [data EXCEPT ![b] = {}] /\ UNCHANGED ghostVars
    BY <1>3 DEF Collect
  <2> HIDE DEF b
  <2>4. \A a, i : Carries(s, a, i)' <=> Carries(s, a, i) \/ (a = b /\ i \in data[b])
    BY <2>1, <2>2 DEF Carries, Active
  <2> QED
    BY <2>1, <2>3, <2>4 DEF Takes, Active
<1>4. ASSUME NEW r \in {"nil", "error"}, Return(s, r) PROVE \A a, i : ~Carries(s, a, i)'
  BY <1>4, Returned DEF Carries, Active
<1>5. CASE Collected(s)
  <2>1. CASE submit[s].events = 0 /\ (Return(s, "nil") \/ Return(s, "error"))
    <3>1. \A a, i : ~Carries(s, a, i)
      BY <1>0, <2>1 DEF SubmissionInv, Carries
    <3> QED
      BY <1>4, <1>5, <2>1, <3>1 DEF Collected, Keeps
  <2>2. CASE submit' = [submit EXCEPT ![s].pc = "marshal"]
    BY <1>0, <1>5, <2>2 DEF Collected, Keeps, Carries, Active, TypeOK, Submission
  <2> QED
    BY <1>5, <2>1, <2>2 DEF Collected
<1>6. CASE Marshal(s)
  <2>1. submit[s].pc = "marshal" /\ ~submit[s].accepted
    BY <1>0, <1>6 DEF Marshal, SubmissionInv
  <2>2. CASE GiveUp(s)
    BY <1>4, <1>6, <2>1, <2>2 DEF GiveUp, Marshal, Loses, Active
  <2>3. CASE submit' = [submit EXCEPT ![s].pc = "attempt"] /\ UNCHANGED ghostVars
    BY <1>0, <1>6, <2>1, <2>3 DEF Marshal, Keeps, Carries, Active, TypeOK, Submission
  <2> QED
    BY <1>6, <2>2, <2>3 DEF Marshal
<1>7. CASE retryRequest(s)
  <2>0. /\ Active(s) /\ data' = data /\ submit[s].accepted \in BOOLEAN
        /\ AnsweredOK(s) \/ GivenUp(s) \/ GoesOn(s)
    BY <1>0, <1>7, AttemptStep DEF Active, Submission
  <2>1. ASSUME Accept(s), \A a, i : ~Carries(s, a, i)' PROVE HandsOver(s) \/ Repeats(s)
    BY <2>0, <2>1 DEF Accept, HandsOver, Repeats
  <2>2. CASE AnsweredOK(s)
    BY <1>4, <2>1, <2>2 DEF AnsweredOK
  <2>3. CASE GivenUp(s)
    <3>1. \A a, i : ~Carries(s, a, i)'
      BY <1>4, <2>3 DEF GivenUp
    <3>2. CASE Accept(s)
      BY <2>1, <3>1, <3>2
    <3>3. CASE /\ UNCHANGED <<received, recounted>>
               /\ lost' = IF submit[s].accepted THEN lost ELSE lost \cup submit[s].payload
      <4>1. CASE submit[s].accepted
        BY <2>0, <3>1, <3>3, <4>1 DEF Keeps, Carries
      <4>2. CASE ~submit[s].accepted
        BY <2>0, <3>1, <3>3, <4>2 DEF Loses
      <4> QED
        BY <4>1, <4>2
    <3> QED
      BY <2>3, <3>2, <3>3 DEF GivenUp
  <2>4. CASE GoesOn(s)
    <3>1. CASE submit'[s].accepted /\ Accept(s)
      BY <2>1, <3>1 DEF Carries
    <3>2. CASE submit'[s].accepted = submit[s].accepted /\ UNCHANGED ghostVars
      BY <2>0, <2>4, <3>2 DEF GoesOn, Keeps, Carries, Active
    <3> QED
      BY <2>4, <3>1, <3>2 DEF GoesOn
  <2> QED
    BY <2>0, <2>2, <2>3, <2>4
<1> QED
  BY <1>1, <1>2, <1>3, <1>5, <1>6, <1>7 DEF SubmitStep, Proceed

\* What the server gets again, it has.
LEMMA RepeatsKeeps ==
    ASSUME AcceptedInv, NEW s \in Submitter, Repeats(s)
    PROVE  Keeps(s)
<1>1. submit[s].accepted /\ submit[s].payload \subseteq received
  BY DEF AcceptedInv, Repeats
<1> QED
  BY <1>1 DEF Repeats, Accept, Keeps, Carries, ghostVars

-----------------------------------------------------------------------------
\* Types

\* What the aggregators hold, and the ghosts.
LEMMA DataStep ==
    ASSUME TypeInv, [Next]_vars
    PROVE  /\ data' \in [Aggregator -> SUBSET Item] /\ DataInv'
           /\ received' \subseteq Aggregator \X Item /\ recounted' \subseteq Aggregator \X Item
           /\ lost' \subseteq Aggregator \X Item
<1> USE DEF TypeInv, ghostVars
<1>0. options' = options
  BY OptionsStay
<1>1. ASSUME UNCHANGED <<data, ghostVars>>, recorded \subseteq recorded'
      PROVE  /\ data' \in [Aggregator -> SUBSET Item] /\ DataInv'
             /\ received' \subseteq Aggregator \X Item
             /\ recounted' \subseteq Aggregator \X Item
             /\ lost' \subseteq Aggregator \X Item
  BY <1>0, <1>1 DEF TypeOK, DataInv
<1>2. ASSUME NEW i \in Item, Enqueue(i)
      PROVE  UNCHANGED <<data, ghostVars>> /\ recorded \subseteq recorded'
  BY <1>2, EnqueueStep
<1>3. CASE SetupQueueConsumer \/ UNCHANGED vars
  BY <1>1, <1>3 DEF SetupQueueConsumer, vars
<1>4. CASE Record
  <2> DEFINE a == Head(handling.todo)
             i == handling.item
  <2>1. /\ a \in Aggregator /\ i \in Item /\ i \in recorded
        /\ UNCHANGED <<queueVars, ghostVars>>
        /\ data' = [data EXCEPT ![a] = IF Kept(a, i) THEN @ \cup {i} ELSE @]
        /\ \/ i \in Evaluation /\ a = "summary"
           \/ i \in Context /\ a = "shape"
           \/ i \in Context /\ a = "example" /\ options.contextTelemetryMode = "PeriodicExample"
    BY <1>4, RecordStep DEF Enqueued
  <2> HIDE DEF a, i
  <2>2. data' \in [Aggregator -> SUBSET Item]
    BY <2>1 DEF TypeOK
  <2>3. DataInv'
    BY <1>0, <2>1 DEF DataInv, TypeOK, Aggregator, queueVars
  <2> QED
    BY <2>1, <2>2, <2>3 DEF TypeOK
<1>5. ASSUME NEW s \in Submitter, SubmitStep(s)
      PROVE  /\ data' \in [Aggregator -> SUBSET Item] /\ DataInv'
             /\ received' \subseteq Aggregator \X Item
             /\ recounted' \subseteq Aggregator \X Item
             /\ lost' \subseteq Aggregator \X Item
  <2>1. recorded' = recorded
    BY <1>5, SubmitFrame DEF queueVars
  <2>2. submit[s].payload \subseteq Aggregator \X Item
    BY DEF TypeOK, Submission
  <2>3. CASE Keeps(s)
    BY <1>1, <2>1, <2>3 DEF Keeps
  <2>4. CASE Takes(s)
    <3>1. PICK b \in Aggregator : data' = [data EXCEPT ![b] = {}]
      BY <2>4 DEF Takes
    <3>2. data' \in [Aggregator -> SUBSET Item] /\ \A a \in Aggregator : data'[a] \subseteq data[a]
      BY <3>1 DEF TypeOK
    <3> QED
      BY <1>0, <2>1, <2>4, <3>2 DEF Takes, TypeOK, DataInv, Aggregator
  <2>5. CASE HandsOver(s) \/ Repeats(s) \/ Loses(s)
    BY <1>0, <2>1, <2>2, <2>5 DEF HandsOver, Repeats, Loses, Accept, TypeOK, DataInv
  <2> QED
    BY <1>5, <2>3, <2>4, <2>5, Moves
<1> QED
  BY <1>1, <1>2, <1>3, <1>4, <1>5, Steps

LEMMA TypeInvStep ==
    ASSUME TypeInv, [Next]_vars
    PROVE  TypeInv'
<1>1. KindInv' /\ QueueInv' /\ HandlingInv' /\ DataInv' /\ SubmitInv'
  BY QueueStep, DataStep, SubmitsStep
<1>2. options' \in Options
  BY OptionsStay DEF TypeInv, TypeOK
<1>3. handling' = Idling \/ (handling'.item \in Item /\ handling'.todo # <<>>)
  <2>1. CASE /\ handling' \in [item : Evaluation \cap Enqueued', todo : {<<"summary">>}]
    BY <2>1 DEF Item
  <2>2. CASE handling' \in [item : Context \cap Enqueued', todo : {contextAggregators', <<"shape">>}]
    BY <1>1, <2>2 DEF KindInv, Enqueued, Item
  <2> QED
    BY <1>1, <2>1, <2>2 DEF HandlingInv, Idling
<1>4. TypeOK'
  BY <1>2, <1>3, OptionsStay, QueueStep, DataStep, SubmitsStep DEF TypeOK
<1> QED
  BY <1>1, <1>4 DEF TypeInv

LEMMA InitTypes == ASSUME Init PROVE TypeInv
<1>1. \A s \in Submitter : submit[s] = NoSubmit
  BY DEF Init
<1>2. Len(aggregators) \in Nat
  BY AggregatorsAre DEF Init
<1>3. NoSubmit \in Submission
  <2>1. /\ 1 \in 1 .. Len(aggregators) + 1 /\ 0 \in 0 .. Len(aggregators)
        /\ 1 \in 1 .. MaxAttempts /\ {} \in SUBSET (Aggregator \X Item)
    BY <1>2, TelemetryAssumption
  <2> QED
    BY <2>1 DEF NoSubmit, Submission
<1>4. TypeOK
  <2>1. submit \in [Submitter -> Submission]
    BY <1>3 DEF Init
  <2>2. \A s \in Submitter : submit[s].pc \notin {"idle", "lock"} <=> mutex = s
    BY <1>1, TelemetryAssumption DEF Init, NoSubmit, Submitter
  <2>3. queue \in Seq(Item) /\ Len(queue) <= QueueSize
    BY TelemetryAssumption DEF Init
  <2> QED
    BY <2>1, <2>2, <2>3 DEF Init, TypeOK
<1>5. SubmitInv
  BY <1>1 DEF SubmitInv, SubmissionInv, NoSubmit, Active
<1> QED
  BY <1>4, <1>5 DEF Init, TypeInv, KindInv, QueueInv, HandlingInv, DataInv, Aggregator

LEMMA TypeInvAlways == Spec => []TypeInv
<1>1. Init => TypeInv
  BY InitTypes
<1>2. TypeInv /\ [Next]_vars => TypeInv'
  BY TypeInvStep
<1> QED
  BY <1>1, <1>2, PTL DEF Spec

\* Every variable stays within its type; in particular the queue never outgrows
\* its channel (submitter.go:70-76), attempts stay within maxRetries (line 198),
\* and the mutex is held by exactly the submission between Lock and return.
THEOREM SubmitterTypeCorrectness == Spec => []TypeOK
<1>1. TypeInv => TypeOK
  BY DEF TypeInv
<1> QED
  BY <1>1, TypeInvAlways, PTL

-----------------------------------------------------------------------------
\* A submission that succeeds

\* A Submit that reports success has handed over all that it took out of the
\* aggregators (submitter.go:198-220): nil comes from an answer of 200, or from
\* a submission that found nothing, never from the last of the attempts.
THEOREM SuccessIsReceived == Spec => SuccessMeansReceived
<1>1. TypeInv /\ [Next]_vars =>
        \A s \in Submitter : submit[s].pc # "idle" /\ submit'[s].result = "nil"
                               => submit[s].payload \subseteq received'
  <2> SUFFICES ASSUME TypeInv, [Next]_vars, NEW s \in Submitter,
                      submit[s].pc # "idle", submit'[s].result = "nil"
               PROVE  submit[s].payload \subseteq received'
    OBVIOUS
  <2>0. submit[s] \in Submission /\ SubmissionInv(s) /\ submit[s].result = "none"
    BY DEF TypeInv, TypeOK, SubmitInv, SubmissionInv
  <2>1. SubmitStep(s)
    <3>1. ASSUME NEW t \in Submitter, SubmitStep(t), t # s PROVE FALSE
      BY <2>0, <3>1, SubmitFrame DEF TypeInv
    <3>2. ASSUME NEW i \in Item, Enqueue(i) PROVE FALSE
      BY <2>0, <3>2, EnqueueStep DEF TypeInv
    <3>3. CASE SetupQueueConsumer \/ Record \/ UNCHANGED vars
      BY <2>0, <3>3 DEF SetupQueueConsumer, Record, vars
    <3> QED
      BY <3>1, <3>2, <3>3, Steps
  <2>2. ~\E r \in {"error"} : Return(s, r)
    BY Returned DEF TypeInv
  <2>3. CASE \/ \E drain \in BOOLEAN : Call(s, drain)
             \/ Lock(s) \/ Drained(s) \/ Collect(s) \/ Marshal(s)
    <3>1. CASE \E drain \in BOOLEAN : Call(s, drain)
      BY <2>0, <3>1 DEF Call
    <3>2. CASE Lock(s) \/ Drained(s)
      <4>1. \E pc \in {"drain", "collect"} : submit'[s] = [submit[s] EXCEPT !.pc = pc]
        BY <3>2 DEF Lock, Drained, TypeInv, TypeOK
      <4>2. submit'[s].result = "none"
        BY <2>0, <4>1 DEF Submission
      <4> QED
        BY <4>2
    <3>3. CASE Collect(s)
      BY <2>0, <3>3 DEF Collect, Submission, TypeInv, TypeOK
    <3>4. CASE Marshal(s)
      <4>1. submit' = [submit EXCEPT ![s].pc = "attempt"]
        BY <2>2, <3>4 DEF Marshal, GiveUp
      <4> QED
        BY <2>0, <4>1 DEF Submission, TypeInv, TypeOK
    <3> QED
      BY <2>3, <3>1, <3>2, <3>3, <3>4
  <2>4. CASE Collected(s)
    <3>1. submit' # [submit EXCEPT ![s].pc = "marshal"]
      <4> SUFFICES ASSUME submit' = [submit EXCEPT ![s].pc = "marshal"] PROVE FALSE
        OBVIOUS
      <4>1. submit'[s] = [submit[s] EXCEPT !.pc = "marshal"]
        BY DEF TypeInv, TypeOK
      <4>2. submit'[s].result = "none"
        BY <2>0, <4>1 DEF Submission
      <4> QED
        BY <4>2
    <3>2. submit[s].events = 0
      BY <2>4, <3>1 DEF Collected
    <3> QED
      BY <2>0, <3>2 DEF SubmissionInv
  <2>5. CASE retryRequest(s)
    <3>1. AnsweredOK(s)
      BY <2>0, <2>2, <2>5, AttemptStep DEF GivenUp, GoesOn, TypeInv
    <3> QED
      BY <3>1 DEF AnsweredOK, Accept
  <2> QED
    BY <2>1, <2>3, <2>4, <2>5 DEF SubmitStep, Proceed
<1> QED
  BY <1>1, TypeInvAlways, PTL DEF Spec, SuccessMeansReceived

-----------------------------------------------------------------------------
\* Everything is counted once

\* A step that leaves an item where it is, or nowhere if it need not be counted.
LEMMA StaysPlaced ==
    ASSUME PlaceInv, NEW a \in Aggregator, NEW i \in Item,
           i \in Enqueued <=> (i \in Enqueued)',
           \A p \in Place : At(p, a, i)' => At(p, a, i),
           \A p \in Place : a = Main(i) /\ At(p, a, i) => At(p, a, i)'
    PROVE  PlacedOnce(a, i)'
<1>1. PlacedOnce(a, i) /\ Main(i)' = Main(i) /\ Place' = Place
  BY DEF PlaceInv, Main, Place
<1> HIDE DEF At, Place, Enqueued, Main
<1> QED
  BY <1>1 DEF PlacedOnce

\* A step that takes an item from one place to another.
LEMMA MovesPlace ==
    ASSUME PlaceInv, NEW a \in Aggregator, NEW i \in Item,
           Enqueued' = Enqueued,
           NEW from \in Place, NEW to \in Place, At(from, a, i),
           \A p \in Place : At(p, a, i)' => p = to,
           a = Main(i) => At(to, a, i)'
    PROVE  PlacedOnce(a, i)'
<1>1. PlacedOnce(a, i) /\ Main(i)' = Main(i) /\ Place' = Place
  BY DEF PlaceInv, Main, Place
<1> HIDE DEF At, Place, Enqueued, Main
<1> QED
  BY <1>1 DEF PlacedOnce

\* Only the submission that holds the mutex has a payload.
LEMMA OnePayload ==
    ASSUME TypeOK, NEW s \in Submitter, SubmitStep(s), Active(s)
    PROVE  \A a, i : /\ InPayload(a, i) <=> Carries(s, a, i)
                     /\ InPayload(a, i)' <=> Carries(s, a, i)'
<1>1. \A t \in Submitter \ {s} : ~Active(t) /\ submit'[t] = submit[t]
  BY SubmitFrame DEF TypeOK, Active
<1>2. \A a, i : InPayload(a, i) <=> \E t \in Submitter : Carries(t, a, i)
  BY DEF InPayload, Carries, Active
<1>3. \A a, i : InPayload(a, i)' <=> \E t \in Submitter : Carries(t, a, i)'
  BY DEF InPayload, Carries, Active
<1>4. \A t \in Submitter \ {s} : \A a, i : ~Carries(t, a, i) /\ ~Carries(t, a, i)'
  BY <1>1 DEF Carries, Active
<1> QED
  BY <1>2, <1>3, <1>4

LEMMA EnqueuePlaces ==
    ASSUME TypeInv, PlaceInv, NEW j \in Item, Enqueue(j)
    PROVE  PlaceInv'
<1> USE DEF TypeInv
<1>1. /\ UNCHANGED <<handling, data, submit, ghostVars>> /\ j \notin Enqueued
      /\ \/ queue' = queue /\ Enqueued' = Enqueued
         \/ queue' = Append(queue, j) /\ Enqueued' = Enqueued \cup {j}
  BY EnqueueStep
<1> SUFFICES ASSUME NEW a \in Aggregator, NEW i \in Item PROVE PlacedOnce(a, i)'
  BY DEF PlaceInv
<1>2. InPayload(a, i)' <=> InPayload(a, i)
  BY <1>1 DEF InPayload
<1>3. CASE queue' = queue /\ Enqueued' = Enqueued
  <2>1. \A p \in Place : At(p, a, i)' <=> At(p, a, i)
    BY <1>1, <1>2, <1>3 DEF At, Waiting, ghostVars
  <2> QED
    BY <1>3, <2>1, StaysPlaced
<1>4. CASE queue' = Append(queue, j) /\ Enqueued' = Enqueued \cup {j}
  <2>1. Contains(queue', i) <=> Contains(queue, i) \/ i = j
    BY <1>4, Appended DEF TypeOK
  <2>2. CASE i # j
    <3>1. \A p \in Place : At(p, a, i)' <=> At(p, a, i)
      BY <1>1, <1>2, <2>1, <2>2 DEF At, Waiting, ghostVars
    <3> QED
      BY <1>4, <2>2, <3>1, StaysPlaced
  <2>3. CASE i = j
    <3>1. \A p \in Place : ~At(p, a, i)
      BY <1>1, <2>3 DEF PlaceInv, PlacedOnce
    <3>2. Waiting(a, i)'
      BY <2>1, <2>3 DEF Waiting
    <3>3. \A p \in Place : At(p, a, i)' <=> p = "waiting"
      BY <1>1, <1>2, <3>1, <3>2 DEF At, Place, ghostVars
    <3> QED
      BY <1>4, <2>3, <3>3 DEF PlacedOnce, Place
  <2> QED
    BY <2>2, <2>3
<1> QED
  BY <1>1, <1>3, <1>4

LEMMA ConsumePlaces ==
    ASSUME TypeInv, PlaceInv, SetupQueueConsumer
    PROVE  PlaceInv'
<1> USE DEF TypeInv
<1>1. /\ handling = Idling /\ queue # <<>> /\ queue' = Tail(queue)
      /\ UNCHANGED <<options, data, submit, ghostVars, Enqueued>>
      /\ handling' = [item |-> Head(queue),
                      todo |-> IF Head(queue) \in Evaluation THEN <<"summary">>
                               ELSE contextAggregators]
  BY DEF SetupQueueConsumer, Enqueued, queueVars
<1>2. Head(queue) \in Enqueued /\ Head(queue) \in Item
  BY <1>1, HeadOrTail DEF TypeOK, QueueInv
<1>3. \A x : Contains(queue, x) <=> x = Head(queue) \/ Contains(queue', x)
  BY <1>1, HeadOrTail DEF TypeOK
<1>4. Contains(handling'.todo, Main(Head(queue)))
  <2>1. CASE Head(queue) \in Evaluation
    BY <1>1, <2>1 DEF Main, Contains
  <2>2. CASE Head(queue) \notin Evaluation
    <3>1. contextAggregators \in {<<"shape">>, <<"example", "shape">>}
      BY <1>2, <2>2, ContextAggregatorsAre DEF KindInv, Enqueued, Item, TypeOK
    <3> QED
      BY <1>1, <2>2, <3>1 DEF Main, Contains
  <2> QED
    BY <2>1, <2>2
<1> SUFFICES ASSUME NEW a \in Aggregator, NEW i \in Item PROVE PlacedOnce(a, i)'
  BY DEF PlaceInv
<1>5. InPayload(a, i)' <=> InPayload(a, i)
  BY <1>1 DEF InPayload
<1>6. Waiting(a, i) <=> Contains(queue, i)
  BY <1>1 DEF Waiting, Idling, Contains
<1>7. Waiting(a, i)' <=> Contains(queue', i) \/ (i = Head(queue) /\ Contains(handling'.todo, a))
  BY <1>1 DEF Waiting
<1>8. /\ Waiting(a, i)' => Waiting(a, i)
      /\ a = Main(i) /\ Waiting(a, i) => Waiting(a, i)'
  BY <1>3, <1>4, <1>6, <1>7
<1>9. \A p \in Place : /\ At(p, a, i)' => At(p, a, i)
                       /\ a = Main(i) /\ At(p, a, i) => At(p, a, i)'
  BY <1>1, <1>5, <1>8 DEF At, ghostVars
<1> QED
  BY <1>1, <1>9, StaysPlaced

LEMMA RecordPlaces ==
    ASSUME TypeInv, PlaceInv, Record
    PROVE  PlaceInv'
<1> USE DEF TypeInv
<1> DEFINE b == Head(handling.todo)
           j == handling.item
<1>1. /\ b \in Aggregator /\ j \in Enqueued /\ j \in Item /\ ~Contains(queue, j)
      /\ UNCHANGED <<queue, submit, ghostVars, Enqueued>>
      /\ data' = [data EXCEPT ![b] = IF Kept(b, j) THEN @ \cup {j} ELSE @]
      /\ \/ /\ b = Main(j) /\ handling' = Idling
            /\ \A a : Contains(handling.todo, a) <=> a = b
         \/ /\ b = "example" /\ Main(j) = "shape"
            /\ handling'.item = j /\ handling'.todo = <<"shape">>
            /\ \A a : Contains(handling.todo, a) <=> a \in {"example", "shape"}
  BY RecordStep, TelemetryAssumption DEF queueVars, Main
<1> HIDE DEF b, j
<1>2. handling.item = j
  BY DEF j
<1> SUFFICES ASSUME NEW a \in Aggregator, NEW i \in Item PROVE PlacedOnce(a, i)'
  BY DEF PlaceInv
<1>3. InPayload(a, i)' <=> InPayload(a, i)
  BY <1>1 DEF InPayload
<1>4. i \in data'[a] <=> i \in data[a] \/ (a = b /\ i = j /\ Kept(b, j))
  BY <1>1 DEF TypeOK
<1>5. Waiting(a, i)' <=> Waiting(a, i) /\ ~(a = b /\ i = j)
  <2>1. Contains(<<"shape">>, a) <=> a = "shape"
    BY DEF Contains
  <2>2. ~Contains(Idling.todo, a)
    BY DEF Idling, Contains
  <2>3. CASE b = Main(j) /\ handling' = Idling /\ \A c : Contains(handling.todo, c) <=> c = b
    BY <1>1, <1>2, <2>2, <2>3 DEF Waiting
  <2>4. CASE /\ b = "example" /\ handling'.item = j /\ handling'.todo = <<"shape">>
             /\ \A c : Contains(handling.todo, c) <=> c \in {"example", "shape"}
    BY <1>1, <1>2, <2>1, <2>4 DEF Waiting
  <2> QED
    BY <1>1, <2>3, <2>4
<1>6. CASE ~(a = b /\ i = j)
  <2>1. \A p \in Place : At(p, a, i)' <=> At(p, a, i)
    BY <1>1, <1>3, <1>4, <1>5, <1>6 DEF At, ghostVars
  <2> QED
    BY <1>1, <2>1, StaysPlaced
<1>7. CASE a = b /\ i = j
  <2>1. At("waiting", a, i)
    BY <1>1, <1>2, <1>7 DEF At, Waiting, Main
  <2>2. \A p \in Place : At(p, a, i) => p = "waiting"
    BY <2>1 DEF PlaceInv, PlacedOnce, Place
  <2>3. \A p \in Place : At(p, a, i)' => p = "held"
    BY <1>1, <1>3, <1>4, <1>5, <1>7, <2>2 DEF At, Place, ghostVars
  <2>4. a = Main(i) => At("held", a, i)'
    BY <1>1, <1>4, <1>7 DEF At, Kept, Main
  <2> QED
    BY <1>1, <2>1, <2>3, <2>4, MovesPlace DEF Place
<1> QED
  BY <1>6, <1>7

LEMMA SubmitPlaces ==
    ASSUME TypeInv, PlaceInv, AcceptedInv, recounted = {}, NEW s \in Submitter, SubmitStep(s)
    PROVE  PlaceInv' /\ recounted' = {}
<1> USE DEF TypeInv
<1>1. UNCHANGED <<queue, handling, Enqueued>>
  BY SubmitFrame DEF queueVars, Enqueued
<1>2. \A a, i : Waiting(a, i)' <=> Waiting(a, i)
  BY <1>1 DEF Waiting
<1>3. CASE Keeps(s)
  <2>1. \A t \in Submitter : \A a, i : Carries(t, a, i)' <=> Carries(t, a, i)
    BY <1>3, SubmitFrame DEF Keeps, Carries, Active
  <2>2. \A a, i : InPayload(a, i)' <=> InPayload(a, i)
    BY <2>1 DEF InPayload, Carries, Active
  <2>3. \A a, i : \A p \in Place : At(p, a, i)' <=> At(p, a, i)
    BY <1>2, <1>3, <2>2 DEF At, Keeps, ghostVars
  <2> QED
    BY <1>1, <1>3, <2>3, StaysPlaced DEF PlaceInv, Keeps, ghostVars
<1>4. CASE Takes(s)
  <2>1. PICK b \in Aggregator :
           /\ data' = [data EXCEPT ![b] = {}]
           /\ \A a, i : Carries(s, a, i)' <=> Carries(s, a, i) \/ (a = b /\ i \in data[b])
    BY <1>4 DEF Takes
  <2>2. UNCHANGED ghostVars /\ Active(s)
    BY <1>4 DEF Takes
  <2>3. ASSUME NEW a \in Aggregator, NEW i \in Item PROVE PlacedOnce(a, i)'
    <3>1. InPayload(a, i)' <=> InPayload(a, i) \/ (a = b /\ i \in data[b])
      BY <2>1, <2>2, OnePayload
    <3>2. i \in data'[a] <=> i \in data[a] /\ a # b
      BY <2>1 DEF TypeOK
    <3>3. CASE a = b /\ i \in data[b]
      <4>1. At("held", a, i)
        BY <3>3 DEF At
      <4>2. \A p \in Place : At(p, a, i) => p = "held"
        BY <4>1 DEF PlaceInv, PlacedOnce, Place
      <4>3. \A p \in Place : At(p, a, i)' => p = "payload"
        BY <1>2, <2>2, <3>2, <3>3, <4>2 DEF At, Place, ghostVars
      <4>4. At("payload", a, i)'
        BY <3>1, <3>3 DEF At
      <4> QED
        BY <1>1, <4>1, <4>3, <4>4, MovesPlace DEF Place
    <3>4. CASE ~(a = b /\ i \in data[b])
      <4>1. \A p \in Place : At(p, a, i)' <=> At(p, a, i)
        BY <1>2, <2>2, <3>1, <3>2, <3>4 DEF At, ghostVars
      <4> QED
        BY <1>1, <4>1, StaysPlaced
    <3> QED
      BY <3>3, <3>4
  <2> QED
    BY <2>2, <2>3 DEF PlaceInv, ghostVars
<1>5. CASE HandsOver(s) \/ Loses(s)
  <2>0. PICK to \in {"received", "lost"} :
           \/ to = "received" /\ HandsOver(s)
           \/ to = "lost" /\ Loses(s)
    BY <1>5
  <2>1. /\ Active(s) /\ ~submit[s].accepted /\ data' = data
        /\ \A a, i : ~InPayload(a, i)'
        /\ \A a, i : InPayload(a, i) <=> <<a, i>> \in submit[s].payload
    BY <1>5, OnePayload DEF HandsOver, Loses, Carries
  <2>2. received \cap submit[s].payload = {}
    <3> SUFFICES ASSUME NEW x \in received, x \in submit[s].payload PROVE FALSE
      OBVIOUS
    <3>1. PICK a \in Aggregator, i \in Item : x = <<a, i>>
      BY DEF TypeOK
    <3>2. At("received", a, i) /\ At("payload", a, i)
      BY <2>1, <3>1 DEF At
    <3> QED
      BY <3>2 DEF PlaceInv, PlacedOnce, Place
  <2>3. recounted' = {}
    BY <1>5, <2>2 DEF HandsOver, Loses, Accept
  <2>4. ASSUME NEW a \in Aggregator, NEW i \in Item PROVE PlacedOnce(a, i)'
    <3>1. \A p \in Place \ {"payload", to} : At(p, a, i)' <=> At(p, a, i)
      BY <1>2, <2>0, <2>1 DEF At, HandsOver, Loses, Accept
    <3>2. ~At("payload", a, i)'
      BY <2>1 DEF At
    <3>3. At(to, a, i)' <=> At(to, a, i) \/ At("payload", a, i)
      BY <2>0, <2>1 DEF At, HandsOver, Loses, Accept
    <3>4. CASE At("payload", a, i)
      <4>1. \A p \in Place : At(p, a, i) => p = "payload"
        BY <3>4 DEF PlaceInv, PlacedOnce, Place
      <4>2. \A p \in Place : At(p, a, i)' => p = to
        BY <3>1, <3>2, <4>1
      <4> QED
        BY <1>1, <3>3, <3>4, <4>2, MovesPlace DEF Place
    <3>5. CASE ~At("payload", a, i)
      <4>1. \A p \in Place : At(p, a, i)' <=> At(p, a, i)
        BY <3>1, <3>2, <3>3, <3>5
      <4> QED
        BY <1>1, <4>1, StaysPlaced
    <3> QED
      BY <3>4, <3>5
  <2> QED
    BY <2>3, <2>4 DEF PlaceInv
<1> QED
  BY <1>3, <1>4, <1>5, Moves, RepeatsKeeps

\* An attempt that the server accepted, and only that, makes a submission accepted.
LEMMA AcceptedStep ==
    ASSUME TypeInv, AcceptedInv, [Next]_vars
    PROVE  AcceptedInv'
<1> USE DEF TypeInv
<1>1. ASSUME UNCHANGED <<received, submit>> PROVE AcceptedInv'
  BY <1>1 DEF AcceptedInv
<1>2. ASSUME NEW i \in Item, Enqueue(i) PROVE UNCHANGED <<received, submit>>
  BY <1>2, EnqueueStep DEF ghostVars
<1>3. SetupQueueConsumer \/ Record \/ UNCHANGED vars => UNCHANGED <<received, submit>>
  BY DEF SetupQueueConsumer, Record, vars, ghostVars
<1>4. ASSUME NEW s \in Submitter, SubmitStep(s) PROVE AcceptedInv'
  <2>0. submit[s] \in Submission /\ SubmissionInv(s)
    BY DEF TypeOK, SubmitInv
  <2>1. received \subseteq received'
    BY <1>4, Moves DEF Keeps, Takes, HandsOver, Repeats, Loses, Accept, ghostVars
  <2>2. ASSUME NEW r \in {"nil", "error"}, Return(s, r) PROVE ~submit'[s].accepted
    BY <2>2, Returned
  <2>3. CASE retryRequest(s)
    <3>1. GoesOn(s) \/ ~submit'[s].accepted
      BY <2>2, <2>3, AttemptStep DEF AnsweredOK, GivenUp
    <3>2. submit'[s].accepted => submit'[s].payload \subseteq received'
      BY <2>1, <3>1 DEF GoesOn, Accept, AcceptedInv
    <3> QED
      BY <1>4, <2>1, <3>2, SubmitFrame DEF AcceptedInv
  <2>4. CASE \E drain \in BOOLEAN : Call(s, drain)
    <3>1. ~submit'[s].accepted
      BY <2>4 DEF Call, TypeOK, NoSubmit
    <3> QED
      BY <1>4, <2>1, <3>1, SubmitFrame DEF AcceptedInv
  <2>5. CASE Lock(s) \/ Drained(s) \/ Collect(s) \/ Collected(s) \/ Marshal(s)
    <3>1. ~submit[s].accepted
      BY <2>0, <2>5 DEF Lock, Drained, Collect, Collected, Marshal, SubmissionInv, Submission
    <3>2. \/ Return(s, "nil") \/ Return(s, "error") \/ Collect(s)
          \/ \E pc \in {"drain", "collect", "marshal", "attempt"} :
                submit'[s] = [submit[s] EXCEPT !.pc = pc]
      BY <2>5 DEF Lock, Drained, Collected, Marshal, GiveUp, TypeOK
    <3>3. Collect(s) => submit'[s].accepted = submit[s].accepted
      BY <2>0 DEF Collect, TypeOK, Submission
    <3>4. ~submit'[s].accepted
      BY <2>0, <2>2, <3>1, <3>2, <3>3 DEF Submission
    <3> QED
      BY <1>4, <2>1, <3>4, SubmitFrame DEF AcceptedInv
  <2> QED
    BY <1>4, <2>3, <2>4, <2>5 DEF SubmitStep, Proceed
<1> QED
  BY <1>1, <1>2, <1>3, <1>4, Steps

LEMMA CountInvStep ==
    ASSUME CountInv, [Next]_vars
    PROVE  CountInv'
<1>1. TypeInv' /\ AcceptedInv'
  BY TypeInvStep, AcceptedStep DEF CountInv
<1>2. CASE \/ \E i \in Item : Enqueue(i)
           \/ SetupQueueConsumer
           \/ Record
  <2>1. PlaceInv'
    BY <1>2, EnqueuePlaces, ConsumePlaces, RecordPlaces DEF CountInv
  <2>2. recounted' = recounted
    BY <1>2, EnqueueStep DEF SetupQueueConsumer, Record, ghostVars, CountInv, TypeInv
  <2> QED
    BY <1>1, <2>1, <2>2 DEF CountInv
<1>3. ASSUME NEW s \in Submitter, SubmitStep(s) PROVE PlaceInv' /\ recounted' = {}
  BY <1>3, SubmitPlaces DEF CountInv
<1>4. CASE UNCHANGED vars
  <2>1. \A a, i : /\ InPayload(a, i)' <=> InPayload(a, i)
                  /\ Waiting(a, i)' <=> Waiting(a, i)
    BY <1>4 DEF vars, InPayload, Waiting
  <2>2. \A a, i : \A p \in Place : At(p, a, i)' <=> At(p, a, i)
    BY <1>4, <2>1 DEF At, vars
  <2>3. Enqueued' = Enqueued /\ recounted' = recounted
    BY <1>4 DEF vars, Enqueued
  <2> QED
    BY <1>1, <2>2, <2>3, StaysPlaced DEF CountInv, PlaceInv
<1> QED
  BY <1>1, <1>2, <1>3, <1>4, Steps DEF CountInv

LEMMA CountInvAlways == Spec => []CountInv
<1>1. Init => CountInv
  <2> SUFFICES ASSUME Init PROVE CountInv
    OBVIOUS
  <2>1. TypeInv /\ AcceptedInv /\ recounted = {}
    BY InitTypes DEF Init, AcceptedInv, NoSubmit
  <2>2. ASSUME NEW a \in Aggregator, NEW i \in Item, NEW p \in Place PROVE ~At(p, a, i)
    <3>1. ~Waiting(a, i)
      BY DEF Init, Waiting, Contains, Idling
    <3>2. ~InPayload(a, i)
      BY DEF Init, InPayload, NoSubmit
    <3> QED
      BY <3>1, <3>2 DEF At, Init
  <2>3. Enqueued = {}
    BY DEF Init, Enqueued
  <2> QED
    BY <2>1, <2>2, <2>3 DEF CountInv, PlaceInv, PlacedOnce
<1>2. CountInv /\ [Next]_vars => CountInv'
  BY CountInvStep
<1> QED
  BY <1>1, <1>2, PTL DEF Spec

\* Whatever the order of recording, submitting, failing and hanging, every
\* evaluation and every context that the queue had room for is in exactly one
\* place, and no submission brings the server what another one brought, although
\* Submit clears the aggregators before it knows whether the request succeeds
\* (submitter.go:154-189).  That a retry may bring again what an unacknowledged
\* attempt of its own submission brought (submitter.go:199) is not excluded.
THEOREM EverythingIsCountedOnce == Spec => []EverythingCountedOnce
<1>1. CountInv => EverythingCountedOnce
  <2> SUFFICES ASSUME CountInv PROVE EverythingCountedOnce
    OBVIOUS
  <2>1. ASSUME NEW a \in Aggregator, NEW i \in Enqueued, a = Main(i)
        PROVE  Cardinality(Places(a, i)) = 1
    <3>1. i \in Item /\ PlacedOnce(a, i)
      BY DEF CountInv, PlaceInv, TypeInv, TypeOK, Enqueued
    <3>2. PICK p \in Place : At(p, a, i)
      BY <2>1, <3>1 DEF PlacedOnce
    <3>3. \A q \in Place : At(q, a, i) <=> q = p
      BY <3>1, <3>2 DEF PlacedOnce
    <3>4. Places(a, i) = {q \in Place : At(q, a, i)}
      BY DEF Places, Place, At
    <3>5. Places(a, i) = {p}
      BY <3>3, <3>4
    <3> QED
      BY <3>5, FS_Singleton
  <2>2. ASSUME NEW e \in (recorded \ dropped) \cap Evaluation
        PROVE  Cardinality(Places("summary", e)) = 1
    BY <2>1 DEF Enqueued, Main, Aggregator
  <2>3. ASSUME NEW c \in (recorded \ dropped) \cap Context
        PROVE  Cardinality(Places("shape", c)) = 1
    BY <2>1, TelemetryAssumption DEF Enqueued, Main, Aggregator
  <2> QED
    BY <2>2, <2>3 DEF EverythingCountedOnce, CountInv
<1> QED
  BY <1>1, CountInvAlways, PTL

-----------------------------------------------------------------------------
\* What a submission takes, and what it misses

\* A step of a submission leaves it without a payload, begins to collect, visits
\* an aggregator, or keeps what it has.
LEMMA SubmitCases ==
    ASSUME TypeInv, [Next]_vars, NEW s \in Submitter, SubmitStep(s)
    PROVE  \/ ~Active(s)' /\ data' = data
           \/ /\ ~Active(s) /\ submit'[s].next = 1 /\ data' = data
              /\ submit'[s].drain => queue = <<>>
              /\ submit'[s].payload = {}
           \/ Collect(s)
           \/ /\ Active(s) /\ data' = data
              /\ submit'[s].payload = submit[s].payload /\ submit'[s].next = submit[s].next
              /\ submit'[s].before = submit[s].before /\ submit'[s].drain = submit[s].drain
<1> USE DEF TypeInv
<1>0. submit[s] \in Submission /\ SubmissionInv(s)
  BY DEF TypeOK, SubmitInv
<1>1. ASSUME NEW drain \in BOOLEAN, Call(s, drain) PROVE ~Active(s)' /\ data' = data
  BY <1>1 DEF Call, Active, TypeOK, NoSubmit
<1>2. CASE Lock(s) \/ Drained(s)
  <2>1. PICK pc \in {"drain", "collect"} :
           /\ submit'[s] = [submit[s] EXCEPT !.pc = pc] /\ data' = data
           /\ pc = "drain" \/ queue = <<>> \/ ~submit[s].drain
    BY <1>2 DEF Lock, Drained, TypeOK
  <2>2. /\ submit'[s].pc = pc /\ submit'[s].next = submit[s].next
        /\ submit'[s].payload = submit[s].payload /\ submit'[s].drain = submit[s].drain
    BY <1>0, <2>1 DEF Submission
  <2>3. ~Active(s) /\ submit[s].next = 1 /\ submit[s].payload = {}
    BY <1>0, <1>2 DEF Lock, Drained, Active, SubmissionInv
  <2> QED
    BY <2>1, <2>2, <2>3 DEF Active
<1>3. ASSUME NEW r \in {"nil", "error"}, Return(s, r) PROVE ~Active(s)'
  BY <1>3, Returned DEF Active
<1>4. CASE Collected(s) \/ Marshal(s)
  <2>1. CASE Return(s, "nil") \/ Return(s, "error")
    BY <1>3, <1>4, <2>1 DEF Collected, Marshal
  <2>2. CASE \E pc \in {"marshal", "attempt"} : submit' = [submit EXCEPT ![s].pc = pc]
    BY <1>0, <1>4, <2>2 DEF Collected, Marshal, Active, TypeOK, Submission
  <2> QED
    BY <1>4, <2>1, <2>2 DEF Collected, Marshal, GiveUp
<1>5. CASE retryRequest(s)
  <2>1. CASE Return(s, "nil") \/ Return(s, "error")
    BY <1>3, <1>5, <2>1, AttemptStep
  <2>2. CASE GoesOn(s)
    BY <1>5, <2>2, AttemptStep DEF GoesOn, Active
  <2> QED
    BY <1>5, <2>1, <2>2, AttemptStep DEF AnsweredOK, GivenUp
<1> QED
  BY <1>1, <1>2, <1>4, <1>5 DEF SubmitStep, Proceed

\* A visit to an aggregator moves what it holds into the payload.
LEMMA CollectStep ==
    ASSUME TypeInv, NEW s \in Submitter, Collect(s)
    PROVE  LET b == aggregators[submit[s].next]
           IN  /\ b \in Aggregator /\ Active(s)
               /\ submit[s].next \in 1 .. Len(aggregators)
               /\ data' = [data EXCEPT ![b] = {}]
               /\ submit'[s].payload = submit[s].payload \cup ({b} \X data[b])
               /\ submit'[s].next = submit[s].next + 1
               /\ submit'[s].before = submit[s].before /\ submit'[s].drain = submit[s].drain
<1>1. submit[s] \in Submission
  BY DEF TypeInv, TypeOK
<1>2. submit[s].next \in 1 .. Len(aggregators)
  BY <1>1, AggregatorsAre DEF Collect, Submission, TypeInv, TypeOK
<1> QED
  BY <1>1, <1>2, AggregatorsAre DEF Collect, Active, Submission, TypeInv, TypeOK

LEMMA ExampleInvStep ==
    ASSUME TypeInv, ExampleInv, [Next]_vars
    PROVE  ExampleInv'
<1> DEFINE Distinct(C) == \A c, d \in C : GroupedKey[c] = GroupedKey[d] => c = d
           Examples(s) == {c \in Context : <<"example", c>> \in submit[s].payload}
<1>0. /\ ExampleInv <=> Distinct(data["example"]) /\ \A s \in Submitter : Distinct(Examples(s))
      /\ ExampleInv' <=>
            Distinct(data'["example"]) /\ \A s \in Submitter : Distinct(Examples(s)')
  <2>1. OneExamplePerKey <=> \A s \in Submitter : Distinct(Examples(s))
    BY ZenonT(60) DEF OneExamplePerKey
  <2>2. OneExamplePerKey' <=> \A s \in Submitter : Distinct(Examples(s)')
    BY ZenonT(60) DEF OneExamplePerKey
  <2> HIDE DEF Examples
  <2> QED
    BY <2>1, <2>2 DEF ExampleInv
<1>1. CASE (\E i \in Item : Enqueue(i)) \/ SetupQueueConsumer \/ UNCHANGED vars
  <2>1. UNCHANGED <<data, submit>>
    BY <1>1, EnqueueStep DEF TypeInv, SetupQueueConsumer, vars
  <2> QED
    BY <2>1 DEF ExampleInv, OneExamplePerKey
<1>2. CASE Record
  <2>1. /\ Head(handling.todo) \in Aggregator /\ submit' = submit
        /\ data' = [data EXCEPT ![Head(handling.todo)] =
                        IF Kept(Head(handling.todo), handling.item) THEN @ \cup {handling.item}
                        ELSE @]
    BY <1>2, RecordStep
  <2>2. CASE Head(handling.todo) = "example" /\ Kept("example", handling.item)
    <3>1. data'["example"] = data["example"] \cup {handling.item}
      BY <2>1, <2>2 DEF TypeInv, TypeOK
    <3>2. \A c \in data["example"] : GroupedKey[c] # GroupedKey[handling.item]
      BY <2>2 DEF Kept
    <3>3. Distinct(data'["example"])
      BY <1>0, <3>1, <3>2
    <3> QED
      BY <1>0, <2>1, <3>3
  <2>3. CASE ~(Head(handling.todo) = "example" /\ Kept("example", handling.item))
    <3>1. data'["example"] = data["example"]
      BY <2>1, <2>3 DEF TypeInv, TypeOK, Aggregator
    <3> QED
      BY <1>0, <2>1, <3>1
  <2> QED
    BY <2>2, <2>3
<1>3. ASSUME NEW s \in Submitter, SubmitStep(s) PROVE ExampleInv'
  <2>0. \A t \in Submitter \ {s} : submit'[t] = submit[t]
    BY <1>3, SubmitFrame DEF TypeInv
  <2>1. /\ data'["example"] \subseteq data["example"]
        /\ Distinct(Examples(s)')
    <3>1. CASE ~Active(s)' /\ data' = data
      <4>1. submit'[s].payload = {}
        BY <1>3, <3>1, SubmissionStep DEF SubmissionInv
      <4> QED
        BY <3>1, <4>1
    <3>2. CASE submit'[s].payload = {} /\ data' = data
      BY <3>2
    <3>3. CASE submit'[s].payload = submit[s].payload /\ data' = data
      BY <1>0, <3>3
    <3>4. CASE Collect(s)
      <4> DEFINE b == aggregators[submit[s].next]
      <4>1. /\ b \in Aggregator /\ submit[s].next \in 1 .. Len(aggregators)
            /\ data' = [data EXCEPT ![b] = {}]
            /\ submit'[s].payload = submit[s].payload \cup ({b} \X data[b])
        BY <3>4, CollectStep
      <4> HIDE DEF b
      <4>2. data'["example"] \subseteq data["example"]
        BY <4>1 DEF TypeInv, TypeOK, Aggregator
      <4>3. CASE b = "example"
        <5>1. ASSUME NEW c \in Context PROVE <<"example", c>> \notin submit[s].payload
          <6>1. SUFFICES ASSUME <<"example", c>> \in submit[s].payload PROVE FALSE
            OBVIOUS
          <6>2. PICK j \in 1 .. submit[s].next - 1 : "example" = aggregators[j]
            BY <6>1 DEF TypeInv, SubmitInv, SubmissionInv
          <6>3. /\ j \in 1 .. Len(aggregators) /\ j # submit[s].next
                /\ aggregators[j] = aggregators[submit[s].next]
            BY <4>1, <4>3, <6>2, AggregatorsAre DEF b, TypeInv, TypeOK
          <6> QED
            BY <4>1, <6>3, AggregatorsAre DEF TypeInv, TypeOK
        <5>2. \A c \in Context : <<"example", c>> \in submit'[s].payload => c \in data["example"]
          BY <4>1, <4>3, <5>1
        <5> QED
          BY <1>0, <4>2, <5>2
      <4>4. CASE b # "example"
        <5>1. \A c \in Context :
                <<"example", c>> \in submit'[s].payload => <<"example", c>> \in submit[s].payload
          BY <4>1, <4>4
        <5> QED
          BY <1>0, <4>2, <5>1
      <4> QED
        BY <4>3, <4>4
    <3> QED
      BY <1>3, <3>1, <3>2, <3>3, <3>4, SubmitCases
  <2> QED
    BY <1>0, <2>0, <2>1
<1> QED
  BY <1>1, <1>2, <1>3, Steps

\* No two examples with one key are taken in one submission, although the
\* consumer goes on recording while Submit collects: an aggregator keeps one per
\* key (example_context_aggregator.go:44), and a submission visits it once.
THEOREM ExamplesHaveDistinctKeys == Spec => []OneExamplePerKey
<1>1. Init => TypeInv /\ ExampleInv
  BY InitTypes DEF Init, ExampleInv, OneExamplePerKey, NoSubmit, Aggregator
<1>2. (TypeInv /\ ExampleInv) /\ [Next]_vars => (TypeInv /\ ExampleInv)'
  BY TypeInvStep, ExampleInvStep
<1>3. ExampleInv => OneExamplePerKey
  BY DEF ExampleInv
<1> QED
  BY <1>1, <1>2, <1>3, PTL DEF Spec

LEMMA DrainInvStep ==
    ASSUME TypeInv, DrainInv, [Next]_vars
    PROVE  DrainInv'
<1> SUFFICES ASSUME NEW s \in Submitter, Active(s)', submit'[s].drain
             PROVE  /\ \A i \in submit'[s].before : ~Contains(queue', i)
                    /\ \A i, j \in submit'[s].before : Late(s, i)' /\ Late(s, j)' => i = j
  BY DEF DrainInv
<1>0. /\ aggregators' = aggregators /\ Len(aggregators) \in Nat
      /\ submit[s] \in Submission /\ submit[s].before \subseteq Enqueued
      /\ \A j \in 1 .. Len(aggregators) : aggregators[j] \in Aggregator
      /\ submit[s].next \in 1 .. Len(aggregators) + 1
  BY OptionsStay, AggregatorsAre
     DEF TypeInv, TypeOK, SubmitInv, SubmissionInv, Submission
\* Enough: the submission was as far, and nothing became late.
<1>1. ASSUME Active(s), submit'[s].before = submit[s].before,
             submit'[s].drain = submit[s].drain,
             \A i \in submit[s].before : Contains(queue', i) => Contains(queue, i),
             \A i \in submit[s].before : Late(s, i)' => Late(s, i)
      PROVE  /\ \A i \in submit'[s].before : ~Contains(queue', i)
             /\ \A i, j \in submit'[s].before : Late(s, i)' /\ Late(s, j)' => i = j
  BY <1>1 DEF DrainInv
<1>2. ASSUME NEW k \in Item, Enqueue(k)
      PROVE  /\ UNCHANGED <<submit, handling, data>>
             /\ \A i \in submit[s].before : Contains(queue', i) => Contains(queue, i)
  <2>1. UNCHANGED <<submit, handling, data>> /\ k \notin submit[s].before
    BY <1>0, <1>2, EnqueueStep DEF TypeInv
  <2>2. \A i : Contains(queue', i) => Contains(queue, i) \/ i = k
    <3>1. CASE queue' = queue
      BY <3>1
    <3>2. CASE queue' = Append(queue, k)
      BY <3>2, Appended DEF TypeInv, TypeOK
    <3> QED
      BY <1>2, <3>1, <3>2, EnqueueStep DEF TypeInv
  <2> QED
    BY <2>1, <2>2
<1>3. CASE (\E k \in Item : Enqueue(k)) \/ UNCHANGED vars
  <2>1. /\ UNCHANGED <<submit, handling, data>>
        /\ \A i \in submit[s].before : Contains(queue', i) => Contains(queue, i)
    BY <1>2, <1>3 DEF vars
  <2> QED
    BY <1>0, <1>1, <2>1 DEF Late, Active
<1>4. CASE SetupQueueConsumer
  <2>1. /\ UNCHANGED <<submit, data>> /\ queue # <<>> /\ queue' = Tail(queue)
        /\ handling'.item = Head(queue)
    BY <1>4 DEF SetupQueueConsumer
  <2>2. \A i : Contains(queue, i) <=> i = Head(queue) \/ Contains(queue', i)
    BY <2>1, HeadOrTail DEF TypeInv, TypeOK
  <2>3. Head(queue) \notin submit[s].before
    BY <2>1, <2>2 DEF DrainInv, Active
  <2>4. \A i \in submit[s].before : Late(s, i)' => Late(s, i)
    BY <1>0, <2>1, <2>3 DEF Late
  <2> QED
    BY <1>1, <2>1, <2>2, <2>4 DEF Active
<1>5. CASE Record
  <2> DEFINE a == Head(handling.todo)
             k == handling.item
  <2>1. /\ a \in Aggregator /\ UNCHANGED <<queue, submit>> /\ handling # Idling
        /\ data' = [data EXCEPT ![a] = IF Kept(a, k) THEN @ \cup {k} ELSE @]
        /\ handling' = Idling \/ handling'.item = k
    BY <1>5, RecordStep DEF queueVars, Record
  <2> HIDE DEF a
  <2>2. \A b \in Aggregator : data'[b] \subseteq data[b] \cup {k}
    BY <2>1 DEF TypeInv, TypeOK
  <2>3. ASSUME NEW i \in submit[s].before, Late(s, i)' PROVE Late(s, i)
    <3>1. CASE i = k
      BY <2>1, <3>1 DEF Late
    <3>2. CASE i # k
      <4>1. PICK j \in 1 .. submit[s].next - 1 : i \in data'[aggregators[j]]
        BY <1>0, <2>1, <2>3, <3>2 DEF Late
      <4>2. aggregators[j] \in Aggregator
        BY <1>0
      <4> QED
        BY <2>2, <3>2, <4>1, <4>2 DEF Late
    <3> QED
      BY <3>1, <3>2
  <2> QED
    BY <1>1, <2>1, <2>3 DEF Active
<1>6. ASSUME NEW t \in Submitter, SubmitStep(t)
      PROVE  /\ \A i \in submit'[s].before : ~Contains(queue', i)
             /\ \A i, j \in submit'[s].before : Late(s, i)' /\ Late(s, j)' => i = j
  <2>0. /\ UNCHANGED <<queue, handling>>
        /\ \A r \in Submitter \ {t} : submit'[r] = submit[r]
    BY <1>6, SubmitFrame DEF TypeInv, queueVars
  <2>1. \A b \in Aggregator : data'[b] \subseteq data[b]
    BY <1>6, SubmitCases, CollectStep DEF TypeInv, TypeOK
  <2>2. CASE t # s
    <3>1. submit'[s] = submit[s]
      BY <2>0, <2>2
    <3>2. ASSUME NEW i \in submit[s].before, Late(s, i)' PROVE Late(s, i)
      <4>1. CASE handling # Idling /\ i = handling.item
        BY <4>1 DEF Late
      <4>2. ASSUME NEW j \in 1 .. submit[s].next - 1, i \in data'[aggregators[j]]
            PROVE  Late(s, i)
        <5>1. aggregators[j] \in Aggregator
          BY <1>0
        <5> QED
          BY <2>1, <4>2, <5>1 DEF Late
      <4> QED
        BY <1>0, <2>0, <3>1, <3>2, <4>1, <4>2 DEF Late
    <3> QED
      BY <1>1, <2>0, <3>1, <3>2 DEF Active
  <2>3. CASE t = s
    <3>1. CASE submit'[s].next = 1 /\ queue = <<>>
      <4>1. \A i : ~Contains(queue', i)
        BY <2>0, <3>1 DEF Contains
      <4>2. \A i : Late(s, i)' => i = handling.item
        BY <2>0, <3>1 DEF Late
      <4> QED
        BY <4>1, <4>2
    <3>2. CASE Collect(s)
      <4> DEFINE b == aggregators[submit[s].next]
      <4>1. /\ b \in Aggregator /\ Active(s) /\ data' = [data EXCEPT ![b] = {}]
            /\ submit'[s].next = submit[s].next + 1
            /\ submit[s].next \in 1 .. Len(aggregators)
            /\ submit'[s].before = submit[s].before /\ submit'[s].drain = submit[s].drain
        BY <3>2, CollectStep
      <4>2. data'[b] = {}
        BY <4>1 DEF TypeInv, TypeOK
      <4>3. ASSUME NEW i, Late(s, i)' PROVE Late(s, i)
        <5>1. CASE handling # Idling /\ i = handling.item
          BY <5>1 DEF Late
        <5>2. ASSUME NEW j \in 1 .. submit[s].next, i \in data'[aggregators[j]]
              PROVE  Late(s, i)
          <6>1. j # submit[s].next
            BY <4>2, <5>2
          <6>2. j \in 1 .. submit[s].next - 1 /\ aggregators[j] \in Aggregator
            BY <1>0, <4>1, <6>1
          <6> QED
            BY <2>1, <5>2, <6>2 DEF Late
        <5>3. submit'[s].next - 1 = submit[s].next
          BY <4>1
        <5> QED
          BY <1>0, <2>0, <4>3, <5>1, <5>2, <5>3 DEF Late
      <4> QED
        BY <1>1, <2>0, <4>1, <4>3
    <3>3. CASE /\ Active(s) /\ data' = data
               /\ submit'[s].next = submit[s].next
               /\ submit'[s].before = submit[s].before /\ submit'[s].drain = submit[s].drain
      <4>1. \A i : Late(s, i)' <=> Late(s, i)
        BY <1>0, <2>0, <3>3 DEF Late
      <4> QED
        BY <1>1, <2>0, <3>3, <4>1
    <3> QED
      BY <1>6, <2>3, <3>1, <3>2, <3>3, SubmitCases
  <2> QED
    BY <2>2, <2>3
<1> QED
  BY <1>3, <1>4, <1>5, <1>6, Steps

\* A SendTelemetry that waited for the queue misses at most the one item that
\* the consumer had taken from it and not finished recording when the poll found
\* the queue empty (submitter.go:140-144): everything else that was queued before
\* the call is in its payload or has been submitted.
THEOREM DrainMissesOneAtMost == Spec => []DrainMissesAtMostOne
<1>1. Init => TypeInv /\ DrainInv
  BY InitTypes DEF Init, DrainInv, Active, NoSubmit
<1>2. (TypeInv /\ DrainInv) /\ [Next]_vars => (TypeInv /\ DrainInv)'
  BY TypeInvStep, DrainInvStep
<1>3. TypeInv /\ DrainInv => DrainMissesAtMostOne
  <2> SUFFICES ASSUME TypeInv, DrainInv, NEW s \in Submitter,
                      submit[s].pc \in {"marshal", "attempt", "hangs"}, submit[s].drain
               PROVE  Cardinality({i \in submit[s].before :
                          \E a \in Aggregator : Waiting(a, i) \/ i \in data[a]}) <= 1
    BY DEF DrainMissesAtMostOne
  <2> DEFINE missed == {i \in submit[s].before :
                          \E a \in Aggregator : Waiting(a, i) \/ i \in data[a]}
  <2>1. Active(s) /\ submit[s].next > Len(aggregators) /\ Len(aggregators) \in Nat
    BY AggregatorsAre DEF TypeInv, TypeOK, SubmitInv, SubmissionInv, Active
  <2>2. ASSUME NEW i \in submit[s].before, NEW a \in Aggregator, Waiting(a, i)
        PROVE  Late(s, i)
    BY <2>1, <2>2 DEF DrainInv, Waiting, Late, Idling, Contains
  <2>3. ASSUME NEW i \in submit[s].before, NEW a \in Aggregator, i \in data[a]
        PROVE  Late(s, i)
    <3>1. Contains(aggregators, a)
      BY <2>3, AggregatorsAre DEF TypeInv, TypeOK, DataInv, KindInv, Aggregator
    <3>2. PICK j \in 1 .. Len(aggregators) : aggregators[j] = a
      BY <3>1 DEF Contains
    <3>3. submit[s].next \in Nat
      BY <2>1 DEF TypeInv, TypeOK, Submission
    <3>4. j \in 1 .. submit[s].next - 1
      BY <2>1, <3>3
    <3> QED
      BY <2>3, <3>2, <3>4 DEF Late
  <2>4. \A i, j \in missed : i = j
    BY <2>1, <2>2, <2>3 DEF DrainInv
  <2>5. CASE missed = {}
    BY <2>5, FS_EmptySet
  <2>6. ASSUME NEW i \in missed PROVE Cardinality(missed) <= 1
    <3>1. missed = {i}
      BY <2>4
    <3>2. Cardinality({i}) = 1
      BY FS_Singleton
    <3> HIDE DEF missed
    <3> QED
      BY <3>1, <3>2
  <2> QED
    BY <2>5, <2>6
<1> QED
  BY <1>1, <1>2, <1>3, PTL DEF Spec

=============================================================================
