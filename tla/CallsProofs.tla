----------------------------- MODULE CallsProofs -----------------------------
(***************************************************************************)
(* Theorems about Calls, for every named context and its values, every set *)
(* that is given, all configs, and however many calls there are.           *)
(***************************************************************************)
EXTENDS Calls, SequenceTheorems, FiniteSetTheorems, TLAPS

-----------------------------------------------------------------------------
\* The inductive invariant

IsSequence(q) == q \in Seq(ToSet(q))

\* The values of a named context are those it was given, or those written.
ValuesInv ==
    /\ DOMAIN values = DOMAIN Data
    /\ \A n \in DOMAIN Data : values[n] \in Range(Data) \cup Range(Written)

\* A binding means what its named contexts hold when the values are vals, but for
\* those that were touched.
Faithful(b, vals) ==
    /\ b = Binding(b.set, b.meant, b.touched)
    /\ Named(b.set)
    /\ DOMAIN b.meant = DOMAIN b.set
    /\ \A n \in DOMAIN b.set : b.set[n] \in b.touched \/ b.meant[n] = vals[b.set[n]]

BoundInv ==
    /\ Named(global)
    /\ IsSequence(bound)
    /\ \A b \in ToSet(bound) : Faithful(b, values)

QueueInv ==
    /\ IsSequence(queue)
    /\ \A item \in ToSet(queue) : item.kind = "context" =>
          item = [kind |-> "context", of |-> item.of] /\ Faithful(item.of, values)

CallInv ==
    \A c \in Caller : call[c].pc = "resolving" =>
        /\ call[c] = [pc |-> "resolving", config |-> call[c].config, of |-> call[c].of]
        /\ Faithful(call[c].of, values)

BindingInv == ValuesInv /\ BoundInv /\ QueueInv /\ DOMAIN call = Caller /\ CallInv

-----------------------------------------------------------------------------
\* Sequences

LEMMA Appending ==
    ASSUME NEW q, IsSequence(q), NEW x
    PROVE  IsSequence(Append(q, x)) /\ ToSet(Append(q, x)) = ToSet(q) \cup {x}
<1> DEFINE S == ToSet(q) \cup {x}
<1>1. q \in Seq(S) /\ x \in S
  BY DEF IsSequence, ToSet
<1> HIDE DEF S
<1>2. /\ Append(q, x) \in Seq(S) /\ Len(q) \in Nat /\ DOMAIN q = 1 .. Len(q)
      /\ DOMAIN Append(q, x) = 1 .. Len(q) + 1
      /\ \A i \in 1 .. Len(q) : Append(q, x)[i] = q[i]
      /\ Append(q, x)[Len(q) + 1] = x
  BY <1>1
<1>3. 1 .. Len(q) + 1 = (1 .. Len(q)) \cup {Len(q) + 1}
  BY <1>2
<1>4. ToSet(Append(q, x)) = S
  BY <1>2, <1>3 DEF ToSet, S
<1> QED
  BY <1>2, <1>4 DEF IsSequence, S

LEMMA Taking ==
    ASSUME NEW q, IsSequence(q), q # <<>>
    PROVE  /\ Head(q) \in ToSet(q) /\ IsSequence(Tail(q))
           /\ ToSet(Tail(q)) \subseteq ToSet(q)
<1> DEFINE S == ToSet(q)
<1>1. q \in Seq(S)
  BY DEF IsSequence
<1> HIDE DEF S
<1>2. /\ Head(q) \in S /\ Tail(q) \in Seq(S) /\ Len(Tail(q)) \in Nat
      /\ DOMAIN Tail(q) = 1 .. Len(Tail(q))
      /\ \A i \in 1 .. Len(Tail(q)) : Tail(q)[i] \in S
  BY <1>1
<1>3. ToSet(Tail(q)) \subseteq S
  BY <1>2 DEF ToSet
<1>4. Tail(q) \in [1 .. Len(Tail(q)) -> S]
  BY <1>2, LenProperties
<1>5. \A i \in 1 .. Len(Tail(q)) : Tail(q)[i] \in ToSet(Tail(q))
  BY <1>2 DEF ToSet
<1>6. IsSequence(Tail(q))
  <2> DEFINE t == Tail(q)
             n == Len(Tail(q))
             T == ToSet(Tail(q))
  <2>1. n \in Nat /\ t \in [1 .. n -> S] /\ \A i \in 1 .. n : t[i] \in T
    BY <1>2, <1>4, <1>5
  <2> HIDE DEF t, n, T
  <2>2. t \in [1 .. n -> T]
    BY <2>1
  <2>3. t \in Seq(T)
    BY <2>1, <2>2, SeqDef
  <2> QED
    BY <2>3 DEF t, T, IsSequence
<1> QED
  BY <1>2, <1>3, <1>6 DEF S

LEMMA Mapping ==
    ASSUME NEW q, IsSequence(q), NEW r, r = [i \in DOMAIN q |-> r[i]]
    PROVE  IsSequence(r)
<1>1. Len(q) \in Nat /\ DOMAIN q = 1 .. Len(q)
  BY DEF IsSequence
<1>2. \A i \in 1 .. Len(q) : r[i] \in ToSet(r)
  BY <1>1 DEF ToSet
<1> QED
  BY <1>1, <1>2 DEF IsSequence

-----------------------------------------------------------------------------
\* Bindings

\* Merge, as the two loops of the code have it.
LEMMA Merged ==
    ASSUME NEW first, NEW second
    PROVE  /\ DOMAIN Merge(first, second) = DOMAIN first \cup DOMAIN second
           /\ \A n \in DOMAIN second : Merge(first, second)[n] = second[n]
           /\ \A n \in DOMAIN first \ DOMAIN second : Merge(first, second)[n] = first[n]
BY DEF Merge

LEMMA MergedAreNamed ==
    ASSUME NEW first, NEW second, Named(first), Named(second)
    PROVE  Named(Merge(first, second))
<1> DEFINE m == Merge(first, second)
<1>1. /\ DOMAIN m = DOMAIN first \cup DOMAIN second
      /\ \A n \in DOMAIN second : m[n] = second[n]
      /\ \A n \in DOMAIN first \ DOMAIN second : m[n] = first[n]
  BY Merged
<1> HIDE DEF m
<1>2. \A n \in DOMAIN m : m[n] \in DOMAIN Data /\ Name[m[n]] = n
  BY <1>1 DEF Named
<1> QED
  BY <1>2 DEF Named, m

\* Where nothing was written, a binding goes on meaning what it holds.
LEMMA BoundIsFaithful ==
    ASSUME BindingInv, NEW h \in 0 .. Len(bound)
    PROVE  Faithful(Bound(h), values)
<1>1. CASE h = 0
  <2>1. Bound(h) = Binding(global, Snapshot(global), {})
    BY <1>1 DEF Bound
  <2> QED
    BY <2>1 DEF Faithful, Binding, Snapshot, BindingInv, BoundInv
<1>2. CASE h # 0
  <2>1. Bound(h) = bound[h] /\ h \in DOMAIN bound
    BY <1>2 DEF Bound, BindingInv, BoundInv, IsSequence
  <2> QED
    BY <2>1 DEF BindingInv, BoundInv, ToSet
<1> QED
  BY <1>1, <1>2

\* What is merged with a set means that set, and for other names what it meant.
\* A named context has one name, so that none of those that are written to and
\* replaced stays under another.
LEMMA MergedIsFaithful ==
    ASSUME BindingInv, NEW h \in 0 .. Len(bound), NEW set, Named(set)
    PROVE  Faithful(MergedWith(h, set), values)
<1> DEFINE b == Bound(h)
           m == MergedWith(h, set)
<1>1. Faithful(b, values)
  BY BoundIsFaithful
<1>2. m = Binding(Merge(b.set, set), Merge(b.meant, Snapshot(set)), b.touched \ Range(set))
  BY DEF MergedWith
<1> HIDE DEF b, m
<1>3. /\ m.set = Merge(b.set, set) /\ m.meant = Merge(b.meant, Snapshot(set))
      /\ m.touched = b.touched \ Range(set)
      /\ m = Binding(m.set, m.meant, m.touched)
  BY <1>2 DEF Binding
<1>4. Named(m.set)
  BY <1>1, <1>3, MergedAreNamed DEF Faithful
<1>a. /\ DOMAIN m.set = DOMAIN b.set \cup DOMAIN set
      /\ \A n \in DOMAIN set : m.set[n] = set[n]
      /\ \A n \in DOMAIN b.set \ DOMAIN set : m.set[n] = b.set[n]
  BY <1>3 DEF Merge
<1>b. /\ DOMAIN m.meant = DOMAIN b.meant \cup DOMAIN Snapshot(set)
      /\ \A n \in DOMAIN Snapshot(set) : m.meant[n] = Snapshot(set)[n]
      /\ \A n \in DOMAIN b.meant \ DOMAIN Snapshot(set) : m.meant[n] = b.meant[n]
  BY <1>3 DEF Merge
<1>5. DOMAIN Snapshot(set) = DOMAIN set /\ \A n \in DOMAIN set : Snapshot(set)[n] = values[set[n]]
  BY DEF Snapshot
<1>6. DOMAIN m.meant = DOMAIN m.set
  BY <1>1, <1>a, <1>b, <1>5 DEF Faithful
<1>7. ASSUME NEW n \in DOMAIN m.set
      PROVE  m.set[n] \in m.touched \/ m.meant[n] = values[m.set[n]]
  <2>1. CASE n \in DOMAIN set
    BY <1>a, <1>b, <1>5, <2>1
  <2>2. CASE n \notin DOMAIN set
    <3>1. /\ n \in DOMAIN b.set /\ m.set[n] = b.set[n]
      BY <1>a, <1>7, <2>2
    <3>2. m.meant[n] = b.meant[n]
      BY <1>1, <1>b, <1>5, <2>2, <3>1 DEF Faithful
    <3>3. b.set[n] \notin Range(set)
      BY <1>1, <2>2, <3>1 DEF Faithful, Named, Range
    <3> QED
      BY <1>1, <1>3, <3>1, <3>2, <3>3 DEF Faithful
  <2> QED
    BY <2>1, <2>2
<1> QED
  BY <1>3, <1>4, <1>6, <1>7 DEF Faithful, m

\* A binding that was told of a change goes on to be faithful.
LEMMA TouchedIsFaithful ==
    ASSUME NEW n, NEW b, Faithful(b, values), ValuesInv, n \in DOMAIN Data,
           values' = [values EXCEPT ![n] = Written[n]]
    PROVE  Faithful(Touch(b, n), values')
<1>1. /\ b = Binding(b.set, b.meant, b.touched) /\ Named(b.set)
      /\ DOMAIN b.meant = DOMAIN b.set
      /\ \A m \in DOMAIN b.set : b.set[m] \in b.touched \/ b.meant[m] = values[b.set[m]]
  BY DEF Faithful
<1>2. \A m \in DOMAIN Data \ {n} : values'[m] = values[m]
  BY DEF ValuesInv
<1>3. \A m \in DOMAIN b.set : b.set[m] \in DOMAIN Data
  BY <1>1 DEF Named
<1>4. CASE n \in Range(b.set)
  <2> DEFINE t == Binding(b.set, b.meant, b.touched \cup {n})
  <2>1. Touch(b, n) = t
    BY <1>1, <1>4 DEF Touch, Binding
  <2>2. t.set = b.set /\ t.meant = b.meant /\ t.touched = b.touched \cup {n}
    BY DEF Binding
  <2> HIDE DEF t
  <2>3. t = Binding(t.set, t.meant, t.touched)
    BY <2>2 DEF t
  <2>4. \A m \in DOMAIN t.set : t.set[m] \in t.touched \/ t.meant[m] = values'[t.set[m]]
    BY <1>1, <1>2, <1>3, <2>2
  <2>5. Named(t.set) /\ DOMAIN t.meant = DOMAIN t.set
    BY <1>1, <2>2
  <2>6. Touch(b, n)' = t
    BY <2>1 DEF Touch, t
  <2> QED
    BY <2>1, <2>3, <2>4, <2>5, <2>6 DEF Faithful, Named
<1>5. CASE n \notin Range(b.set)
  <2>1. Touch(b, n) = b
    BY <1>5 DEF Touch
  <2>2. \A m \in DOMAIN b.set : b.set[m] # n
    BY <1>5 DEF Range
  <2>3. \A m \in DOMAIN b.set : b.set[m] \in b.touched \/ b.meant[m] = values'[b.set[m]]
    BY <1>1, <1>2, <1>3, <2>2
  <2> QED
    BY <1>1, <2>1, <2>3 DEF Faithful, Named
<1> QED
  BY <1>4, <1>5

LEMMA GivenAreNamed ==
    /\ Named(Global)
    /\ \A set \in GivenToBind \cup GivenToCall : Named(set)
    /\ \A n \in NamedContext : Named([name \in {Name[n]} |-> n])
BY CallsAssumption DEF Named

-----------------------------------------------------------------------------
\* The steps

CallerStep ==
    \/ \E n \in NamedContext : SetNamedContext(n)
    \/ \E n \in DOMAIN Written : ChangeValues(n)
    \/ \E h \in 0..Len(bound), set \in GivenToBind : WithContext(h, set)
    \/ \E h \in 0..Len(bound), c \in Caller, set \in GivenToCall, config \in Config \cup {NoValue} :
          GetValue(c, h, set, config) \/ GetConfigMatch(c, h, set, config)
    \/ \E c \in Caller : ResolveValue(c)

Aggregate == internalRecordContext \/ internalRecordEvaluation \/ Submit

LEMMA Steps == ASSUME [Next]_vars PROVE CallerStep \/ Aggregate \/ UNCHANGED vars
BY DEF Next, CallerStep, Aggregate

\* What a caller does to the map it gave reaches the bindings, and tells them.
LEMMA ChangeStep ==
    ASSUME BindingInv, NEW n \in DOMAIN Written, ChangeValues(n)
    PROVE  BindingInv'
<1>1. /\ n \in DOMAIN Data /\ ValuesInv /\ DOMAIN call = Caller
      /\ values' = [values EXCEPT ![n] = Written[n]] /\ global' = global
      /\ bound' = [i \in DOMAIN bound |-> Touch(bound[i], n)]
      /\ queue' = [i \in DOMAIN queue |->
                     IF queue[i].kind = "context" THEN [queue[i] EXCEPT !.of = Touch(@, n)]
                     ELSE queue[i]]
      /\ call' = [c \in Caller |-> IF call[c].pc # "resolving" THEN call[c]
                                   ELSE [call[c] EXCEPT !.of = Touch(@, n)]]
  BY CallsAssumption DEF ChangeValues, BindingInv
<1>2. ValuesInv'
  BY <1>1 DEF ValuesInv, Range
<1>3. ASSUME NEW b, Faithful(b, values) PROVE Faithful(Touch(b, n), values')
  BY <1>1, <1>3, TouchedIsFaithful
<1>4. BoundInv'
  <2>1. IsSequence(bound')
    <3>1. bound' = [i \in DOMAIN bound |-> bound'[i]]
      BY <1>1
    <3> QED
      BY <3>1, Mapping DEF BindingInv, BoundInv
  <2>2. ASSUME NEW b \in ToSet(bound') PROVE Faithful(b, values')
    <3>1. PICK i \in DOMAIN bound : b = Touch(bound[i], n)
      BY <1>1 DEF ToSet
    <3>2. Faithful(bound[i], values)
      BY DEF BindingInv, BoundInv, ToSet
    <3> QED
      BY <1>3, <3>1, <3>2 DEF Touch
  <2> QED
    BY <1>1, <2>1, <2>2 DEF BoundInv, BindingInv, Named
<1>5. QueueInv'
  <2>1. IsSequence(queue')
    <3>1. queue' = [i \in DOMAIN queue |-> queue'[i]]
      BY <1>1
    <3> QED
      BY <3>1, Mapping DEF BindingInv, QueueInv
  <2>2. ASSUME NEW i \in DOMAIN queue, queue'[i].kind = "context"
        PROVE  /\ queue'[i] = [kind |-> "context", of |-> queue'[i].of]
               /\ Faithful(queue'[i].of, values')
    <3>1. CASE queue[i].kind = "context"
      <4>1. /\ queue[i] = [kind |-> "context", of |-> queue[i].of]
            /\ Faithful(queue[i].of, values)
        BY <3>1 DEF BindingInv, QueueInv, ToSet
      <4>2. queue'[i] = [queue[i] EXCEPT !.of = Touch(queue[i].of, n)]
        BY <1>1, <3>1
      <4>3. queue'[i] = [kind |-> "context", of |-> Touch(queue[i].of, n)]
        BY <4>1, <4>2
      <4> QED
        BY <1>3, <4>1, <4>3 DEF Touch
    <3>2. CASE queue[i].kind # "context"
      BY <1>1, <2>2, <3>2
    <3> QED
      BY <3>1, <3>2
  <2>3. DOMAIN queue' = DOMAIN queue
    BY <1>1
  <2> QED
    BY <2>1, <2>2, <2>3 DEF QueueInv, ToSet
<1>6. CallInv'
  <2> SUFFICES ASSUME NEW c \in Caller, call'[c].pc = "resolving"
               PROVE  /\ call'[c] = [pc |-> "resolving", config |-> call'[c].config,
                                     of |-> call'[c].of]
                      /\ Faithful(call'[c].of, values')
    BY DEF CallInv
  <2>1. call[c].pc = "resolving"
    BY <1>1
  <2>2. /\ call[c] = [pc |-> "resolving", config |-> call[c].config, of |-> call[c].of]
        /\ Faithful(call[c].of, values)
    BY <2>1 DEF BindingInv, CallInv
  <2>3. call'[c] = [call[c] EXCEPT !.of = Touch(call[c].of, n)]
    BY <1>1, <2>1
  <2>4. call'[c] = [pc |-> "resolving", config |-> call[c].config, of |-> Touch(call[c].of, n)]
    BY <2>2, <2>3
  <2> QED
    BY <1>3, <2>2, <2>4 DEF Touch
<1> QED
  BY <1>1, <1>2, <1>4, <1>5, <1>6 DEF BindingInv

LEMMA BindingInvStep ==
    ASSUME BindingInv, [Next]_vars
    PROVE  BindingInv'
<1>1. ASSUME UNCHANGED values PROVE ValuesInv'
  BY <1>1 DEF BindingInv, ValuesInv
<1>2. ASSUME UNCHANGED <<values, global, bound>> PROVE BoundInv'
  BY <1>2 DEF BindingInv, BoundInv
<1>3. ASSUME UNCHANGED <<values, queue>> PROVE QueueInv'
  BY <1>3 DEF BindingInv, QueueInv
<1>4. ASSUME UNCHANGED <<values, call>> PROVE DOMAIN call' = Caller /\ CallInv'
  BY <1>4 DEF BindingInv, CallInv
<1>5. ASSUME NEW n \in NamedContext, SetNamedContext(n) PROVE BindingInv'
  <2>1. BoundInv'
    <3>1. Named(global')
      BY <1>5, GivenAreNamed, MergedAreNamed DEF SetNamedContext, Put, BindingInv, BoundInv
    <3>2. UNCHANGED <<values, bound>>
      BY <1>5 DEF SetNamedContext
    <3> QED
      BY <3>1, <3>2 DEF BindingInv, BoundInv, Named
  <2> QED
    BY <1>1, <1>3, <1>4, <1>5, <2>1 DEF SetNamedContext, BindingInv
<1>6. ASSUME NEW h \in 0 .. Len(bound), NEW set \in GivenToBind, WithContext(h, set)
      PROVE  BindingInv'
  <2>1. Faithful(MergedWith(h, set), values)
    BY GivenAreNamed, MergedIsFaithful
  <2>2. bound' = Append(bound, MergedWith(h, set)) /\ UNCHANGED <<values, global, queue, call>>
    BY <1>6 DEF WithContext
  <2>3. /\ IsSequence(bound')
        /\ ToSet(bound') = ToSet(bound) \cup {MergedWith(h, set)}
    BY <2>2, Appending DEF BindingInv, BoundInv
  <2>4. \A b \in ToSet(bound') : Faithful(b, values)
    BY <2>1, <2>3 DEF BindingInv, BoundInv
  <2>5. BoundInv'
    BY <2>2, <2>3, <2>4 DEF BindingInv, BoundInv, Named
  <2> QED
    BY <1>1, <1>3, <1>4, <2>2, <2>5 DEF BindingInv
<1>7. ASSUME NEW h \in 0 .. Len(bound), NEW c \in Caller, NEW set \in GivenToCall,
             NEW config \in Config \cup {NoValue},
             GetValue(c, h, set, config) \/ GetConfigMatch(c, h, set, config)
      PROVE  BindingInv'
  <2> DEFINE b == MergedWith(h, set)
  <2>1. Faithful(b, values)
    BY GivenAreNamed, MergedIsFaithful
  <2>2. /\ call' = [call EXCEPT ![c] = [pc |-> "resolving", config |-> config, of |-> b]]
        /\ UNCHANGED <<values, global, bound>>
        /\ queue' = queue \/ queue' = Append(queue, [kind |-> "context", of |-> b])
    BY <1>7 DEF GetValue, GetConfigMatch, internalGetValue
  <2> HIDE DEF b
  <2>3. Faithful(b, values')
    BY <2>1, <2>2 DEF b
  <2>4. DOMAIN call' = Caller /\ CallInv'
    BY <2>1, <2>2 DEF BindingInv, CallInv
  <2>5. QueueInv'
    <3>1. CASE queue' = queue
      BY <1>3, <2>2, <3>1
    <3>2. CASE queue' = Append(queue, [kind |-> "context", of |-> b])
      <4>1. /\ IsSequence(queue')
            /\ ToSet(queue') = ToSet(queue) \cup {[kind |-> "context", of |-> b]}
        BY <3>2, Appending DEF BindingInv, QueueInv
      <4>2. \A item \in ToSet(queue') : item.kind = "context" =>
                item = [kind |-> "context", of |-> item.of] /\ Faithful(item.of, values)
        BY <2>1, <4>1 DEF BindingInv, QueueInv
      <4> QED
        BY <2>2, <4>1, <4>2 DEF QueueInv
    <3> QED
      BY <2>2, <3>1, <3>2
  <2> QED
    BY <1>1, <1>2, <2>2, <2>4, <2>5 DEF BindingInv
<1>8. ASSUME NEW c \in Caller, ResolveValue(c) PROVE BindingInv'
  <2>1. PICK x : call' = [call EXCEPT ![c] = [pc |-> "answered", answer |-> x]]
    BY <1>8 DEF ResolveValue, Answer
  <2>2. /\ UNCHANGED <<values, global, bound>>
        /\ queue' = queue \/ \E m : queue' = Append(queue, [kind |-> "match", m |-> m])
    BY <1>8 DEF ResolveValue
  <2>3. DOMAIN call' = Caller /\ CallInv'
    BY <2>1, <2>2 DEF BindingInv, CallInv
  <2>4. QueueInv'
    <3>1. CASE queue' = queue
      BY <1>3, <2>2, <3>1
    <3>2. ASSUME NEW m, queue' = Append(queue, [kind |-> "match", m |-> m]) PROVE QueueInv'
      <4>1. /\ IsSequence(queue')
            /\ ToSet(queue') = ToSet(queue) \cup {[kind |-> "match", m |-> m]}
        BY <3>2, Appending DEF BindingInv, QueueInv
      <4>2. \A item \in ToSet(queue') : item.kind = "context" =>
                item = [kind |-> "context", of |-> item.of] /\ Faithful(item.of, values)
        BY <4>1 DEF BindingInv, QueueInv
      <4> QED
        BY <2>2, <4>1, <4>2 DEF QueueInv
    <3> QED
      BY <2>2, <3>1, <3>2
  <2> QED
    BY <1>1, <1>2, <2>2, <2>3, <2>4 DEF BindingInv
<1>9. CASE Aggregate
  <2>1. UNCHANGED <<values, global, bound, call>>
    BY <1>9 DEF Aggregate, internalRecordContext, internalRecordEvaluation, Submit, callerVars
  <2>2. queue' = queue \/ (queue # <<>> /\ queue' = Tail(queue))
    BY <1>9 DEF Aggregate, internalRecordContext, internalRecordEvaluation, Submit
  <2>3. QueueInv'
    <3>1. CASE queue' = queue
      BY <1>3, <2>1, <3>1
    <3>2. CASE queue # <<>> /\ queue' = Tail(queue)
      <4>1. IsSequence(queue') /\ ToSet(queue') \subseteq ToSet(queue)
        BY <3>2, Taking DEF BindingInv, QueueInv
      <4> QED
        BY <2>1, <4>1 DEF BindingInv, QueueInv
    <3> QED
      BY <2>2, <3>1, <3>2
  <2> QED
    BY <1>1, <1>2, <1>4, <2>1, <2>3 DEF BindingInv
<1>10. CASE UNCHANGED vars
  BY <1>1, <1>2, <1>3, <1>4, <1>10 DEF vars, callerVars, BindingInv
<1> QED
  BY <1>5, <1>6, <1>7, <1>8, <1>9, <1>10, ChangeStep, Steps DEF CallerStep

LEMMA BindingInvAlways == Spec => []BindingInv
<1>1. Init => BindingInv
  <2> SUFFICES ASSUME Init PROVE BindingInv
    OBVIOUS
  <2>1. ValuesInv
    BY DEF Init, ValuesInv, Range
  <2>2. IsSequence(<<>>) /\ ToSet(<<>>) = {}
    BY DEF IsSequence, ToSet
  <2>3. BoundInv /\ QueueInv
    BY <2>2, GivenAreNamed DEF Init, BoundInv, QueueInv
  <2>4. DOMAIN call = Caller /\ CallInv
    BY DEF Init, Idle, CallInv
  <2> QED
    BY <2>1, <2>3, <2>4 DEF BindingInv
<1>2. BindingInv /\ [Next]_vars => BindingInv'
  BY BindingInvStep
<1> QED
  BY <1>1, <1>2, PTL DEF Spec

-----------------------------------------------------------------------------
\* Answers

\* The values that a faithful binding finds are those it means.
LEMMA LookupIsMeant ==
    ASSUME NEW b, Faithful(b, values), NEW property,
           LET at == splitAtFirstDot(property).context
           IN  ~(at \in DOMAIN b.set /\ b.set[at] \in b.touched)
    PROVE  GetContextValue(Snapshot(b.set), property) = GetContextValue(b.meant, property)
<1> DEFINE at == splitAtFirstDot(property)
<1>1. DOMAIN Snapshot(b.set) = DOMAIN b.set /\ DOMAIN b.meant = DOMAIN b.set
  BY DEF Snapshot, Faithful
<1>2. at.context \in DOMAIN b.set => Snapshot(b.set)[at.context] = b.meant[at.context]
  BY DEF Snapshot, Faithful
<1> HIDE DEF at
<1> QED
  BY <1>1, <1>2 DEF GetContextValue, at

\* A call is answered for the contexts that its client was bound to when it was
\* bound (client.go:467), with those of the call in the place of the ones they
\* name, whatever clients are bound and calls are made meanwhile; only what a
\* caller itself wrote to in between may be otherwise.
THEOREM AnswersAreMeant == Spec => AnswersAreForTheirContexts
<1>1. BindingInv /\ [Next]_vars =>
        \A c \in Caller :
            call[c].pc = "resolving" /\ call'[c].pc = "answered" /\ call[c].config # NoValue =>
                LET of       == call[c].of
                    property == call[c].config.property
                    at       == splitAtFirstDot(property).context
                IN  \/ at \in DOMAIN of.set /\ of.set[at] \in of.touched
                    \/ call'[c].answer = resolutionResultSuccess(
                         Match(call[c].config, GetContextValue(of.meant, property)))
  <2> SUFFICES ASSUME BindingInv, [Next]_vars, NEW c \in Caller,
                      call[c].pc = "resolving", call'[c].pc = "answered",
                      call[c].config # NoValue
               PROVE  LET of       == call[c].of
                          property == call[c].config.property
                          at       == splitAtFirstDot(property).context
                      IN  \/ at \in DOMAIN of.set /\ of.set[at] \in of.touched
                          \/ call'[c].answer = resolutionResultSuccess(
                               Match(call[c].config, GetContextValue(of.meant, property)))
    OBVIOUS
  <2>0. DOMAIN call = Caller /\ Faithful(call[c].of, values)
    BY DEF BindingInv, CallInv
  <2>1. ResolveValue(c)
    <3>1. ASSUME NEW n \in DOMAIN Written, ChangeValues(n) PROVE FALSE
      <4>1. call'[c] = [call[c] EXCEPT !.of = Touch(@, n)]
        BY <3>1 DEF ChangeValues
      <4>2. call[c] = [pc |-> "resolving", config |-> call[c].config, of |-> call[c].of]
        BY DEF BindingInv, CallInv
      <4>3. call'[c].pc = "resolving"
        BY <4>1, <4>2
      <4> QED
        BY <4>3
    <3>2. ASSUME NEW h \in 0 .. Len(bound), NEW d \in Caller, NEW set \in GivenToCall,
                 NEW config \in Config \cup {NoValue},
                 GetValue(d, h, set, config) \/ GetConfigMatch(d, h, set, config)
          PROVE  FALSE
      BY <2>0, <3>2 DEF GetValue, GetConfigMatch, internalGetValue
    <3>3. ASSUME NEW d \in Caller, ResolveValue(d), d # c PROVE FALSE
      BY <2>0, <3>3 DEF ResolveValue, Answer
    <3>4. ASSUME call' = call PROVE FALSE
      BY <3>4
    <3> QED
      BY <3>1, <3>2, <3>3, <3>4, Steps
         DEF CallerStep, SetNamedContext, WithContext, Aggregate, internalRecordContext,
             internalRecordEvaluation, Submit, callerVars, vars
  <2>2. call'[c].answer = resolutionResultSuccess(
            Match(call[c].config,
                  GetContextValue(Snapshot(call[c].of.set), call[c].config.property)))
    BY <2>0, <2>1 DEF ResolveValue, Answer
  <2> QED
    BY <2>0, <2>2, LookupIsMeant
<1> QED
  BY <1>1, BindingInvAlways, PTL DEF Spec, AnswersAreForTheirContexts

-----------------------------------------------------------------------------
\* Shapes

\* What contexts had, shapes have, and each type of a field is that of one of
\* the values it had.
ShapeInv ==
    /\ DOMAIN seen = {"example", "shape", "summary"}
    /\ \A data \in seen.shape : \A n \in DOMAIN data : \A k \in DOMAIN data[n] :
          n \in DOMAIN shapes /\ k \in DOMAIN shapes[n]
    /\ \A n \in DOMAIN shapes : \A k \in DOMAIN shapes[n] : \E data \in seen.shape :
          /\ n \in DOMAIN data /\ k \in DOMAIN data[n]
          /\ shapes[n][k] = FieldTypeForValue(data[n][k])

\* A context adds its fields, those that are known keeping their types.
LEMMA ShapesAfter ==
    ASSUME NEW data
    PROVE  /\ \A n \in DOMAIN data : \A k \in DOMAIN data[n] :
                 n \in DOMAIN ShapesWith(data) /\ k \in DOMAIN ShapesWith(data)[n]
           /\ \A n \in DOMAIN shapes : \A k \in DOMAIN shapes[n] :
                 /\ n \in DOMAIN ShapesWith(data) /\ k \in DOMAIN ShapesWith(data)[n]
                 /\ ShapesWith(data)[n][k] = shapes[n][k]
           /\ \A n \in DOMAIN ShapesWith(data) : \A k \in DOMAIN ShapesWith(data)[n] :
                 \/ n \in DOMAIN shapes /\ k \in DOMAIN shapes[n]
                 \/ /\ n \in DOMAIN data /\ k \in DOMAIN data[n]
                    /\ ShapesWith(data)[n][k] = FieldTypeForValue(data[n][k])
<1>1. DOMAIN <<>> = {}
  OBVIOUS
<1>2. DOMAIN ShapesWith(data) = DOMAIN shapes \cup {n \in DOMAIN data : data[n] # <<>>}
  BY DEF ShapesWith
<1>3. ASSUME NEW n \in DOMAIN ShapesWith(data)
      PROVE  /\ DOMAIN ShapesWith(data)[n] =
                   (IF n \in DOMAIN data THEN DOMAIN data[n] ELSE {})
                   \cup (IF n \in DOMAIN shapes THEN DOMAIN shapes[n] ELSE {})
             /\ n \in DOMAIN shapes => \A k \in DOMAIN shapes[n] :
                   ShapesWith(data)[n][k] = shapes[n][k]
             /\ n \in DOMAIN data => \A k \in DOMAIN data[n] :
                   \/ n \in DOMAIN shapes /\ k \in DOMAIN shapes[n]
                   \/ ShapesWith(data)[n][k] = FieldTypeForValue(data[n][k])
  <2> DEFINE typed == IF n \in DOMAIN data THEN [k \in DOMAIN data[n] |-> FieldTypeForValue(data[n][k])]
                      ELSE <<>>
             known == IF n \in DOMAIN shapes THEN shapes[n] ELSE <<>>
  <2>1. ShapesWith(data)[n] = Merge(typed, known)
    BY <1>2, <1>3 DEF ShapesWith
  <2>2. DOMAIN typed = IF n \in DOMAIN data THEN DOMAIN data[n] ELSE {}
    BY <1>1
  <2>3. n \in DOMAIN data => \A k \in DOMAIN data[n] : typed[k] = FieldTypeForValue(data[n][k])
    OBVIOUS
  <2>4. DOMAIN known = IF n \in DOMAIN shapes THEN DOMAIN shapes[n] ELSE {}
    BY <1>1
  <2>5. n \in DOMAIN shapes => known = shapes[n]
    OBVIOUS
  <2> HIDE DEF typed, known
  <2>6. /\ DOMAIN Merge(typed, known) = DOMAIN typed \cup DOMAIN known
        /\ \A k \in DOMAIN known : Merge(typed, known)[k] = known[k]
        /\ \A k \in DOMAIN typed \ DOMAIN known : Merge(typed, known)[k] = typed[k]
    BY Merged
  <2> QED
    BY <2>1, <2>2, <2>3, <2>4, <2>5, <2>6
<1>4. \A n \in DOMAIN data : \A k \in DOMAIN data[n] :
         n \in DOMAIN ShapesWith(data) /\ k \in DOMAIN ShapesWith(data)[n]
  BY <1>1, <1>2, <1>3
<1>5. \A n \in DOMAIN shapes : \A k \in DOMAIN shapes[n] :
         /\ n \in DOMAIN ShapesWith(data) /\ k \in DOMAIN ShapesWith(data)[n]
         /\ ShapesWith(data)[n][k] = shapes[n][k]
  BY <1>2, <1>3
<1>6. \A n \in DOMAIN ShapesWith(data) : \A k \in DOMAIN ShapesWith(data)[n] :
         \/ n \in DOMAIN shapes /\ k \in DOMAIN shapes[n]
         \/ /\ n \in DOMAIN data /\ k \in DOMAIN data[n]
            /\ ShapesWith(data)[n][k] = FieldTypeForValue(data[n][k])
  BY <1>3
<1> QED
  BY <1>4, <1>5, <1>6

LEMMA ShapeInvStep ==
    ASSUME ShapeInv, [Next]_vars
    PROVE  ShapeInv'
<1>1. CASE UNCHANGED <<shapes, seen>>
  BY <1>1 DEF ShapeInv
<1>2. ASSUME NEW data, shapes' = ShapesWith(data),
             \/ seen' = [seen EXCEPT !.shape = @ \cup {data}]
             \/ seen' = [seen EXCEPT !.example = @ \cup {data}, !.shape = @ \cup {data}]
      PROVE  ShapeInv'
  <2>1. /\ DOMAIN seen' = {"example", "shape", "summary"}
        /\ seen'.shape = seen.shape \cup {data}
    BY <1>2 DEF ShapeInv
  <2>2. \A d \in seen'.shape : \A n \in DOMAIN d : \A k \in DOMAIN d[n] :
           n \in DOMAIN shapes' /\ k \in DOMAIN shapes'[n]
    BY <1>2, <2>1, ShapesAfter DEF ShapeInv
  <2>3. \A n \in DOMAIN shapes' : \A k \in DOMAIN shapes'[n] : \E d \in seen'.shape :
           /\ n \in DOMAIN d /\ k \in DOMAIN d[n]
           /\ shapes'[n][k] = FieldTypeForValue(d[n][k])
    <3> SUFFICES ASSUME NEW n \in DOMAIN shapes', NEW k \in DOMAIN shapes'[n]
                 PROVE  \E d \in seen'.shape : /\ n \in DOMAIN d /\ k \in DOMAIN d[n]
                                               /\ shapes'[n][k] = FieldTypeForValue(d[n][k])
      OBVIOUS
    <3>1. CASE n \in DOMAIN shapes /\ k \in DOMAIN shapes[n]
      BY <1>2, <2>1, <3>1, ShapesAfter DEF ShapeInv
    <3>2. CASE ~(n \in DOMAIN shapes /\ k \in DOMAIN shapes[n])
      BY <1>2, <2>1, <3>2, ShapesAfter
    <3> QED
      BY <3>1, <3>2
  <2> QED
    BY <2>1, <2>2, <2>3 DEF ShapeInv, FieldTypeForValue
<1>3. CASE internalRecordContext
  <2>1. CASE UNCHANGED aggregated
    BY <1>1, <2>1 DEF aggregated
  <2>2. CASE ~UNCHANGED aggregated
    BY <1>2, <1>3, <2>2 DEF internalRecordContext
  <2> QED
    BY <2>1, <2>2
<1>4. CASE internalRecordEvaluation
  <2>1. PICK s : seen' = [seen EXCEPT !.summary = s]
    BY <1>4 DEF internalRecordEvaluation
  <2>2. DOMAIN seen' = DOMAIN seen /\ seen'.shape = seen.shape /\ shapes' = shapes
    BY <1>4, <2>1 DEF internalRecordEvaluation, ShapeInv
  <2> QED
    BY <2>2 DEF ShapeInv
<1>5. CASE Submit
  BY <1>5 DEF Submit, ShapeInv
<1>6. CASE CallerStep
  BY <1>1, <1>6 DEF CallerStep, SetNamedContext, ChangeValues, WithContext, GetValue,
                    GetConfigMatch, ResolveValue, aggregated
<1> QED
  BY <1>1, <1>3, <1>4, <1>5, <1>6, Steps DEF Aggregate, vars, aggregated

\* A request reports just the fields of the contexts of the calls since the last
\* one, and a type that each had, whatever the order in which contexts with other
\* types of the same fields came.
THEOREM ShapesAreThoseSeen == Spec => []ShapesAreWhatWasSeen
<1>1. Init => ShapeInv
  BY DEF Init, ShapeInv
<1>2. ShapeInv /\ [Next]_vars => ShapeInv'
  BY ShapeInvStep
<1>3. ShapeInv => ShapesAreWhatWasSeen
  <2> SUFFICES ASSUME ShapeInv PROVE ShapesAreWhatWasSeen
    OBVIOUS
  <2> DEFINE fields == UNION {UNION {{<<n, k>> : k \in DOMAIN data[n]} : n \in DOMAIN data} :
                              data \in seen.shape}
             reported == UNION {{<<s.name, k>> : k \in DOMAIN s.fieldTypes} : s \in ReportedShapes}
  <2>1. \A f : f \in fields <=> \E data \in seen.shape : \E n \in DOMAIN data :
                                   \E k \in DOMAIN data[n] : f = <<n, k>>
    OBVIOUS
  <2>2. \A f : f \in reported <=> \E n \in DOMAIN shapes : \E k \in DOMAIN shapes[n] : f = <<n, k>>
    <3>1. \A s : s \in ReportedShapes <=> \E n \in DOMAIN shapes : s = [name |-> n, fieldTypes |-> shapes[n]]
      BY DEF ReportedShapes
    <3>2. \A f : f \in reported <=> \E s \in ReportedShapes : \E k \in DOMAIN s.fieldTypes : f = <<s.name, k>>
      OBVIOUS
    <3> HIDE DEF reported
    <3>3. ASSUME NEW f, f \in reported
          PROVE  \E n \in DOMAIN shapes : \E k \in DOMAIN shapes[n] : f = <<n, k>>
      BY <3>1, <3>2, <3>3
    <3>4. ASSUME NEW n \in DOMAIN shapes, NEW k \in DOMAIN shapes[n] PROVE <<n, k>> \in reported
      <4> DEFINE s == [name |-> n, fieldTypes |-> shapes[n]]
      <4>1. s \in ReportedShapes /\ s.name = n /\ s.fieldTypes = shapes[n]
        BY <3>1
      <4> QED
        BY <3>2, <4>1
    <3> QED
      BY <3>3, <3>4
  <2> HIDE DEF fields, reported
  <2>3. fields = reported
    BY <2>1, <2>2 DEF ShapeInv
  <2>4. \A f \in fields : \E data \in seen.shape :
           /\ f[1] \in DOMAIN data /\ f[2] \in DOMAIN data[f[1]]
           /\ shapes[f[1]][f[2]] = FieldTypeForValue(data[f[1]][f[2]])
    BY <2>2, <2>3 DEF ShapeInv
  <2> QED
    BY <2>3, <2>4 DEF ShapesAreWhatWasSeen, fields, reported
<1> QED
  BY <1>1, <1>2, <1>3, PTL DEF Spec

-----------------------------------------------------------------------------
\* Panics

\* Whatever was bound and written, the values of a context are well-formed.
LEMMA ValuesAreGiven ==
    ASSUME ValuesInv, NEW set, Named(set), NEW n \in DOMAIN set, NEW k \in DOMAIN Snapshot(set)[n]
    PROVE  Snapshot(set)[n][k] \in GivenValues
<1>1. Snapshot(set)[n] = values[set[n]] /\ set[n] \in DOMAIN Data
  BY DEF Snapshot, Named
<1>2. values[set[n]] \in Range(Data) \cup Range(Written)
  BY <1>1 DEF ValuesInv
<1>3. Snapshot(set)[n][k] \in Range(values[set[n]])
  BY <1>1 DEF Range
<1> QED
  BY <1>2, <1>3 DEF GivenValues

LEMMA PanickingIsOdd ==
    ASSUME BindingInv, NEW set, Named(set), ConsumerPanics(Snapshot(set))
    PROVE  /\ mode = "PeriodicExample"
           /\ \E n \in DOMAIN Snapshot(set) : \E k \in DOMAIN Snapshot(set)[n] :
                 LET x == Snapshot(set)[n][k]
                 IN  \/ k = <<"key">> /\ x.kind # "string"
                     \/ x.kind = "slice" /\ ToSet(x.v) = {[kind |-> "nil", v |-> NoValue]}
<1> DEFINE data == Snapshot(set)
<1>1. DOMAIN data = DOMAIN set
  BY DEF Snapshot
<1>2. ASSUME NEW n \in DOMAIN set, NEW k \in DOMAIN data[n] PROVE data[n][k] \in GivenValues
  BY <1>2, ValuesAreGiven DEF BindingInv
<1> HIDE DEF data
<1>3. mode = "PeriodicExample"
  BY DEF ConsumerPanics
<1>4. CASE GroupedKeyPanics(data)
  <2>1. PICK n \in DOMAIN data : Key(data[n]).kind \notin {"nil", "string"}
    BY <1>4 DEF GroupedKeyPanics
  <2>2. <<"key">> \in DOMAIN data[n] /\ data[n][<<"key">>].kind # "string"
    BY <2>1 DEF Key
  <2> QED
    BY <1>3, <2>1, <2>2 DEF data
<1>5. CASE \E n \in DOMAIN data : \E k \in DOMAIN data[n] : CreatePanics(data[n][k])
  <2>1. PICK n \in DOMAIN data : \E k \in DOMAIN data[n] : CreatePanics(data[n][k])
    BY <1>5
  <2>2. PICK k \in DOMAIN data[n] : CreatePanics(data[n][k])
    BY <2>1
  <2>3. PICK x : x = data[n][k]
    OBVIOUS
  <2>4. /\ x.kind = "slice" /\ x.v # <<>> /\ \A i \in DOMAIN x.v : x.v[i].kind = "nil"
    BY <2>2, <2>3 DEF CreatePanics, CanonicalizePanics
  <2>5. x.v \in Seq(ToSet(x.v)) /\ \A y \in ToSet(x.v) : IsRecord(y)
    BY <1>1, <1>2, <2>3, <2>4, CallsAssumption DEF IsValue
  <2>6. \A y \in ToSet(x.v) : y = [kind |-> "nil", v |-> NoValue]
    BY <2>4, <2>5 DEF ToSet, IsRecord
  <2>7. 1 \in DOMAIN x.v
    BY <2>4, <2>5
  <2>8. x.v[1] \in ToSet(x.v)
    BY <2>7 DEF ToSet
  <2>9. ToSet(x.v) = {[kind |-> "nil", v |-> NoValue]}
    BY <2>6, <2>8
  <2> QED
    BY <1>3, <2>3, <2>4, <2>9 DEF data
<1> QED
  BY <1>4, <1>5 DEF ConsumerPanics, data

\* Whatever the contexts are, and however late they are read, the consumer takes
\* the process down for keys that are no strings (context.go:74) and for lists of
\* nils (helpers.go:47) only, and only where examples are collected.
THEOREM PanicsForTheseOnly == Spec => []PanicsForOddContextsOnly
<1>1. Init => PanicsForOddContextsOnly
  BY DEF Init, PanicsForOddContextsOnly
<1>2. BindingInv /\ PanicsForOddContextsOnly /\ [Next]_vars => PanicsForOddContextsOnly'
  <2> SUFFICES ASSUME BindingInv, PanicsForOddContextsOnly, [Next]_vars
               PROVE  PanicsForOddContextsOnly'
    OBVIOUS
  <2>1. mode' = mode
    BY Steps DEF CallerStep, SetNamedContext, ChangeValues, WithContext, GetValue, GetConfigMatch,
                 ResolveValue, Aggregate, internalRecordContext, internalRecordEvaluation, Submit,
                 callerVars, vars
  <2>2. CASE panicked' = panicked
    BY <2>1, <2>2 DEF PanicsForOddContextsOnly
  <2>3. CASE internalRecordContext /\ panicked' # panicked
    <3> DEFINE set == Head(queue).of.set
    <3>1. ConsumerPanics(Snapshot(set)) /\ panicked' = <<Snapshot(set)>>
      BY <2>3 DEF internalRecordContext
    <3>2. Named(set)
      BY <2>3, Taking DEF internalRecordContext, BindingInv, QueueInv, Faithful
    <3>3. PICK d : d = Snapshot(set)
      OBVIOUS
    <3>4. /\ mode = "PeriodicExample"
          /\ \E n \in DOMAIN d : \E k \in DOMAIN d[n] :
                LET x == d[n][k]
                IN  \/ k = <<"key">> /\ x.kind # "string"
                    \/ x.kind = "slice" /\ ToSet(x.v) = {[kind |-> "nil", v |-> NoValue]}
      BY <3>1, <3>2, <3>3, PanickingIsOdd
    <3>5. panicked' = <<d>>
      BY <3>1, <3>3
    <3>6. DOMAIN panicked' = {1} /\ panicked'[1] = d
      BY <3>5
    <3> QED
      BY <2>1, <3>4, <3>6 DEF PanicsForOddContextsOnly
  <2> QED
    BY <2>2, <2>3, Steps
       DEF CallerStep, SetNamedContext, ChangeValues, WithContext, GetValue, GetConfigMatch,
           ResolveValue, Aggregate, internalRecordEvaluation, Submit, vars
<1> QED
  BY <1>1, <1>2, BindingInvAlways, PTL DEF Spec

-----------------------------------------------------------------------------
\* Examples

\* Maps come back with other numbers, durations rounded, and a ConfigValue as what
\* it holds: these are not among the values given.
PlainValues == \A x \in GivenValues : x.kind \notin {"duration", "map", "configValue"}

Given(data) == \A k \in DOMAIN data : data[k] \in GivenValues

\* What is made of a value and read again is the value, the list of its strings,
\* or nothing.
LEMMA Kinds ==
    /\ DOMAIN TypeOfScalar = {"int", "string", "strings", "bytes", "bool", "float", "logLevel"}
    /\ DOMAIN GoTypeOf = {"Int", "String", "StringList", "Bytes", "Bool", "Double", "LogLevel"}
    /\ \A k \in DOMAIN TypeOfScalar :
          TypeOfScalar[k] \in DOMAIN GoTypeOf /\ GoTypeOf[TypeOfScalar[k]] = k
    /\ TypeOfScalar["string"] = "String"
BY DEF TypeOfScalar, GoTypeOf

\* NoValue is none of the values that are made of those given.
LEMMA NotNoValue ==
    ASSUME NEW x \in GivenValues, NEW k \in Kind
    PROVE  /\ NoValue # [kind |-> k, v |-> x.v]
           /\ x.kind = "slice" => NoValue # [kind |-> k, v |-> [i \in DOMAIN x.v |-> x.v[i].v]]
<1>1. NoValue # [kind |-> k, v |-> x.v]
  <2>1. NoValue \notin [kind : Kind, v : {x.v}]
    BY CallsAssumption
  <2> QED
    BY <2>1
<1>2. ASSUME x.kind = "slice" PROVE NoValue # [kind |-> k, v |-> [i \in DOMAIN x.v |-> x.v[i].v]]
  <2> DEFINE texts == [i \in DOMAIN x.v |-> x.v[i].v]
  <2>1. NoValue \notin [kind : Kind, v : {texts}]
    BY <1>2, CallsAssumption
  <2> HIDE DEF texts
  <2>2. NoValue # [kind |-> k, v |-> texts]
    BY <2>1
  <2> QED
    BY <2>2 DEF texts
<1> QED
  BY <1>1, <1>2

\* What becomes of each kind of value.
LEMMA Created ==
    ASSUME NEW x
    PROVE  /\ x.kind = "slice" /\ ~IsStringList(x.v) => Create(x) = [kind |-> "", v |-> NoValue]
           /\ x.kind = "slice" /\ IsStringList(x.v) =>
                 Create(x) = [kind |-> "StringList", v |-> [i \in DOMAIN x.v |-> x.v[i].v]]
           /\ x.kind \in DOMAIN TypeOfScalar => Create(x) = [kind |-> TypeOfScalar[x.kind], v |-> x.v]
           /\ x.kind \notin DOMAIN TypeOfScalar \cup {"slice", "duration", "map", "configValue"} =>
                 Create(x) = NoValue
<1>1. ASSUME x.kind = "slice", ~IsStringList(x.v) PROVE Create(x) = [kind |-> "", v |-> NoValue]
  BY <1>1, Kinds DEF Create
<1>2. ASSUME x.kind = "slice", IsStringList(x.v)
      PROVE  Create(x) = [kind |-> "StringList", v |-> [i \in DOMAIN x.v |-> x.v[i].v]]
  BY <1>2, Kinds DEF Create
<1>3. ASSUME x.kind \in DOMAIN TypeOfScalar
      PROVE  Create(x) = [kind |-> TypeOfScalar[x.kind], v |-> x.v]
  BY <1>3, Kinds DEF Create
<1>4. ASSUME x.kind \notin DOMAIN TypeOfScalar \cup {"slice", "duration", "map", "configValue"}
      PROVE  Create(x) = NoValue
  BY <1>4, Kinds DEF Create
<1> QED
  BY <1>1, <1>2, <1>3, <1>4

\* What is made of a value and read again is the value, the list of its strings,
\* or nothing.
LEMMA RoundTrip ==
    ASSUME PlainValues, NEW x \in GivenValues, NEW cv, cv = Create(x)
    PROVE  \/ cv = NoValue
           \/ /\ cv # NoValue /\ GetValueType(cv) = "NOT_SET_VALUE_TYPE"
              /\ ExtractValue(cv, <<>>) = NoValue
           \/ /\ cv # NoValue /\ GetValueType(cv) # "NOT_SET_VALUE_TYPE"
              /\ ExtractValue(cv, <<>>) # NoValue
              /\ IF x.kind = "slice" THEN ExtractValue(cv, <<>>).kind = "strings"
                 ELSE ExtractValue(cv, <<>>) = x
<1>1. /\ x.kind \notin {"duration", "map", "configValue"} /\ x = [kind |-> x.kind, v |-> x.v]
  BY CallsAssumption DEF PlainValues, IsValue, IsRecord
<1>2. CASE x.kind = "slice" /\ IsStringList(x.v)
  <2>1. PICK texts : texts = [i \in DOMAIN x.v |-> x.v[i].v]
    OBVIOUS
  <2>2. cv = [kind |-> "StringList", v |-> texts]
    BY <1>2, <2>1, Created
  <2>3. "StringList" \in Kind /\ "strings" \in Kind
    BY Kinds DEF Kind
  <2>4. NoValue # [kind |-> "StringList", v |-> texts] /\ NoValue # [kind |-> "strings", v |-> texts]
    BY <1>2, <2>1, <2>3, NotNoValue
  <2>5. cv # NoValue /\ cv.kind = "StringList" /\ cv.v = texts
    BY <2>2, <2>4
  <2>6. GetValueType(cv) = "StringList"
    BY <2>5 DEF GetValueType
  <2>7. ExtractValue(cv, <<>>) = [kind |-> "strings", v |-> texts]
    BY <2>5 DEF ExtractValue, Extract, GoTypeOf
  <2> QED
    BY <1>2, <2>4, <2>5, <2>6, <2>7
<1>3. CASE x.kind = "slice" /\ ~IsStringList(x.v)
  <2>1. PICK y : y = [kind |-> "", v |-> NoValue]
    OBVIOUS
  <2>2. GetValueType(y) = "NOT_SET_VALUE_TYPE" /\ ExtractValue(y, <<>>) = NoValue
    BY <2>1 DEF GetValueType, ExtractValue
  <2>3. cv = y
    BY <1>3, <2>1, Created
  <2> QED
    BY <2>2, <2>3
<1>4. CASE x.kind \in DOMAIN TypeOfScalar
  <2>1. PICK type \in DOMAIN GoTypeOf : type = TypeOfScalar[x.kind] /\ GoTypeOf[type] = x.kind
    BY <1>4, Kinds
  <2>2. cv = [kind |-> type, v |-> x.v]
    BY <1>4, <2>1, Created
  <2>3. type \in Kind /\ x.kind \in Kind
    BY <1>4, <2>1 DEF Kind
  <2>4. NoValue # [kind |-> type, v |-> x.v] /\ NoValue # [kind |-> x.kind, v |-> x.v]
    BY <2>3, NotNoValue
  <2>5. cv # NoValue /\ cv.kind = type /\ cv.v = x.v
    BY <2>2, <2>4
  <2>6. type \notin {"", "Provided", "Json", "Duration", "NOT_SET_VALUE_TYPE"} /\ x.kind # "slice"
    BY <1>4, <2>1, Kinds
  <2>7. GetValueType(cv) # "NOT_SET_VALUE_TYPE"
    BY <2>5, <2>6 DEF GetValueType
  <2>8. ExtractValue(cv, <<>>) = Extract(type, cv)
    BY <2>5, <2>6 DEF ExtractValue
  <2>9. Extract(type, cv) = [kind |-> x.kind, v |-> x.v]
    BY <2>1, <2>5, <2>6 DEF Extract
  <2> QED
    BY <1>1, <2>4, <2>5, <2>6, <2>7, <2>8, <2>9
<1>5. CASE x.kind \notin DOMAIN TypeOfScalar \cup {"slice"}
  BY <1>1, <1>5, Created
<1> QED
  BY <1>2, <1>3, <1>4, <1>5

LEMMA ExampleReadsBack ==
    ASSUME PlainValues, NEW data, Given(data)
    PROVE  LET back == NewNamedContextFromProto(NamedToProto(data))
           IN  /\ DOMAIN back \subseteq DOMAIN data
               /\ \A k \in DOMAIN data : ReadBack(data, back, k)
<1> DEFINE proto == NamedToProto(data)
           back == NewNamedContextFromProto(proto)
<1>1. /\ DOMAIN proto = {k \in DOMAIN data : Create(data[k]) # NoValue}
      /\ \A k \in DOMAIN proto : proto[k] = Create(data[k])
  BY DEF NamedToProto
<1>2. /\ DOMAIN back = {k \in DOMAIN proto : ExtractValue(proto[k], <<>>) # NoValue}
      /\ \A k \in DOMAIN back : back[k] = ExtractValue(proto[k], <<>>)
  BY DEF NewNamedContextFromProto
<1> HIDE DEF proto, back
<1>3. ASSUME NEW k \in DOMAIN data PROVE ReadBack(data, back, k)
  <2>1. data[k] \in GivenValues
    BY DEF Given
  <2>2. k \in DOMAIN back <=> Create(data[k]) # NoValue /\ ExtractValue(Create(data[k]), <<>>) # NoValue
    BY <1>1, <1>2
  <2>3. k \in DOMAIN back => back[k] = ExtractValue(Create(data[k]), <<>>)
    BY <1>1, <1>2
  <2> QED
    BY <2>1, <2>2, <2>3, RoundTrip DEF ReadBack
<1> QED
  BY <1>1, <1>2, <1>3 DEF proto, back

\* An example tells the key that its contexts had.
LEMMA KeyOfProto ==
    ASSUME PlainValues, NEW data, Given(data), Key(data).kind \in {"nil", "string"}
    PROVE  KeyText(NamedToProto(data)) = KeyText(data)
<1> DEFINE proto == NamedToProto(data)
<1>1. /\ DOMAIN proto = {k \in DOMAIN data : Create(data[k]) # NoValue}
      /\ \A k \in DOMAIN proto : proto[k] = Create(data[k])
  BY DEF NamedToProto
<1> HIDE DEF proto
<1>2. CASE <<"key">> \notin DOMAIN data
  <2>1. Key(data) = [kind |-> "nil"] /\ Key(proto) = [kind |-> "nil"]
    BY <1>1, <1>2 DEF Key
  <2> QED
    BY <2>1 DEF KeyText, proto
<1>3. CASE <<"key">> \in DOMAIN data
  <2>1. PICK x : x = data[<<"key">>]
    OBVIOUS
  <2>2. x \in GivenValues /\ x.kind \in {"nil", "string"} /\ Key(data) = x
    BY <1>3, <2>1 DEF Given, Key
  <2>5. CASE x.kind = "nil"
    <3>1. Create(x) = NoValue
      BY <2>5, Created, Kinds
    <3>2. Key(proto) = [kind |-> "nil"]
      BY <1>1, <2>1, <3>1 DEF Key
    <3> QED
      BY <2>2, <2>5, <3>2 DEF KeyText, proto
  <2>6. CASE x.kind = "string"
    <3>1. Create(x) = [kind |-> "String", v |-> x.v]
      BY <2>6, Created, Kinds
    <3>2. Create(x) # NoValue
      BY <2>2, <3>1, NotNoValue, Kinds DEF Kind
    <3>3. Key(proto) = [kind |-> "String", v |-> x.v]
      BY <1>1, <1>3, <2>1, <3>1, <3>2 DEF Key
    <3>4. KeyText(proto) = x.v
      BY <3>3 DEF KeyText
    <3>5. KeyText(data) = x.v
      BY <2>2, <2>6 DEF KeyText
    <3> QED
      BY <3>4, <3>5 DEF proto
  <2> QED
    BY <2>2, <2>5, <2>6
<1> QED
  BY <1>2, <1>3

\* An example is right for the call that made it.
Right(e) ==
    LET back == NewContextSetFromProto(e.contexts)
    IN  /\ DOMAIN back = DOMAIN e.of.meant
        /\ \A n \in DOMAIN back :
              \/ e.of.set[n] \in e.of.touched
              \/ /\ DOMAIN back[n] \subseteq DOMAIN e.of.meant[n]
                 /\ \A k \in DOMAIN e.of.meant[n] : ReadBack(e.of.meant[n], back[n], k)

\* The contexts that the aggregator was given.
Taken(data) == ~GroupedKeyPanics(data) /\ \A n \in DOMAIN data : Given(data[n])

ExampleInv ==
    /\ DOMAIN seen = {"example", "shape", "summary"}
    /\ \A data \in seen.example : Taken(data) /\ (Keyless(data) \/ GroupedKey(data) \in DOMAIN examples)
    /\ \A g \in DOMAIN examples : \E data \in seen.example :
          g = GroupedKey(data) /\ examples[g].contexts = ToProto(data)
    /\ \A e \in Examples : Right(e)

\* A context becomes the right example while its binding is faithful.
LEMMA ExampleIsRight ==
    ASSUME PlainValues, ValuesInv, NEW b, Faithful(b, values), NEW e,
           e = [contexts |-> ToProto(Snapshot(b.set)), of |-> b]
    PROVE  Right(e)
<1> DEFINE data == Snapshot(b.set)
           back == NewContextSetFromProto(e.contexts)
<1>1. /\ DOMAIN data = DOMAIN b.set /\ \A n \in DOMAIN b.set : data[n] = values[b.set[n]]
  BY DEF Snapshot
<1>2. /\ DOMAIN b.meant = DOMAIN b.set
      /\ \A n \in DOMAIN b.set : b.set[n] \in b.touched \/ b.meant[n] = data[n]
  BY <1>1 DEF Faithful
<1>3. \A n \in DOMAIN b.set : Given(data[n])
  BY ValuesAreGiven DEF Given, Faithful
<1>4. e.contexts = ToProto(data) /\ e.of = b
  OBVIOUS
<1> HIDE DEF data
<1>5. /\ DOMAIN back = DOMAIN data
      /\ \A n \in DOMAIN data : back[n] = NewNamedContextFromProto(NamedToProto(data[n]))
  BY <1>4 DEF NewContextSetFromProto, ToProto
<1> HIDE DEF back
<1>6. ASSUME NEW n \in DOMAIN data, b.meant[n] = data[n]
      PROVE  /\ DOMAIN back[n] \subseteq DOMAIN b.meant[n]
             /\ \A k \in DOMAIN b.meant[n] : ReadBack(b.meant[n], back[n], k)
  BY <1>1, <1>3, <1>5, <1>6, ExampleReadsBack
<1> QED
  BY <1>1, <1>2, <1>4, <1>5, <1>6 DEF Right, back

LEMMA ExampleInvStep ==
    ASSUME PlainValues, BindingInv, ExampleInv, [Next]_vars
    PROVE  ExampleInv'
<1>1. ASSUME UNCHANGED examples, DOMAIN seen' = DOMAIN seen, seen'.example = seen.example
      PROVE  ExampleInv'
  BY <1>1 DEF ExampleInv, Examples
<1>2. CASE internalRecordContext
  <2>1. CASE UNCHANGED aggregated
    BY <1>1, <2>1 DEF aggregated
  <2>2. CASE mode # "PeriodicExample" /\ ~UNCHANGED aggregated
    <3>1. PICK s : seen' = [seen EXCEPT !.shape = s] /\ UNCHANGED examples
      BY <1>2, <2>2 DEF internalRecordContext
    <3>2. DOMAIN seen' = DOMAIN seen /\ seen'.example = seen.example
      BY <3>1 DEF ExampleInv
    <3> QED
      BY <1>1, <3>1, <3>2
  <2>3. CASE mode = "PeriodicExample" /\ ~UNCHANGED aggregated
    <3>1. PICK item : item = Head(queue)
      OBVIOUS
    <3>2. PICK data : data = Snapshot(item.of.set)
      OBVIOUS
    <3>3. /\ ~ConsumerPanics(data) /\ examples' = ExampleOf(item)
          /\ seen' = [seen EXCEPT !.example = @ \cup {data}, !.shape = @ \cup {data}]
      BY <1>2, <2>3, <3>1, <3>2 DEF internalRecordContext
    <3>4. DOMAIN seen' = {"example", "shape", "summary"} /\ seen'.example = seen.example \cup {data}
      BY <3>3 DEF ExampleInv
    <3>5. Faithful(item.of, values)
      BY <1>2, <3>1, Taking DEF internalRecordContext, BindingInv, QueueInv
    <3>6. Taken(data)
      <4>1. ~GroupedKeyPanics(data)
        BY <2>3, <3>3 DEF ConsumerPanics
      <4>2. ASSUME NEW n \in DOMAIN data PROVE Given(data[n])
        <5>1. DOMAIN data = DOMAIN item.of.set
          BY <3>2 DEF Snapshot
        <5> QED
          BY <3>2, <3>5, <4>2, <5>1, ValuesAreGiven DEF Given, Faithful, BindingInv
      <4> QED
        BY <4>1, <4>2 DEF Taken
    <3>7. CASE Keyless(data) \/ GroupedKey(data) \in DOMAIN examples
      <4>1. examples' = examples
        BY <3>2, <3>3, <3>7 DEF ExampleOf
      <4> QED
        BY <3>4, <3>6, <3>7, <4>1 DEF ExampleInv, Examples
    <3>8. CASE ~(Keyless(data) \/ GroupedKey(data) \in DOMAIN examples)
      <4> DEFINE g == GroupedKey(data)
      <4>1. PICK e : e = [contexts |-> ToProto(data), of |-> item.of]
        OBVIOUS
      <4>2. examples' = Merge(examples, [k \in {g} |-> e])
        BY <3>2, <3>3, <3>8, <4>1 DEF ExampleOf, Put
      <4> HIDE DEF g
      <4>3. /\ DOMAIN examples' = DOMAIN examples \cup {g} /\ examples'[g] = e
            /\ \A k \in DOMAIN examples \ {g} : examples'[k] = examples[k]
        BY <4>2 DEF Merge
      <4>4. Right(e) /\ e.contexts = ToProto(data)
        BY <3>2, <3>5, <4>1, ExampleIsRight DEF BindingInv
      <4>5. g = GroupedKey(data)
        BY DEF g
      <4>6. \A d \in seen'.example : Taken(d) /\ (Keyless(d) \/ GroupedKey(d) \in DOMAIN examples')
        BY <3>4, <3>6, <4>3, <4>5 DEF ExampleInv
      <4>7. \A k \in DOMAIN examples' : \E d \in seen'.example :
               k = GroupedKey(d) /\ examples'[k].contexts = ToProto(d)
        BY <3>4, <4>3, <4>4, <4>5 DEF ExampleInv
      <4>8. \A x \in Examples' : Right(x)
        BY <4>3, <4>4 DEF ExampleInv, Examples
      <4> QED
        BY <3>4, <4>6, <4>7, <4>8 DEF ExampleInv
    <3> QED
      BY <3>7, <3>8
  <2> QED
    BY <2>1, <2>2, <2>3
<1>3. CASE internalRecordEvaluation
  <2>1. PICK s : seen' = [seen EXCEPT !.summary = s]
    BY <1>3 DEF internalRecordEvaluation
  <2>2. DOMAIN seen' = DOMAIN seen /\ seen'.example = seen.example /\ examples' = examples
    BY <1>3, <2>1 DEF internalRecordEvaluation, ExampleInv
  <2> QED
    BY <1>1, <2>2
<1>4. CASE Submit
  BY <1>4 DEF Submit, ExampleInv, Examples
<1>5. CASE CallerStep
  BY <1>1, <1>5 DEF CallerStep, SetNamedContext, ChangeValues, WithContext, GetValue,
                    GetConfigMatch, ResolveValue, aggregated
<1> QED
  BY <1>1, <1>2, <1>3, <1>4, <1>5, Steps DEF Aggregate, vars, aggregated

\* Contexts of the same grouped key have the same names and keys.
LEMMA GroupedKeyTells ==
    ASSUME NEW d1, NEW d2, GroupedKey(d1) = GroupedKey(d2)
    PROVE  DOMAIN d1 = DOMAIN d2 /\ \A n \in DOMAIN d1 : KeyText(d1[n]) = KeyText(d2[n])
<1>1. \A n \in DOMAIN d1 : <<n, KeyText(d1[n])>> \in GroupedKey(d2)
  BY DEF GroupedKey
<1>2. \A n \in DOMAIN d2 : <<n, KeyText(d2[n])>> \in GroupedKey(d1)
  BY DEF GroupedKey
<1>3. \A n \in DOMAIN d1 : \E m \in DOMAIN d2 : n = m /\ KeyText(d1[n]) = KeyText(d2[m])
  BY <1>1 DEF GroupedKey
<1>4. \A n \in DOMAIN d2 : n \in DOMAIN d1
  BY <1>2 DEF GroupedKey
<1> QED
  BY <1>3, <1>4

\* However late the queue is read, an example reports the contexts of the call that
\* made it, as they were given but for what its caller wrote to since, and every
\* context that has a key has an example.
THEOREM ExamplesAreThoseSeen ==
    ASSUME PlainValues
    PROVE  Spec => []ExamplesAreWhatCallsSaw
<1>1. Init => ExampleInv
  BY DEF Init, ExampleInv, Examples
<1>2. BindingInv /\ ExampleInv /\ [Next]_vars => ExampleInv'
  BY ExampleInvStep
<1>3. ExampleInv => ExamplesAreWhatCallsSaw
  <2> SUFFICES ASSUME ExampleInv PROVE ExamplesAreWhatCallsSaw
    OBVIOUS
  <2>1. \A e \in Examples : Right(e)
    BY DEF ExampleInv
  <2>2. ASSUME NEW data \in seen.example, ~Keyless(data)
        PROVE  \E e \in Examples :
                  /\ DOMAIN e.contexts = DOMAIN data
                  /\ \A n \in DOMAIN data : KeyText(e.contexts[n]) = KeyText(data[n])
    <3>1. GroupedKey(data) \in DOMAIN examples
      BY <2>2 DEF ExampleInv
    <3>2. PICK d \in seen.example : GroupedKey(data) = GroupedKey(d)
                                   /\ examples[GroupedKey(data)].contexts = ToProto(d)
      BY <3>1 DEF ExampleInv
    <3>3. PICK e \in Examples : e = examples[GroupedKey(data)]
      BY <3>1 DEF Examples
    <3>4. /\ DOMAIN e.contexts = DOMAIN d
          /\ \A n \in DOMAIN d : e.contexts[n] = NamedToProto(d[n])
      BY <3>2, <3>3 DEF ToProto
    <3>5. DOMAIN data = DOMAIN d /\ \A n \in DOMAIN data : KeyText(data[n]) = KeyText(d[n])
      BY <3>2, GroupedKeyTells
    <3>6. ASSUME NEW n \in DOMAIN d PROVE KeyText(NamedToProto(d[n])) = KeyText(d[n])
      <4>1. Given(d[n]) /\ Key(d[n]).kind \in {"nil", "string"}
        BY DEF ExampleInv, Taken, GroupedKeyPanics
      <4> QED
        BY <4>1, KeyOfProto
    <3> QED
      BY <3>4, <3>5, <3>6
  <2> QED
    BY <2>1, <2>2 DEF ExamplesAreWhatCallsSaw, Right
<1> QED
  BY <1>1, <1>2, <1>3, BindingInvAlways, PTL DEF Spec

-----------------------------------------------------------------------------
\* Summaries

\* The API gives each config an id of its own.
UniqueIds == \A c \in Config, d \in Config : c.id = d.id /\ c.id # 0 => c = d

\* What the rule of a config may yield.
Yields(config) ==
    {[config |-> config, conditionalValueIndex |-> 0, weightedValueIndex |-> config.weighted,
      match |-> config.then],
     [config |-> config, conditionalValueIndex |-> 1, weightedValueIndex |-> NoValue,
      match |-> config.otherwise]}

IsMatch(m) == \E config \in Config : m \in Yields(config)

MatchInv ==
    /\ \A c \in Caller : call[c].pc = "resolving" => call[c].config \in Config \cup {NoValue}
    /\ \A item \in ToSet(queue) : item.kind = "match" => IsMatch(item.m)

\* Where the matches with a grouping key are in a sequence.
Having(k, s) == {i \in DOMAIN s : GroupingKey(s[i]) = k}

\* Counters are those of the matches seen, each match under its grouping key.
SummaryInv ==
    /\ DOMAIN seen = {"example", "shape", "summary"}
    /\ IsSequence(seen.summary)
    /\ \A m \in ToSet(seen.summary) : IsMatch(m) /\ GroupingKey(m) \in DOMAIN matches
    /\ \A k \in DOMAIN matches : matches[k] \in ToSet(seen.summary) /\ GroupingKey(matches[k]) = k
    /\ DOMAIN counts = DOMAIN matches
    /\ \A k \in DOMAIN counts : counts[k] = Cardinality(Having(k, seen.summary))

LEMMA MatchYields == ASSUME NEW config, NEW value PROVE Match(config, value) \in Yields(config)
BY DEF Match, Yields

LEMMA MatchInvStep ==
    ASSUME BindingInv, MatchInv, [Next]_vars
    PROVE  MatchInv'
<1>1. CASE UNCHANGED <<call, queue>>
  BY <1>1 DEF MatchInv
<1>2. ASSUME NEW n \in DOMAIN Written, ChangeValues(n) PROVE MatchInv'
  <2>1. ASSUME NEW c \in Caller, call'[c].pc = "resolving"
        PROVE  call'[c].config \in Config \cup {NoValue}
    <3>1. call[c].pc = "resolving" /\ call'[c] = [call[c] EXCEPT !.of = Touch(@, n)]
      BY <1>2, <2>1 DEF ChangeValues
    <3>2. call[c] = [pc |-> "resolving", config |-> call[c].config, of |-> call[c].of]
      BY <3>1 DEF BindingInv, CallInv
    <3>3. call'[c].config = call[c].config
      BY <3>1, <3>2
    <3> QED
      BY <3>1, <3>3 DEF MatchInv
  <2>2. ASSUME NEW i \in DOMAIN queue', queue'[i].kind = "match" PROVE IsMatch(queue'[i].m)
    <3>1. /\ i \in DOMAIN queue
          /\ queue'[i] = IF queue[i].kind = "context" THEN [queue[i] EXCEPT !.of = Touch(@, n)]
                         ELSE queue[i]
      BY <1>2 DEF ChangeValues
    <3>2. CASE queue[i].kind = "context"
      <4>1. queue[i] = [kind |-> "context", of |-> queue[i].of]
        BY <3>1, <3>2 DEF BindingInv, QueueInv, ToSet
      <4>2. queue'[i].kind = "context"
        BY <3>1, <3>2, <4>1
      <4> QED
        BY <2>2, <4>2
    <3>3. CASE queue[i].kind # "context"
      <4>1. queue'[i] = queue[i]
        BY <3>1, <3>3
      <4> QED
        BY <2>2, <3>1, <4>1 DEF MatchInv, ToSet
    <3> QED
      BY <3>2, <3>3
  <2> QED
    BY <2>1, <2>2 DEF MatchInv, ToSet
<1>3. ASSUME NEW h \in 0 .. Len(bound), NEW c \in Caller, NEW set \in GivenToCall,
             NEW config \in Config \cup {NoValue},
             GetValue(c, h, set, config) \/ GetConfigMatch(c, h, set, config)
      PROVE  MatchInv'
  <2>1. PICK b : /\ call' = [call EXCEPT ![c] = [pc |-> "resolving", config |-> config, of |-> b]]
                 /\ queue' = queue \/ queue' = Append(queue, [kind |-> "context", of |-> b])
    BY <1>3 DEF GetValue, GetConfigMatch, internalGetValue
  <2>2. \A d \in Caller : call'[d].pc = "resolving" => call'[d].config \in Config \cup {NoValue}
    BY <2>1 DEF MatchInv, BindingInv
  <2>3. \A item \in ToSet(queue') : item.kind = "match" => IsMatch(item.m)
    <3>1. ToSet(queue') \subseteq ToSet(queue) \cup {[kind |-> "context", of |-> b]}
      BY <2>1, Appending DEF BindingInv, QueueInv
    <3> QED
      BY <3>1 DEF MatchInv
  <2> QED
    BY <2>2, <2>3 DEF MatchInv
<1>4. ASSUME NEW c \in Caller, ResolveValue(c) PROVE MatchInv'
  <2>1. PICK x : call' = [call EXCEPT ![c] = [pc |-> "answered", answer |-> x]]
    BY <1>4 DEF ResolveValue, Answer
  <2>2. \A d \in Caller : call'[d].pc = "resolving" => call'[d].config \in Config \cup {NoValue}
    BY <2>1 DEF MatchInv, BindingInv
  <2>3. \A item \in ToSet(queue') : item.kind = "match" => IsMatch(item.m)
    <3>1. CASE queue' = queue
      BY <3>1 DEF MatchInv
    <3>2. CASE queue' # queue
      <4>1. PICK value, m : /\ m = Match(call[c].config, value) /\ call[c].config # NoValue
                            /\ queue' = Append(queue, [kind |-> "match", m |-> m])
        BY <1>4, <3>2 DEF ResolveValue
      <4>2. call[c].config \in Config
        BY <1>4, <4>1 DEF ResolveValue, MatchInv
      <4>3. IsMatch(m)
        BY <4>1, <4>2, MatchYields DEF IsMatch
      <4>4. ToSet(queue') = ToSet(queue) \cup {[kind |-> "match", m |-> m]}
        BY <4>1, Appending DEF BindingInv, QueueInv
      <4> QED
        BY <4>3, <4>4 DEF MatchInv
    <3> QED
      BY <3>1, <3>2
  <2> QED
    BY <2>2, <2>3 DEF MatchInv
<1>5. CASE Aggregate
  <2>1. call' = call /\ (queue' = queue \/ (queue # <<>> /\ queue' = Tail(queue)))
    BY <1>5 DEF Aggregate, internalRecordContext, internalRecordEvaluation, Submit, callerVars
  <2>2. ToSet(queue') \subseteq ToSet(queue)
    BY <2>1, Taking DEF BindingInv, QueueInv
  <2> QED
    BY <2>1, <2>2 DEF MatchInv
<1> QED
  BY <1>1, <1>2, <1>3, <1>4, <1>5, Steps
     DEF CallerStep, SetNamedContext, WithContext, vars, callerVars

\* One more of those that have a key, and as many as before of the others.
LEMMA Counting ==
    ASSUME NEW s, IsSequence(s), NEW m, NEW k
    PROVE  /\ Cardinality(Having(k, s)) \in Nat
           /\ Cardinality(Having(k, Append(s, m))) =
                 Cardinality(Having(k, s)) + IF GroupingKey(m) = k THEN 1 ELSE 0
           /\ (\A x \in ToSet(s) : GroupingKey(x) # k) => Cardinality(Having(k, s)) = 0
<1> DEFINE old == Having(k, s)
           new == Having(k, Append(s, m))
           n == Len(s) + 1
<1>1. /\ Len(s) \in Nat /\ DOMAIN s = 1 .. Len(s)
      /\ DOMAIN Append(s, m) = 1 .. n
      /\ \A i \in 1 .. Len(s) : Append(s, m)[i] = s[i]
      /\ Append(s, m)[n] = m
  <2>1. s \in Seq(ToSet(s) \cup {m}) /\ m \in ToSet(s) \cup {m}
    BY DEF IsSequence
  <2> QED
    BY <2>1
<1>2. IsFiniteSet(old) /\ Cardinality(old) \in Nat
  <2>1. IsFiniteSet(1 .. Len(s)) /\ old \subseteq 1 .. Len(s)
    BY <1>1, FS_Interval DEF Having
  <2> QED
    BY <2>1, FS_Subset, FS_CardinalityType
<1>3. 1 .. n = (1 .. Len(s)) \cup {n} /\ n \notin 1 .. Len(s)
  BY <1>1
<1>4. new = IF GroupingKey(m) = k THEN old \cup {n} ELSE old
  BY <1>1, <1>3 DEF Having
<1>5. n \notin old
  BY <1>1, <1>3 DEF Having
<1>6. Cardinality(new) = Cardinality(old) + IF GroupingKey(m) = k THEN 1 ELSE 0
  <2> HIDE DEF old, new, n
  <2>1. Cardinality(old \cup {n}) = Cardinality(old) + 1
    BY <1>2, <1>5, FS_AddElement
  <2> QED
    BY <1>2, <1>4, <2>1
<1>7. ASSUME \A x \in ToSet(s) : GroupingKey(x) # k PROVE Cardinality(old) = 0
  <2>1. old = {}
    BY <1>7 DEF ToSet, Having
  <2> QED
    BY <2>1, FS_EmptySet
<1> QED
  BY <1>2, <1>6, <1>7

LEMMA SummaryInvStep ==
    ASSUME BindingInv, MatchInv, SummaryInv, [Next]_vars
    PROVE  SummaryInv'
<1>1. ASSUME UNCHANGED <<matches, counts>>, DOMAIN seen' = DOMAIN seen, seen'.summary = seen.summary
      PROVE  SummaryInv'
  BY <1>1 DEF SummaryInv
<1>2. CASE internalRecordEvaluation
  <2>1. PICK m : m = Head(queue).m
    OBVIOUS
  <2> DEFINE k == GroupingKey(m)
             s == seen.summary
  <2>2. /\ matches' = IF k \in DOMAIN matches THEN matches ELSE Put(matches, k, m)
        /\ counts' = Put(counts, k, IF k \in DOMAIN counts THEN counts[k] + 1 ELSE 1)
        /\ seen' = [seen EXCEPT !.summary = Append(s, m)]
    BY <1>2, <2>1 DEF internalRecordEvaluation
  <2>3. IsMatch(m)
    BY <1>2, <2>1, Taking DEF internalRecordEvaluation, BindingInv, QueueInv, MatchInv
  <2>4. DOMAIN seen' = {"example", "shape", "summary"} /\ seen'.summary = Append(s, m)
    BY <2>2 DEF SummaryInv
  <2>5. IsSequence(s) /\ IsSequence(Append(s, m)) /\ ToSet(Append(s, m)) = ToSet(s) \cup {m}
    BY Appending DEF SummaryInv
  <2>6. k = GroupingKey(m)
    OBVIOUS
  <2> HIDE DEF k
  <2>7. /\ DOMAIN matches' = DOMAIN matches \cup {k}
        /\ \A x \in DOMAIN matches : matches'[x] = matches[x]
        /\ k \notin DOMAIN matches => matches'[k] = m
    BY <2>2 DEF Put, Merge
  <2>8. /\ DOMAIN counts' = DOMAIN counts \cup {k}
        /\ \A x \in DOMAIN counts \ {k} : counts'[x] = counts[x]
        /\ counts'[k] = IF k \in DOMAIN counts THEN counts[k] + 1 ELSE 1
    BY <2>2 DEF Put, Merge
  <2>9. \A x \in ToSet(seen'.summary) : IsMatch(x) /\ GroupingKey(x) \in DOMAIN matches'
    BY <2>3, <2>4, <2>5, <2>6, <2>7 DEF SummaryInv
  <2>10. \A x \in DOMAIN matches' : matches'[x] \in ToSet(seen'.summary) /\ GroupingKey(matches'[x]) = x
    BY <2>4, <2>5, <2>6, <2>7 DEF SummaryInv
  <2>11. ASSUME NEW x \in DOMAIN counts'
         PROVE  counts'[x] = Cardinality(Having(x, seen'.summary))
    <3> DEFINE before == Cardinality(Having(x, s))
               after == Cardinality(Having(x, Append(s, m)))
    <3>1. /\ before \in Nat /\ after = before + IF k = x THEN 1 ELSE 0
          /\ (\A y \in ToSet(s) : GroupingKey(y) # x) => before = 0
      BY <2>5, <2>6, Counting
    <3>2. x \in DOMAIN counts => counts[x] = before
      BY DEF SummaryInv
    <3>3. x \notin DOMAIN counts => before = 0
      BY <3>1 DEF SummaryInv
    <3> HIDE DEF before, after
    <3>4. counts'[x] = after
      BY <2>8, <3>1, <3>2, <3>3
    <3> QED
      BY <2>4, <3>4 DEF after
  <2> QED
    BY <2>4, <2>5, <2>7, <2>8, <2>9, <2>10, <2>11 DEF SummaryInv
<1>3. CASE internalRecordContext
  <2>1. CASE UNCHANGED aggregated
    BY <1>1, <2>1 DEF aggregated
  <2>2. CASE ~UNCHANGED aggregated
    <3>1. PICK e, t : \/ seen' = [seen EXCEPT !.shape = t]
                      \/ seen' = [seen EXCEPT !.example = e, !.shape = t]
      BY <1>3, <2>2 DEF internalRecordContext
    <3>2. DOMAIN seen' = DOMAIN seen /\ seen'.summary = seen.summary
      BY <3>1 DEF SummaryInv
    <3> QED
      BY <1>1, <1>3, <2>2, <3>2 DEF internalRecordContext
  <2> QED
    BY <2>1, <2>2
<1>4. CASE Submit
  <2>1. IsSequence(<<>>) /\ ToSet(<<>>) = {}
    BY DEF IsSequence, ToSet
  <2> QED
    BY <1>4, <2>1 DEF Submit, SummaryInv
<1>5. CASE CallerStep
  BY <1>1, <1>5 DEF CallerStep, SetNamedContext, ChangeValues, WithContext, GetValue,
                    GetConfigMatch, ResolveValue, aggregated
<1> QED
  BY <1>1, <1>2, <1>3, <1>4, <1>5, Steps DEF Aggregate, vars, aggregated

\* Where configs have ids, matches that are counted together are the same.
LEMMA SameKeySameMatch ==
    ASSUME UniqueIds, NEW m1, NEW m2, IsMatch(m1), IsMatch(m2),
           GroupingKey(m1) = GroupingKey(m2), m1.config.id # 0
    PROVE  m1 = m2
<1>1. PICK c1 \in Config : m1 \in Yields(c1)
  BY DEF IsMatch
<1>2. PICK c2 \in Config : m2 \in Yields(c2)
  BY DEF IsMatch
<1>3. /\ m1.config = c1 /\ m1.conditionalValueIndex \in {0, 1}
      /\ m2.config = c2 /\ m2.conditionalValueIndex \in {0, 1}
  BY <1>1, <1>2 DEF Yields
<1>4. c1.id = c2.id /\ m1.conditionalValueIndex = m2.conditionalValueIndex
  BY <1>3 DEF GroupingKey
<1>5. c1 = c2
  BY <1>3, <1>4 DEF UniqueIds
<1> QED
  BY <1>1, <1>2, <1>4, <1>5 DEF Yields

-----------------------------------------------------------------------------
\* The total of the summaries

\* One pair for each time that a match was counted.
Counted == UNION {{<<i, k>> : i \in 1 .. counts[k]} : k \in DOMAIN counts}

TotalInv ==
    /\ IsFiniteSet(Counted) /\ Cardinality(Counted) = Len(seen.summary)
    /\ \A k \in DOMAIN counts : counts[k] \in Nat

LEMMA TotalInvStep ==
    ASSUME SummaryInv, TotalInv, [Next]_vars
    PROVE  TotalInv'
<1>1. ASSUME counts' = counts, seen'.summary = seen.summary PROVE TotalInv'
  BY <1>1 DEF TotalInv, Counted
<1>2. CASE internalRecordEvaluation
  <2>1. PICK m : m = Head(queue).m
    OBVIOUS
  <2>2. PICK k : k = GroupingKey(m)
    OBVIOUS
  <2>3. PICK n : n = IF k \in DOMAIN counts THEN counts[k] + 1 ELSE 1
    OBVIOUS
  <2>4. n \in Nat \ {0} /\ (k \in DOMAIN counts => counts[k] = n - 1)
        /\ (k \notin DOMAIN counts => n = 1)
    BY <2>3 DEF TotalInv
  <2>5. counts' = Put(counts, k, n) /\ seen' = [seen EXCEPT !.summary = Append(@, m)]
    BY <1>2, <2>1, <2>2, <2>3 DEF internalRecordEvaluation, SummaryInv
  <2>6. /\ DOMAIN counts' = DOMAIN counts \cup {k}
        /\ \A x \in DOMAIN counts \ {k} : counts'[x] = counts[x]
        /\ counts'[k] = n
    BY <2>5 DEF Put, Merge
  <2>7. seen'.summary = Append(seen.summary, m)
    BY <2>5 DEF SummaryInv
  <2>8. Len(seen'.summary) = Len(seen.summary) + 1
    <3>1. seen.summary \in Seq(ToSet(seen.summary) \cup {m})
      BY DEF SummaryInv, IsSequence
    <3> QED
      BY <2>7, <3>1
  <2>9. Counted' = Counted \cup {<<n, k>>} /\ <<n, k>> \notin Counted
    <3>1. ASSUME NEW i \in Nat, NEW x
          PROVE  /\ <<i, x>> \in Counted' <=> <<i, x>> \in Counted \/ (i = n /\ x = k)
                 /\ <<n, k>> \notin Counted
      <4>1. CASE x = k
        BY <2>4, <2>6, <4>1 DEF Counted, TotalInv
      <4>2. CASE x # k
        BY <2>4, <2>6, <4>2 DEF Counted, TotalInv
      <4> QED
        BY <4>1, <4>2
    <3>2. ASSUME NEW y \in Counted' \cup Counted \cup {<<n, k>>}
          PROVE  \E i \in Nat : \E x : y = <<i, x>>
      BY <2>4 DEF Counted
    <3> QED
      BY <2>4, <3>1, <3>2
  <2>10. IsFiniteSet(Counted') /\ Cardinality(Counted') = Cardinality(Counted) + 1
    BY <2>9, FS_AddElement DEF TotalInv
  <2>11. \A x \in DOMAIN counts' : counts'[x] \in Nat
    BY <2>4, <2>6 DEF TotalInv
  <2> QED
    BY <2>8, <2>10, <2>11 DEF TotalInv
<1>3. CASE internalRecordContext
  <2>1. counts' = counts /\ (seen' = seen \/ \E e, t : \/ seen' = [seen EXCEPT !.shape = t]
                                 \/ seen' = [seen EXCEPT !.example = e, !.shape = t])
    BY <1>3 DEF internalRecordContext, aggregated
  <2>2. seen'.summary = seen.summary
    BY <2>1 DEF SummaryInv
  <2> QED
    BY <1>1, <2>1, <2>2
<1>4. CASE Submit
  <2>1. counts' = <<>> /\ seen'.summary = <<>>
    BY <1>4 DEF Submit
  <2>2. DOMAIN counts' = {} /\ Counted' = {}
    BY <2>1 DEF Counted
  <2> QED
    BY <2>1, <2>2, FS_EmptySet DEF TotalInv
<1>5. CASE CallerStep
  BY <1>1, <1>5 DEF CallerStep, SetNamedContext, ChangeValues, WithContext, GetValue,
                    GetConfigMatch, ResolveValue, aggregated
<1> QED
  BY <1>1, <1>2, <1>3, <1>4, <1>5, Steps DEF Aggregate, vars, aggregated

\* Each grouping key has a counter of its own.
LEMMA CountersAreDistinct ==
    ASSUME SummaryInv, TotalInv
    PROVE  Cardinality(UNION {{<<i, c>> : i \in 1 .. c.count} : c \in Counters}) = Len(seen.summary)
<1> DEFINE Counter(k) == [match |-> matches[k], count |-> counts[k]]
           Reported == UNION {{<<i, c>> : i \in 1 .. c.count} : c \in Counters}
           f == [p \in Counted |-> <<p[1], Counter(p[2])>>]
<1>1. Counters = {Counter(k) : k \in DOMAIN matches}
  <2>1. ASSUME NEW c \in Counters PROVE \E k \in DOMAIN matches : c = Counter(k)
    BY DEF Counters, Summaries
  <2>2. ASSUME NEW k \in DOMAIN matches PROVE Counter(k) \in Counters
    <3> DEFINE kt == <<matches[k].config.key, matches[k].config.type>>
               counters == {[match |-> matches[j], count |-> counts[j]] : j \in
                              {j \in DOMAIN matches : <<matches[j].config.key, matches[j].config.type>> = kt}}
               s == [key |-> kt[1], type |-> kt[2], counters |-> counters]
    <3>1. s \in Summaries
      BY DEF Summaries
    <3>2. Counter(k) \in s.counters
      OBVIOUS
    <3> QED
      BY <3>1, <3>2 DEF Counters
  <2> QED
    BY <2>1, <2>2
<1>2. Reported = {<<p[1], Counter(p[2])>> : p \in Counted}
  <2>1. ASSUME NEW y \in Reported PROVE \E p \in Counted : y = <<p[1], Counter(p[2])>>
    <3>1. PICK k \in DOMAIN matches : y \in {<<i, Counter(k)>> : i \in 1 .. counts[k]}
      BY <1>1
    <3>2. PICK i \in 1 .. counts[k] : y = <<i, Counter(k)>>
      BY <3>1
    <3>3. <<i, k>> \in Counted
      BY DEF Counted, SummaryInv, TotalInv
    <3> QED
      BY <3>2, <3>3
  <2>2. ASSUME NEW p \in Counted PROVE <<p[1], Counter(p[2])>> \in Reported
    <3>1. p[2] \in DOMAIN matches /\ p[1] \in 1 .. counts[p[2]]
      BY DEF Counted, SummaryInv
    <3>2. Counter(p[2]) \in Counters
      BY <1>1, <3>1
    <3>3. <<p[1], Counter(p[2])>> \in {<<i, Counter(p[2])>> : i \in 1 .. Counter(p[2]).count}
      BY <3>1
    <3> QED
      BY <3>2, <3>3
  <2> QED
    BY <2>1, <2>2
<1>3. ASSUME NEW p \in Counted, NEW q \in Counted, f[p] = f[q] PROVE p = q
  <2>1. /\ p = <<p[1], p[2]>> /\ q = <<q[1], q[2]>>
        /\ p[2] \in DOMAIN matches /\ q[2] \in DOMAIN matches
    BY DEF Counted, SummaryInv
  <2>2. p[1] = q[1] /\ Counter(p[2]) = Counter(q[2])
    BY <1>3
  <2>3. matches[p[2]] = matches[q[2]]
    BY <2>2
  <2>4. GroupingKey(matches[p[2]]) = p[2] /\ GroupingKey(matches[q[2]]) = q[2]
    BY <2>1 DEF SummaryInv
  <2> QED
    BY <2>1, <2>2, <2>3, <2>4
<1>4. f \in Bijection(Counted, Reported)
  <2>1. f \in [Counted -> Reported]
    BY <1>2
  <2>2. \A y \in Reported : \E p \in Counted : f[p] = y
    BY <1>2
  <2> HIDE DEF f, Reported
  <2> QED
    BY <1>3, <2>1, <2>2 DEF Bijection, Injection, Surjection, IsInjective
<1>5. Cardinality(Reported) = Cardinality(Counted)
  BY <1>4, FS_Bijection DEF TotalInv, ExistsBijection
<1> QED
  BY <1>5 DEF TotalInv

\* Each match of a config that has an id is counted, as often as it came since the
\* last submission and no more, under the key and type of its config, whatever
\* other matches of the same config, or of the same value, came between.
THEOREM MatchesAreCounted ==
    ASSUME UniqueIds
    PROVE  Spec => []EachMatchIsCounted
<1>1. Init => MatchInv /\ SummaryInv
  <2>1. IsSequence(<<>>) /\ ToSet(<<>>) = {}
    BY DEF IsSequence, ToSet
  <2> QED
    BY <2>1 DEF Init, Idle, MatchInv, SummaryInv
<1>2. BindingInv /\ MatchInv /\ SummaryInv /\ [Next]_vars => MatchInv' /\ SummaryInv'
  BY MatchInvStep, SummaryInvStep
<1>3. SummaryInv => EachMatchIsCounted
  <2> SUFFICES ASSUME SummaryInv, NEW m \in Range(seen.summary), m.config.id # 0
               PROVE  \E s \in Summaries :
                         /\ s.key = m.config.key /\ s.type = m.config.type
                         /\ [match |-> m,
                             count |-> Cardinality({i \in DOMAIN seen.summary : seen.summary[i] = m})]
                                \in s.counters
    BY DEF EachMatchIsCounted
  <2> DEFINE k == GroupingKey(m)
             kt == <<m.config.key, m.config.type>>
             counters == {[match |-> matches[j], count |-> counts[j]] : j \in
                            {j \in DOMAIN matches : <<matches[j].config.key, matches[j].config.type>> = kt}}
             s == [key |-> kt[1], type |-> kt[2], counters |-> counters]
  <2>1. m \in ToSet(seen.summary) /\ IsMatch(m) /\ k \in DOMAIN matches
    BY DEF SummaryInv, Range, ToSet
  <2>2. matches[k] = m
    BY <2>1, SameKeySameMatch DEF SummaryInv
  <2>3. Having(k, seen.summary) =
        {i \in DOMAIN seen.summary : seen.summary[i] = m}
    <3>1. \A i \in DOMAIN seen.summary : GroupingKey(seen.summary[i]) = k => seen.summary[i] = m
      BY <2>1, SameKeySameMatch DEF SummaryInv, ToSet
    <3> QED
      BY <3>1 DEF Having
  <2>4. counts[k] = Cardinality({i \in DOMAIN seen.summary : seen.summary[i] = m})
    BY <2>1, <2>3 DEF SummaryInv
  <2>5. s \in Summaries
    BY <2>1, <2>2 DEF Summaries
  <2>6. [match |-> m, count |-> counts[k]] \in counters
    BY <2>1, <2>2
  <2>7. s.key = m.config.key /\ s.type = m.config.type /\ s.counters = counters
    OBVIOUS
  <2> QED
    BY <2>4, <2>5, <2>6, <2>7
<1> QED
  BY <1>1, <1>2, <1>3, BindingInvAlways, PTL DEF Spec

\* Whatever ids the configs have, no match is lost and none is counted twice.
LEMMA TotalIsRight ==
    Spec => [](Cardinality(UNION {{<<i, c>> : i \in 1 .. c.count} : c \in Counters})
                 = Len(seen.summary))
<1>1. Init => MatchInv /\ SummaryInv /\ TotalInv
  <2>1. IsSequence(<<>>) /\ ToSet(<<>>) = {} /\ Len(<<>>) = 0
    BY DEF IsSequence, ToSet
  <2>2. Init => Counted = {}
    BY DEF Init, Counted
  <2>3. Init => MatchInv /\ SummaryInv
    BY <2>1 DEF Init, Idle, MatchInv, SummaryInv
  <2>4. ASSUME Init PROVE TotalInv
    <3>1. seen.summary = <<>> /\ DOMAIN counts = {}
      BY <2>4 DEF Init
    <3>2. Cardinality(Counted) = 0 /\ IsFiniteSet(Counted)
      BY <2>2, <2>4, FS_EmptySet
    <3> QED
      BY <2>1, <3>1, <3>2 DEF TotalInv
  <2> QED
    BY <2>3, <2>4
<1>2. BindingInv /\ MatchInv /\ SummaryInv /\ TotalInv /\ [Next]_vars
        => MatchInv' /\ SummaryInv' /\ TotalInv'
  BY MatchInvStep, SummaryInvStep, TotalInvStep
<1> QED
  BY <1>1, <1>2, BindingInvAlways, CountersAreDistinct, PTL DEF Spec

\* The summaries' counts add up to the matches that were recorded since the last
\* submission, and each match of a config that has an id is counted as what it is
\* (evaluation_summary_aggregator.go).
THEOREM SummariesAddUp ==
    ASSUME UniqueIds
    PROVE  Spec => []SummariesCountEveryMatch
<1>1. EachMatchIsCounted
        /\ Cardinality(UNION {{<<i, c>> : i \in 1 .. c.count} : c \in Counters})
             = Len(seen.summary)
        => SummariesCountEveryMatch
  BY DEF SummariesCountEveryMatch
<1> QED
  BY <1>1, TotalIsRight, MatchesAreCounted, PTL

=============================================================================
