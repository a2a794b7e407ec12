---------------------------- MODULE ConfigReplica ----------------------------
(***************************************************************************)
(* What the API store promises the evaluations that read it: the configs   *)
(* it shows are, at every moment, exactly those the server had live at one *)
(* position of its log, and that position only moves forward.              *)
(***************************************************************************)
EXTENDS Integers, Sequences

CONSTANT Key

VARIABLES
    log,       \* the versions the server published
    view,      \* key -> id of the version shown, or Absent
    position   \* the prefix of the log that the view reflects

vars == <<log, view, position>>

Absent == 0

\* v is what a reader of the first n versions finds under key k.
IsSnapshot(v, n, k) ==
    \/ /\ v \in 1 .. n /\ log[v].key = k /\ log[v].rows
       /\ \A j \in (v + 1) .. n : log[j].key # k
    \/ /\ v = Absent
       /\ \A i \in 1 .. n : log[i].key = k /\ log[i].rows =>
             \E j \in (i + 1) .. n : log[j].key = k

Init ==
    /\ log = <<>>
    /\ view = [k \in Key |-> Absent]
    /\ position = 0

Publish ==
    /\ \E k \in Key, rows \in BOOLEAN :
          log' = Append(log, [key |-> k, rows |-> rows])
    /\ UNCHANGED <<view, position>>

Advance ==
    /\ UNCHANGED log
    /\ position' >= position
    /\ position' <= Len(log)
    /\ DOMAIN view' = Key
    /\ \A k \in Key : IsSnapshot(view'[k], position', k)

Next == Publish \/ Advance

Spec == Init /\ [][Next]_vars
=============================================================================
