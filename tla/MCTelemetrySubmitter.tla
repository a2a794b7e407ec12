------------------------ MODULE MCTelemetrySubmitter ------------------------
(* TelemetrySubmitter on small instances. *)
EXTENDS TelemetrySubmitter, TLC

\* Every context has the key of the others.
SameKey == [c \in Context |-> "key"]

\* No context has a key.
KeyLess == [c \in Context |-> NoKey]

OptionsOf(modes, summaries) ==
    {[contextTelemetryMode |-> m, collectEvaluationSummaries |-> s] :
        m \in modes, s \in summaries}

\* Every combination of the options.
AllOptions == OptionsOf({"PeriodicExample", "Shapes", "None"}, BOOLEAN)

\* Shapes with or without summaries, or no telemetry at all.
ShapesOrNothing ==
    OptionsOf({"Shapes"}, BOOLEAN) \cup OptionsOf({"None"}, {FALSE})

\* Summaries and nothing else.
SummariesOnly == OptionsOf({"None"}, {TRUE})

\* Items of a kind are interchangeable.
ItemSymmetry == Permutations(Evaluation) \cup Permutations(Context)
=============================================================================
