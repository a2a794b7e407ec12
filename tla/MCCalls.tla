------------------------------- MODULE MCCalls -------------------------------
(* Calls on small instances. *)
EXTENDS Calls

CONSTANTS c1, c2

Val(kind, v) == [kind |-> kind, v |-> v]
Str(v) == Val("string", v)

key  == <<"key">>
tier == <<"plan", "tier">>

\* ann and bob are users, crew a team without a key; odd has a key that is no
\* string, and nils a list of nils.
MCNamedContext == {"bob"}
MCGivenToBind == {("user" :> "bob") @@ ("" :> "flat") @@ ("team" :> "crew")}
MCGivenToCall == {<<>>, "user" :> "ann", "user" :> "odd", "team" :> "nils"}
MCName == [ann |-> "user", bob |-> "user", crew |-> "team", flat |-> "", odd |-> "user", nils |-> "team"]

MCData ==
    [ann  |-> (key :> Str("1")) @@ (tier :> Str("gold")),
     bob  |-> (key :> Str("2")) @@ (tier :> Val("int", "3")) @@ (<<"x">> :> Val("other", "uint")),
     crew |-> (<<"list">> :> Val("slice", <<Val("int", "1")>>)) @@ (<<"ok">> :> Val("bool", "true")),
     flat |-> (<<"size">> :> Val("float", "1.5")) @@ (<<"names">> :> Val("slice", <<Str("y")>>)),
     odd  |-> (key :> Val("int", "5")),
     nils |-> <<"list">> :> Val("slice", <<Val("nil", NoValue)>>)]

MCWritten == [ann |-> (key :> Str("1")) @@ (tier :> Str("blue"))]

Conf(k, id, property, expects, then, weighted, otherwise) ==
    [key |-> k, id |-> id, type |-> IF id = 3 THEN "FEATURE_FLAG" ELSE "CONFIG", property |-> property,
     expects |-> expects, then |-> then, weighted |-> weighted, otherwise |-> otherwise]

On  == [kind |-> "Bool", v |-> "true"]
Off == [kind |-> "Bool", v |-> "false"]

\* The last two have no id: where neither finds its value, they yield the same.
Rollout == Conf("rollout", 3, <<"user", "plan", "tier">>, Str("gold"), On, 0, On)
Local   == Conf("local", 0, <<"size">>, Val("float", "1.5"), On, NoValue, Off)
Level   == Conf("log-level", 0, <<"user", "key">>, Str("1"), [kind |-> "LogLevel", v |-> "warn"], NoValue, Off)

MCConfig == {Rollout, Local, Level}
MCMode == {"PeriodicExample", "Shapes", "None"}
MCGlobal == "user" :> "ann"
MCSymmetry == Permutations(Caller)
=============================================================================
