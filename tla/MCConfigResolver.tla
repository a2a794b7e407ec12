-------------------------- MODULE MCConfigResolver --------------------------
(***************************************************************************)
(* An instance of the evaluation for TLC: two versions of a store whose    *)
(* segments refer to each other, the other way round in each version.      *)
(***************************************************************************)
EXTENDS ConfigResolver, MCCriteria

-----------------------------------------------------------------------------
\* Stores

Keys == {"local", "flag", "staff", "beta", "cipher", "key", "split", "home", "gone"}
Properties == {"plan", "now"}
Nobody == [p \in Properties |-> Absent]
OnPlan(t) == [Nobody EXCEPT !["plan"] = Text(t)]
MCPassedContexts == { Nobody, OnPlan("a"), OnPlan("b") }

Row(env, values) == [env |-> env, values |-> values]
If(criteria, value) == [criteria |-> criteria, value |-> value]
Otherwise(value) == If(<<>>, value)
Config(type, rows) == [type |-> type, rows |-> rows]
Test(op, p, match) == [op |-> op, property |-> p, match |-> match]
PlanIs(op, t) == Test(op, "plan", [kind |-> "strings", is |-> <<t>>])
Seg(op, k) == Test(op, "plan", Text(k))
Bool(b) == Plain("bool", b)
Confidential(v) == [v EXCEPT !.confidential = TRUE]

OnPlanA == Config("bool", << Row(<<>>, << If(<<PlanIs("PROP_IS_ONE_OF", "a")>>, Bool(TRUE)),
                                          Otherwise(Bool(FALSE)) >>) >>)

Flag == Config("string",
    << Row(<<>>, << If(<<Test("PROP_AFTER", "now", Text("day5"))>>, Plain("string", "late")),
                    If(<<Seg("NOT_IN_SEG", "gone"), Seg("NOT_IN_SEG", "local")>>,
                        Plain("string", "early")) >>),
       Row(<<2>>, << Otherwise(Plain("string", "elsewhere")) >>),
       Row(<<1>>, << If(<<Seg("IN_SEG", "staff"), Seg("NOT_IN_SEG", "beta")>>,
                        Plain("string", "staff")),
                     If(<<Seg("IN_SEG", "beta"), PlanIs("PROP_IS_NOT_ONE_OF", "b")>>,
                        Plain("string", "beta")) >>) >>)

Variants(weights) ==
    [weights |-> weights, hashBy |-> "plan",
     values |-> << Plain("string", "x"), Plain("string", "y"), Plain("string", "z") >>]

\* Version 1: staff asks for beta, the secret key is there for plan "a" only.
Version1 == [k \in Keys |->
    CASE k = "flag"   -> Flag
      [] k = "beta"   -> OnPlanA
      [] k = "staff"  -> Config("bool",
                            << Row(<<1>>, << If(<<Seg("NOT_IN_SEG", "beta")>>, Bool(TRUE)) >>) >>)
      [] k = "cipher" -> Config("string", << Row(<<>>, <<
                            Otherwise([Plain("string", "c") EXCEPT !.decryptWith = "key"]) >>) >>)
      [] k = "key"    -> Config("string", << Row(<<1>>, <<
                            If(<<PlanIs("PROP_IS_ONE_OF", "a")>>, Plain("json", "quoted k")),
                            If(<<PlanIs("PROP_IS_ONE_OF", "b")>>, Plain("provided", "HOST")) >>) >>)
      [] k = "split"  -> Config("string", << Row(<<>>, <<
                            If(<<PlanIs("PROP_IS_ONE_OF", "b")>>, Plain("weighted", Variants(<<4, 0, 3>>))),
                            Otherwise(Confidential(Plain("weighted", Variants(<<0, 1, 3>>)))) >>) >>)
      [] k = "gone"   -> OnPlanA
      [] k = "home"   -> Config("int", << Row(<<>>, <<
                            If(<<PlanIs("PROP_IS_ONE_OF", "b")>>, Plain("provided", "WORD")),
                            Otherwise(Confidential(Plain("provided", "SIX"))) >>) >>)
      [] OTHER        -> NoConfig]

\* Version 2: beta asks for staff, the secret key may be an int or a variable that
\* only the client's lookup has, and two configs are deleted.
Version2 == [Version1 EXCEPT
    !["staff"] = OnPlanA,
    !["beta"]  = Config("bool", << Row(<<>>, <<
                    If(<<Seg("IN_SEG", "staff")>>, Bool(FALSE)), Otherwise(Bool(TRUE)) >>) >>),
    !["key"]   = Config("string", << Row(<<1>>, <<
                    If(<<PlanIs("PROP_STARTS_WITH_ONE_OF", "a")>>, Plain("string", "k")),
                    If(<<Test("PROP_AFTER", "now", Text("day5"))>>, Plain("int", 6)),
                    If(<<PlanIs("PROP_STARTS_WITH_ONE_OF", "b")>>, Plain("provided", "SIX")) >>) >>),
    !["cipher"] = Config("string", << Row(<<>>, <<
                    If(<<PlanIs("PROP_IS_ONE_OF", "b")>>,
                       [Plain("string", "c") EXCEPT !.decryptWith = "gone"]),
                    Otherwise([Plain("string", "short") EXCEPT !.decryptWith = "key"]) >>) >>),
    !["split"] = NoConfig,
    !["gone"]  = NoConfig,
    !["home"]  = Config("bool", << Row(<<>>, <<
                    If(<<PlanIs("PROP_ENDS_WITH_ONE_OF", "a")>>, Plain("provided", "WORD")),
                    If(<<PlanIs("PROP_ENDS_WITH_ONE_OF", "b")>>, Plain("provided", "YES")),
                    Otherwise(Plain("provided", "UNSET")) >>) >>)]

Store(configs, envID, context) ==
    [configs |-> configs, projectEnvID |-> envID, context |-> context]

MCApiContents == { Store(Version1, 1, Nobody), Store(Version2, 1, OnPlan("a")) }

Local == Config("double", << Row(<<>>, << Otherwise(Plain("provided", "SIX")) >>) >>)

\* A file with one config, the API, and another file that they shadow.
MCStores ==
    << Store([k \in Keys |-> IF k = "local" THEN Local ELSE NoConfig], 0, Nobody),
       Store(Version1, 1, Nobody),
       Store([k \in Keys |-> IF k \in {"split", "staff"}
                             THEN Config("string", << Row(<<1>>, <<Otherwise(Plain("string", "old"))>>) >>)
                             ELSE NoConfig], 2, Nobody) >>

MCLookupEnv(name) ==
    CASE name = "SIX" -> "6" [] name = "WORD" -> "word" [] name = "YES" -> "t" [] OTHER -> NoText

MCOSLookupEnv(name) == IF name = "HOST" THEN "word" ELSE NoText

MCJsonText(json) == IF json = "quoted k" THEN "k" ELSE NoText

MCParseFloat(t) == IF t = "6" THEN 6 ELSE NoText

\* A text of 16 bytes and its tag, and one that is shorter than a tag.
MCParts(text) ==
    CASE text = "c"     -> <<"data", "iv", "tag">>
      [] text = "short" -> <<"few", "iv", "few">>
      [] OTHER          -> <<text>>

MCHexDigits(text) ==
    CASE text = "k" -> 64 [] text \in {"data", "tag"} -> 32 [] text = "iv" -> 24
      [] text = "few" -> 3 [] OTHER -> -1

MCOpenGCM(k, text) == IF text = "c" THEN "clear" ELSE NoText
\* What the theorems on nesting and on confidential values suppose.
ASSUME MCAssumption == NoCircles /\ OnlyTextsAreEncrypted

MCSum32(k, v) == IF v.is = "a" THEN 255 ELSE 43
=============================================================================
