---------------------------- MODULE MCNewClient ----------------------------
(* NewClient on small instances. *)
EXTENDS SourceValues, TLC

Val(kind, v) == [kind |-> kind, v |-> v]

Scalar == Val("int", "7")
Text   == Val("string", "blue")
Level  == Val("string", "warn")
Tree(m) == Val("map", m)

a == <<"a">>
b == <<"b">>

\* Nested maps, one key given by two paths, and a value for a map itself.
NestedTree == Tree(
    (a :> Tree((<<"_">> :> Text) @@ (b :> Scalar) @@ (<<"c">> :> Val("slice", <<Text, Text>>)))) @@
    (<<"a", "b">> :> Text) @@ (<<"log-level">> :> Tree((<<"_">> :> Level) @@ (b :> Level))))

Nils == Val("slice", <<Val("nil", NoValue)>>)

\* A flag within a map, and flags without a value that can be converted; a map
\* that would be a flag but is under "_".
FlagTree(value) == Tree(
    (a :> Tree((b :> Tree((<<"feature_flag">> :> Val("string", "true")) @@ value)) @@ (<<"c">> :> Tree(<<>>))
               @@ (<<"_">> :> Tree((<<"feature_flag">> :> Text) @@ (<<"value">> :> Text))))) @@
    (b :> Scalar))

Conf(k, value) == [key |-> k, configType |-> "CONFIG", valueType |-> value.kind, value |-> value]

JsonFile(configs, id) == [suffix |-> "json", content |-> [configs |-> configs, projectEnvID |-> id]]
YamlFile(tree) == [suffix |-> "yaml", content |-> tree]

MCFile ==
    [nested  |-> YamlFile(NestedTree),
     flag    |-> YamlFile(FlagTree(<<"value">> :> Text)),
     noValue |-> YamlFile(FlagTree(<<>>)),
     badFlag |-> YamlFile(FlagTree(<<"value">> :> Val("nil", NoValue))),
     nils    |-> YamlFile(Tree(a :> Nils)),
     level   |-> YamlFile(Tree(<<"log-level">> :> Scalar)),
     levels  |-> YamlFile(Tree(<<"log-level">> :> Tree((<<"_">> :> Nils) @@ (b :> Nils)))),
     levelFlag |-> YamlFile(Tree(<<"log-level">> :>
                    Tree((<<"feature_flag">> :> Text) @@ (<<"value">> :> Nils)))),
     empty   |-> YamlFile(Tree(a :> Val("slice", <<>>))),
     json    |-> JsonFile(<<Conf(a, Create(Scalar)), Conf(b, Create(Text)), Conf(a, Create(Text))>>, 5),
     bare    |-> JsonFile(<<>>, NoValue),
     torn    |-> [suffix |-> "yml", content |-> NoValue],
     other   |-> [suffix |-> "txt", content |-> NoValue],
     dump    |-> [suffix |-> "", content |-> [wrappers |->
                    <<[config |-> Conf(a, Create(Scalar)), deleted |-> FALSE],
                      [config |-> Conf(<<"d">>, Create(Text)), deleted |-> TRUE]>>]]]

MCServerConfigs == (a :> Conf(a, Create(Val("bool", "true")))) @@ (<<"d">> :> Conf(<<"d">>, Create(Text)))

\* The keys and paths of all of these, and some that none has.
MCName == {a, b, <<"c">>, <<"d">>, <<"_">>, <<"a", "b">>, <<"a", "c">>, <<"a", "_">>,
           <<"log-level">>, <<"log-level", "b">>, <<"log-level", "_">>}

BaseEnv == [apiKey |-> "", apiURL |-> <<>>, override |-> "", datafile |-> ""]

MCEnv == {BaseEnv, [BaseEnv EXCEPT !.apiKey = "key"], [BaseEnv EXCEPT !.apiURL = <<"", "">>],
          [BaseEnv EXCEPT !.override = "url"], [BaseEnv EXCEPT !.datafile = "json"]}

Raw(protocol, path) == [protocol |-> protocol, path |-> path]
Data(path) == Raw("datafile", path)

With(name, value) == [with |-> name, arg |-> value]
Offline(raws) == With("OfflineSources", raws)
Sources_(raws, excludeDefault) == With("Sources", [raws |-> raws, excludeDefault |-> excludeDefault])

\* A map of configs with every kind of value; durations of 45 s and a half, of
\* a minute and 2.5 s, of 29 days and 59.5 s, and of a year.
Durations == {91, 125, 29 * Day + 119, Year}

ConfigsOf(x) == With("Configs", (a :> x))

MCValues ==
    {Scalar, Text, Val("strings", <<"x", "y">>), Val("bytes", "bytes"), Val("bool", "true"),
     Val("float", "1.5"), Val("logLevel", "warn"), Val("slice", <<Text, Text>>),
     Val("slice", <<Text, Scalar>>), Val("slice", <<>>), Nils,
     Val("map", [n |-> Scalar, s |-> Text]), Val("map", [n |-> Val("other", "chan")]),
     Val("configValue", Val("Json", Null)), Val("config", Conf(b, Create(Text))),
     Val("nil", NoValue), Val("other", "uint")}
    \cup {Val("duration", d) : d \in Durations}

TwoConfigs == With("Configs", (a :> Scalar) @@ (b :> Val("bool", "true")))

SyncAt(interval) == With("TelemetrySyncInterval", interval)

\* Intervals of telemetry, with telemetry and without, and with other failures.
MCIntervals ==
    {<<SyncAt(1)>>, <<SyncAt(0)>>, <<SyncAt(-1), Offline(<<Data("json")>>)>>,
     <<SyncAt(0), Offline(<<Data("json")>>), With("CollectEvaluationSummaries", FALSE)>>,
     <<With("AllTelemetryDisabled", TRUE), SyncAt(0)>>,
     <<SyncAt(0), TwoConfigs>>, <<SyncAt(0), TwoConfigs, Sources_(<<Data("json")>>, FALSE)>>,
     <<SyncAt(0), Offline(<<Data("missing")>>)>>, <<SyncAt(0), Offline(<<>>)>>}

MCGiven ==
    {<<ConfigsOf(x)>> : x \in MCValues} \cup
    {<<>>, <<With("APIKey", "key")>>, <<With("APIKey", "wrong"), With("AllTelemetryDisabled", TRUE)>>,
     <<With("APIURLs", <<>>)>>, <<With("APIURLs", <<"">>), With("APIKey", "key")>>,
     <<TwoConfigs>>, <<TwoConfigs, Sources_(<<Data("json")>>, FALSE)>>,
     <<Sources_(<<Data("json")>>, FALSE), TwoConfigs>>,
     <<TwoConfigs, Offline(<<MemoryStoreKey, Data("json")>>)>>,
     <<TwoConfigs, Offline(<<Raw("memory", "other")>>)>>,
     <<With("APIKey", "key"), Sources_(<<Data("nested")>>, FALSE)>>,
     <<Offline(<<>>)>>, <<Offline(<<Data("nested"), Data("flag"), Data("json")>>)>>,
     <<Offline(<<Data("json"), Data("nested")>>), With("ContextTelemetryMode", "Shapes")>>,
     <<Sources_(<<Raw("redis", "x")>>, TRUE)>>, <<Offline(<<Raw("redis", "x")>>)>>,
     <<With("ProjectEnvID", 5), Offline(<<Raw("dump", "dump"), Data("flag")>>)>>,
     <<Offline(<<Raw("dump", "dump")>>)>>, <<Offline(<<Raw("dump", "missing")>>)>>}
    \cup {<<Offline(<<Data(path)>>)>> : path \in (DOMAIN MCFile \ {"dump"}) \cup {"missing"}}
    \cup MCIntervals

\* The key in the environment and nothing else.
KeyInEnv == {[BaseEnv EXCEPT !.apiKey = "key"]}
NoOptions == {<<>>}
=============================================================================
