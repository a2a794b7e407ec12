---------------------------- MODULE ClientOptions ----------------------------
(***************************************************************************)
(* The options of a client: their defaults, what each With... option does  *)
(* to them, and what is read from the environment later.                   *)
(*                                                                         *)
(* env is a record of the variables PREFAB_API_KEY, PREFAB_API_URL (split  *)
(* at its commas), PREFAB_API_URL_OVERRIDE and PREFAB_DATAFILE; "" and     *)
(* <<>> stand for unset.                                                   *)
(***************************************************************************)
EXTENDS Sequences, SequencesExt, ConfigValues

MemoryStoreKey == [protocol |-> "memory", path |-> "configs"]

\* raw is the source as it was given, [protocol, path].
Source(store, raw) == [store |-> store, raw |-> raw, path |-> raw.path]

GetDefaultConfigSources == <<Source("API", [protocol |-> "api", path |-> "prefab"])>>

StoreOfProtocol == [datafile |-> "DataFile", dump |-> "ConfigDump", memory |-> "Memory"]

ParseConfigSource(raw) ==
    IF raw.protocol \in DOMAIN StoreOfProtocol
    THEN Source(StoreOfProtocol[raw.protocol], raw) ELSE NoValue

GetDefaultAPIURLs == <<"belt", "suspenders">>

GetDefaultOptions(env) ==
    [APIKey |-> "",
     APIURLs |-> IF env.override = "" THEN NoValue ELSE <<env.override>>,
     Sources |-> IF env.datafile = "" THEN GetDefaultConfigSources
                 ELSE <<Source("DataFile", [protocol |-> "", path |-> env.datafile])>>,
     Configs |-> <<>>,
     ProjectEnvID |-> 0,
     GlobalContext |-> "empty",
     InitializationTimeoutSeconds |-> 10,
     OnInitializationFailure |-> "ReturnError",
     ContextTelemetryMode |-> "PeriodicExample",
     CollectEvaluationSummaries |-> TRUE,
     TelemetrySyncInterval |-> 60,
     TelemetryHost |-> "telemetry",
     CustomEnvLookup |-> "os"]

-----------------------------------------------------------------------------
\* Options.  The result is NoValue if the option returns an error.

\* Operators named ...Mistake are plausible errors in the definition that
\* follows them; the properties are checked to tell them apart.

WithSources(o, raws, excludeDefault) ==
    LET parsed == [i \in DOMAIN raws |-> ParseConfigSource(raws[i])]
    IN  IF NoValue \in ToSet(parsed) THEN NoValue
        ELSE [o EXCEPT !.Sources = parsed \o IF excludeDefault THEN <<>>
                                             ELSE GetDefaultConfigSources]

WithOfflineSourcesLoudMistake(o, raws) == WithSources(o, raws, TRUE)

WithOfflineSources(o, raws) ==
    WithSources([o EXCEPT !.ContextTelemetryMode = "None"], raws, TRUE)

WithConfigs(o, configs) ==
    [WithOfflineSources(o, <<MemoryStoreKey>>) EXCEPT !.Configs = configs]

WithAllTelemetryDisabled(o) ==
    [o EXCEPT !.ContextTelemetryMode = "None", !.CollectEvaluationSummaries = FALSE]

\* An option is [with, arg]; most set the field of their name.
Apply(o, option) ==
    CASE option.with = "Sources" ->
            WithSources(o, option.arg.raws, option.arg.excludeDefault)
      [] option.with = "OfflineSources"       -> WithOfflineSources(o, option.arg)
      [] option.with = "Configs"              -> WithConfigs(o, option.arg)
      [] option.with = "AllTelemetryDisabled" -> WithAllTelemetryDisabled(o)
      [] OTHER                                -> [o EXCEPT ![option.with] = option.arg]

-----------------------------------------------------------------------------
\* What the options say

TelemetryEnabled(o) ==
    o.CollectEvaluationSummaries \/ o.ContextTelemetryMode # "None"

\* The key, or NoValue if there is none; the caller's copy of the options has
\* it afterwards.
APIKeySettingOrEnvVar(o, env) ==
    CASE o.APIKey # ""   -> o.APIKey
      [] env.apiKey # "" -> env.apiKey
      [] OTHER           -> NoValue

NotEmpty(url) == url # ""

PrefabAPIURLEnvVarOrSetting(o, env) ==
    CASE env.apiURL # <<>> ->
            IF SelectSeq(env.apiURL, NotEmpty) = <<>> THEN NoValue
            ELSE SelectSeq(env.apiURL, NotEmpty)
      [] env.apiURL = <<>> /\ o.APIURLs = NoValue -> GetDefaultAPIURLs
      [] env.apiURL = <<>> /\ o.APIURLs # NoValue ->
            IF env.override # "" THEN <<env.override>>
            ELSE SelectSeq(o.APIURLs, NotEmpty)
=============================================================================
