------------------------------ MODULE NewClient ------------------------------
(***************************************************************************)
(* What client NewClient makes of the options it is given, the environment *)
(* and the files: the options are applied in order, a store is built for   *)
(* each source - parsing YAML in the random order of Go's maps - and the   *)
(* client answers from the stores in turn.  The typed getters are          *)
(* operators over the stores.  What the sources mean is in SourceValues.   *)
(*                                                                         *)
(* A config stands for the one value that its rules yield (ConfigResolver  *)
(* models rules).  When calls may ask is the matter of ClientInit, and how *)
(* the API store is kept up to date that of ApiConfigStore.                *)
(***************************************************************************)
EXTENDS Integers, Sequences, FiniteSetsExt, ConfigValues, ClientOptions

CONSTANTS
    Env,             \* the environments a client may start in
    Given,           \* the sequences of options it may be given
    File,            \* the files that exist, by their paths
    LogLevelName,    \* the strings that name a log level
    ServerConfigs,   \* the configs the API serves
    AcceptedKey      \* the API key it accepts

\* A file is [suffix, content].  The content is [configs, projectEnvID] for
\* JSON, with an id of NoValue if the file has no config service pointer; a
\* tree of nodes for YAML; [wrappers] for a dump; and NoValue if it does not
\* decode.  No other content decodes as a dump.
\*
\* Keys are sequences of the segments between their dots.  A node of YAML is a
\* Go value; a map has such sequences as names, for a name may have dots.

VARIABLES
    env, given,      \* the environment, and the options of the caller
    applied,         \* how many of them are applied
    options,
    pc,              \* where NewClient is
    stores,          \* a sequence of [configMap, projectEnvID]
    frames,          \* YAML: the maps being iterated, outermost first
    parsed,          \* YAML: the configs so far
    credentials      \* the API key that each service is asked with

vars == <<env, given, applied, options, pc, stores, frames, parsed, credentials>>

Init ==
    /\ env \in Env
    /\ given \in Given
    /\ applied = 0
    /\ options = GetDefaultOptions(env)
    /\ pc = "options"
    /\ stores = <<>> /\ frames = <<>> /\ parsed = <<>>
    /\ credentials = [service \in {"http", "sse", "telemetry"} |-> NoValue]

\* Operators named ...Mistake are plausible errors in the definition that
\* follows them; the properties are checked to tell them apart.

ApplyOption ==
    /\ pc = "options"
    /\ applied < Len(given)
    /\ applied' = applied + 1
    /\ LET result == Apply(options, given[applied + 1])
       IN  IF result = NoValue THEN pc' = "failed" /\ UNCHANGED options
           ELSE options' = result /\ UNCHANGED pc
    /\ UNCHANGED <<env, given, stores, frames, parsed, credentials>>

OptionsApplied ==
    /\ pc = "options"
    /\ applied = Len(given)
    /\ pc' = "stores"
    /\ UNCHANGED <<env, given, applied, options, stores, frames, parsed, credentials>>

-----------------------------------------------------------------------------
\* Stores

source == options.Sources[Len(stores) + 1]

Building(type) ==
    pc = "stores" /\ Len(stores) < Len(options.Sources) /\ source.store = type

AddStore(configMap, projectEnvID) ==
    stores' = Append(stores, [configMap |-> configMap, projectEnvID |-> projectEnvID])

\* A later config replaces an earlier one with the same key, of those at the
\* indices that are kept.
MapOf(configs, kept) ==
    [k \in {configs[i].key : i \in kept} |->
        configs[Max({i \in kept : configs[i].key = k})]]

ReadFile(path) == IF path \in DOMAIN File THEN File[path] ELSE NoValue

\* The client of the stream, with its first URL and its key; none without a URL.
BuildSSEClient ==
    LET urls == PrefabAPIURLEnvVarOrSetting(options, env)
    IN  IF urls \in {NoValue, <<>>} THEN {}
        ELSE {[url |-> Head(urls), key |-> options.APIKey]}

\* Without an SSE client NewAPIConfigStore panics.
BuildAPIStore ==
    /\ Building("API")
    /\ \/ /\ BuildSSEClient = {}
          /\ pc' = "panicked"
          /\ UNCHANGED <<stores, credentials>>
       \/ /\ \E client \in BuildSSEClient :
                credentials' = [credentials EXCEPT !["sse"] = client.key]
          /\ AddStore(<<>>, 0)
          /\ UNCHANGED pc
    /\ UNCHANGED <<env, given, applied, options, frames, parsed>>

\* The file is read, its parser chosen by the suffix.
BuildLocalStore ==
    /\ Building("DataFile")
    /\ LET file == ReadFile(source.path)
       IN  IF file = NoValue \/ file.suffix \notin {"json", "yaml", "yml"} \/ file.content = NoValue
           THEN pc' = "failed" /\ UNCHANGED <<stores, frames>>
           ELSE IF file.suffix = "json"
           THEN IF file.content.projectEnvID = NoValue
                THEN pc' = "panicked" /\ UNCHANGED <<stores, frames>>
                ELSE /\ AddStore(MapOf(file.content.configs, DOMAIN file.content.configs),
                                 file.content.projectEnvID)
                     /\ UNCHANGED <<pc, frames>>
           ELSE /\ frames' = <<[path |-> <<>>, map |-> file.content.v,
                                left |-> DOMAIN file.content.v]>>
                /\ pc' = "yaml"
                /\ UNCHANGED stores
    /\ UNCHANGED <<env, given, applied, options, parsed, credentials>>

Unwrapped(wrappers) == [i \in DOMAIN wrappers |-> wrappers[i].config]
Kept(wrappers)      == {i \in DOMAIN wrappers : ~wrappers[i].deleted}

BuildDumpStore ==
    /\ Building("ConfigDump")
    /\ LET file == ReadFile(source.path)
       IN  IF \/ file = NoValue \/ file.content = NoValue
              \/ "wrappers" \notin DOMAIN file.content \/ options.ProjectEnvID = 0
           THEN pc' = "failed" /\ UNCHANGED stores
           ELSE /\ AddStore(MapOf(Unwrapped(file.content.wrappers), Kept(file.content.wrappers)),
                            options.ProjectEnvID)
                /\ UNCHANGED pc
    /\ UNCHANGED <<env, given, applied, options, frames, parsed, credentials>>

\* A protobuf config is taken as it is, under the key of the map.
MemoryConfig(k, x) ==
    IF x.kind = "config" THEN x.v
    ELSE [key |-> k, configType |-> "NOT_SET", valueType |-> "NOT_SET_VALUE_TYPE", value |-> Create(x)]

BuildMemoryStore ==
    /\ Building("Memory")
    /\ LET raw == options.Configs
       IN  CASE \E k \in DOMAIN raw : CreatePanics(raw[k]) ->
                    pc' \in {"panicked"} \cup {"failed" : k \in {k \in DOMAIN raw :
                        raw[k].kind # "config" /\ ~CreatePanics(raw[k]) /\ Create(raw[k]) = NoValue}}
                    /\ UNCHANGED stores
             [] \A k \in DOMAIN raw : ~CreatePanics(raw[k])
                                      /\ (raw[k].kind = "config" \/ Create(raw[k]) # NoValue) ->
                    /\ AddStore([k \in DOMAIN raw |-> MemoryConfig(k, raw[k])], options.ProjectEnvID)
                    /\ UNCHANGED pc
             [] OTHER -> pc' = "failed" /\ UNCHANGED stores
    /\ UNCHANGED <<env, given, applied, options, frames, parsed, credentials>>

-----------------------------------------------------------------------------
\* The YAML parser

coerceToBool(x) == x.kind \in {"bool", "string"} /\ x.v = "true"

\* NoValue if the value is refused.  Under log-level a value must name a level;
\* "log-level" stands for every first segment that begins so.
createConfig(key, x, configType) ==
    IF key[1] = "log-level"
    THEN IF x.kind = "string" /\ x.v \in LogLevelName
         THEN [key |-> key, configType |-> "LOG_LEVEL", valueType |-> "LOG_LEVEL",
               value |-> [kind |-> "LogLevel", v |-> x.v]]
         ELSE NoValue
    ELSE IF Create(x) = NoValue THEN NoValue
         ELSE [key |-> key, configType |-> configType, valueType |-> GetValueType(Create(x)),
               value |-> Create(x)]

IsFlag(node) == node.kind = "map" /\ <<"feature_flag">> \in DOMAIN node.v

Nil == [kind |-> "nil", v |-> NoValue]

\* A flag has the name of its map for a key, whatever the path to it; its value
\* is converted before createConfig sees it.
FlagConfig(name, node) ==
    LET value == IF <<"value">> \in DOMAIN node.v THEN node.v[<<"value">>] ELSE Nil
    IN  createConfig(name,
                     IF Create(value) = NoValue THEN Nil ELSE [kind |-> "configValue", v |-> Create(value)],
                     IF coerceToBool(node.v[<<"feature_flag">>]) THEN "FEATURE_FLAG" ELSE "CONFIG")

\* What handleMapKeyValue has to make a config of before it descends: the flag,
\* the value under "_", or the value itself.
OwnValues(name, node) ==
    CASE IsFlag(node) -> {v \in {<<"value">>} : v \in DOMAIN node.v}
      [] node.kind = "map" /\ ~IsFlag(node) -> {v \in {<<"_">>} : v \in DOMAIN node.v}
      [] OTHER -> {}

OwnConfigsKeepUnderscoreMistake(path, name, node) ==
    CASE IsFlag(node)       -> <<FlagConfig(name, node)>>
      [] node.kind # "map"  -> <<createConfig(path \o name, node, "CONFIG")>>
      [] node.kind = "map" /\ ~IsFlag(node) ->
            IF <<"_">> \in DOMAIN node.v
            THEN <<createConfig(path \o name \o <<"_">>, node.v[<<"_">>], "CONFIG")>> ELSE <<>>

OwnConfigs(path, name, node) ==
    CASE IsFlag(node)       -> <<FlagConfig(name, node)>>
      [] node.kind # "map"  -> <<createConfig(path \o name, node, "CONFIG")>>
      [] node.kind = "map" /\ ~IsFlag(node) ->
            IF <<"_">> \in DOMAIN node.v
            THEN <<createConfig(path \o name, node.v[<<"_">>], "CONFIG")>> ELSE <<>>

\* Under log-level only the value of a flag is converted.
HasPanic(path, name, node) ==
    /\ IsFlag(node) \/ (path \o name)[1] # "log-level"
    /\ CreatePanics(node) \/ \E v \in OwnValues(name, node) : CreatePanics(node.v[v])

Descend(path, name, node) ==
    IF node.kind = "map" /\ ~IsFlag(node)
    THEN <<[path |-> path \o name, map |-> node.v, left |-> DOMAIN node.v \ {<<"_">>}]>>
    ELSE <<>>

\* The iteration of the innermost map takes any of the names that are left.
handleMapKeyValue ==
    /\ pc = "yaml"
    /\ frames # <<>>
    /\ LET frame == Last(frames)
       IN  \E name \in frame.left :
              LET node == frame.map[name]
                  own  == OwnConfigs(frame.path, name, node)
              IN  CASE HasPanic(frame.path, name, node) ->
                           pc' = "panicked" /\ UNCHANGED <<frames, parsed>>
                    [] ~HasPanic(frame.path, name, node) /\ NoValue \in ToSet(own) ->
                           pc' = "failed" /\ UNCHANGED <<frames, parsed>>
                    [] OTHER ->
                           /\ frames' = Front(frames)
                                  \o <<[frame EXCEPT !.left = @ \ {name}]>>
                                  \o Descend(frame.path, name, node)
                           /\ parsed' = parsed \o own
                           /\ UNCHANGED pc
    /\ UNCHANGED <<env, given, applied, options, stores, credentials>>

\* The end of one iteration; after the outermost, loadFileIntoMap.
MapDone ==
    /\ pc = "yaml"
    /\ Last(frames).left = {}
    /\ frames' = Front(frames)
    /\ IF Len(frames) > 1 THEN UNCHANGED <<pc, stores, parsed>>
       ELSE AddStore(MapOf(parsed, DOMAIN parsed), 0) /\ parsed' = <<>> /\ pc' = "stores"
    /\ UNCHANGED <<env, given, applied, options, credentials>>

-----------------------------------------------------------------------------
\* The client

HasConfigs == DOMAIN options.Configs # {}

\* StartPeriodicSubmission makes a ticker of the interval.
TickerPanics == TelemetryEnabled(options) /\ options.TelemetrySyncInterval <= 0

\* The check of WithConfigs looks at the first source, be there one or not.
MakeClient ==
    /\ pc = "stores"
    /\ Len(stores) = Len(options.Sources)
    /\ CASE options.Sources = <<>> -> pc' = "panicked" /\ UNCHANGED credentials
         [] options.Sources # <<>>
              /\ (Len(options.Sources) > 1 \/ options.Sources[1].raw # MemoryStoreKey)
              /\ HasConfigs -> pc' = "failed" /\ UNCHANGED credentials
         [] OTHER ->
                IF TickerPanics THEN pc' = "panicked" /\ UNCHANGED credentials
                ELSE /\ pc' = "ready"
                     /\ credentials' = [credentials EXCEPT !["telemetry"] =
                           IF TelemetryEnabled(options) THEN options.APIKey ELSE NoValue]
    /\ UNCHANGED <<env, given, applied, options, stores, frames, parsed>>

\* HTTPClient.Load, on its own copy of the options; a URL answers, or none does.
\* (The goroutine may be earlier; what it loads is the same.)
Load ==
    /\ pc = "ready"
    /\ \E i \in DOMAIN options.Sources :
          /\ options.Sources[i].store = "API"
          /\ stores[i].configMap = <<>>
          /\ LET key == APIKeySettingOrEnvVar(options, env)
             IN  /\ key # NoValue
                 /\ credentials' = [credentials EXCEPT !["http"] = key]
                 /\ stores' = IF key # AcceptedKey THEN stores
                              ELSE [stores EXCEPT ![i].configMap = ServerConfigs]
    /\ UNCHANGED <<env, given, applied, options, pc, frames, parsed>>

Next ==
    \/ ApplyOption \/ OptionsApplied
    \/ BuildAPIStore \/ BuildLocalStore \/ BuildDumpStore \/ BuildMemoryStore
    \/ handleMapKeyValue \/ MapDone
    \/ MakeClient \/ Load

Spec == Init /\ [][Next]_vars

-----------------------------------------------------------------------------
\* Calls

Holders(k) == {i \in DOMAIN stores : k \in DOMAIN stores[i].configMap}

\* The first store that has the key.
GetConfig(k) ==
    IF Holders(k) = {} THEN NoValue ELSE stores[Min(Holders(k))].configMap[k]

Keys == UNION {DOMAIN stores[i].configMap : i \in DOMAIN stores}

\* No config is an error; no value would be one too.
fetchAndProcessValue(type, k) ==
    LET c == GetConfig(k)
    IN  IF c = NoValue THEN NoValue ELSE Extract(type, c.value)

\* The value of type `type`, or NoValue: there is none, or one of another type,
\* or it is the null of JSON.
GetValue(type, k) ==
    LET value == fetchAndProcessValue(type, k)
    IN  IF value = NoValue \/ value.kind = "nil" THEN NoValue ELSE value

GetValueWithDefault(type, k, default) ==
    IF GetValue(type, k) = NoValue THEN default ELSE GetValue(type, k)

FeatureIsOn(k) == GetValueWithDefault("Bool", k, [kind |-> "bool", v |-> "false"])

-----------------------------------------------------------------------------
\* What is assumed of the constants.  nil, which NoValue stands for, is neither
\* a source nor a config, and no value that a getter returns.  An option has
\* lists where Go has slices, and the durations among its configs are not negative.

IsList(s) == Len(s) \in Nat /\ s = [i \in 1 .. Len(s) |-> s[i]]

IsGoValue(x) ==
    /\ x = [kind |-> x.kind, v |-> x.v] /\ x # NoValue
    /\ x.kind = "duration" => x.v \in Nat
    /\ x.kind = "slice" =>
          IsList(x.v) /\ \A i \in DOMAIN x.v : x.v[i].kind = "string" => x.v[i].v \in STRING

IsOption(option) ==
    /\ option.with = "Sources"        => IsList(option.arg.raws)
    /\ option.with = "OfflineSources" => IsList(option.arg)
    /\ option.with = "Configs"        =>
          \A k \in DOMAIN option.arg :
             IsGoValue(option.arg[k]) /\ MemoryConfig(k, option.arg[k]) # NoValue

ASSUME GivenAssumption ==
    \A list \in Given : IsList(list) /\ \A i \in DOMAIN list : IsOption(list[i])

ASSUME NilAssumption ==
    /\ Source("Memory", MemoryStoreKey) # NoValue
    /\ NoValue \notin [kind : {"duration"}, v : Nat] \cup [kind : {"strings"}, v : Seq(STRING)]

-----------------------------------------------------------------------------
\* Properties

Served == pc = "ready" /\ \A i \in DOMAIN stores :
              options.Sources[i].store = "API" => stores[i].configMap # <<>>

Abs(n) == IF n < 0 THEN -n ELSE n

\* A duration below a month comes back exactly if it has whole seconds or is
\* shorter than a minute, and within half a second otherwise; any other value
\* comes back as it was given, numbers within JSON being floats.
SameValue(given_, got) ==
    CASE given_.kind = "duration" /\ given_.v < Month ->
            /\ got.kind = "duration"
            /\ 2 * Abs(got.v - given_.v) <= TicksPerSecond
            /\ given_.v % TicksPerSecond = 0 \/ given_.v < Minute => got.v = given_.v
      [] given_.kind = "map"   -> got.v = Unmarshal(given_.v)
      [] given_.kind = "slice" -> Len(got.v) = Len(given_.v) /\ \A i \in DOMAIN got.v : got.v[i] = given_.v[i].v
      [] OTHER -> given_.kind \in {"duration", "configValue"} \/ got = given_

Getter == {"Int", "Bool", "String", "Double", "StringList", "Duration", "Json", "LogLevel"}

\* "WithConfigs lets you provide a map of configs" (option_helpers.go:123): the
\* value that was given for a key is what the getter of its type returns, and
\* the other getters fall back to the default of the call.  "This is not
\* compatible with other sources": there are no other keys, and the API is not
\* asked for any.
ConfigsComeBack ==
    pc = "ready" /\ HasConfigs =>
        /\ Keys = DOMAIN options.Configs
        /\ credentials["http"] = NoValue /\ credentials["sse"] = NoValue
        /\ \A k \in DOMAIN options.Configs :
              LET x == options.Configs[k]
              IN  x.kind # "config" =>
                    \A type \in Getter :
                      IF type # Create(x).kind \/ GetValue(type, k) = NoValue
                      THEN /\ GetValueWithDefault(type, k, Null) = Null
                           /\ type = Create(x).kind => x.kind \in {"map", "configValue"}
                      ELSE SameValue(x, GetValueWithDefault(type, k, Null))

\* "Using this option will exclude the default (API + SSE) sources"
\* (option_helpers.go:23): if the last option about sources is an offline one,
\* whatever came before it, the API is never asked; and contexts are reported
\* only if an option after it says so.
OfflineStaysOffline ==
    LET about == {i \in DOMAIN given : given[i].with \in {"Sources", "OfflineSources", "Configs"}}
    IN  pc = "ready" /\ about # {} /\ given[Max(about)].with # "Sources" =>
            /\ credentials["http"] = NoValue /\ credentials["sse"] = NoValue
            /\ options.ContextTelemetryMode # "None" =>
                  \E i \in DOMAIN given : i > Max(about) /\ given[i].with = "ContextTelemetryMode"

\* "Attempt to read from an environment variable if APIKey is not directly set"
\* (options.go:122): once the API accepted a key, the stream and the telemetry
\* of the client are authenticated with it too.
KeyReachesEveryService ==
    Served /\ credentials["http"] = AcceptedKey =>
        credentials["sse"] = AcceptedKey /\ credentials["telemetry"] \in {AcceptedKey, NoValue}
=============================================================================
