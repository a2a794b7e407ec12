---------------------------- MODULE SourceValues ----------------------------
(***************************************************************************)
(* What the sources of a client mean, files of YAML among them, without    *)
(* the order in which they are read: the properties of NewClient that need *)
(* that.                                                                   *)
(***************************************************************************)
EXTENDS NewClient

CONSTANTS
    Name,       \* the keys that sources may give a value
    MaxDepth    \* how deep the maps of a YAML file are nested, at most

\* The maps of a YAML file, as [path, map]: a map within a map has the path that
\* leads to it.  Flags are not among them, nor is a map under "_", which is the
\* value of the map that it is in.
IsNested(m, name) ==
    /\ m.map[name].kind = "map" /\ ~IsFlag(m.map[name])
    /\ name # <<"_">> \/ m.path = <<>>

Inner(m, name) == [path |-> m.path \o name, map |-> m.map[name].v]

InnerMaps(maps) ==
    UNION {{Inner(m, name) : name \in {n \in DOMAIN m.map : IsNested(m, n)}} : m \in maps}

Outermost(tree) == [path |-> <<>>, map |-> tree.v]

Maps(tree) ==
    LET at[depth \in 0 .. MaxDepth] ==
            IF depth = 0 THEN {Outermost(tree)} ELSE InnerMaps(at[depth - 1])
    IN  UNION {at[depth] : depth \in 0 .. MaxDepth}

\* What a map means, as the parser's tests "nested" and "underscore and log
\* level" have it: each value has the path that leads to it, "_" the path of its
\* map, and a flag its own name.
LeafAt(m, name) ==
    LET node == m.map[name]
    IN  IF name = <<"_">> /\ m.path # <<>> THEN {[key |-> m.path, x |-> node]}
        ELSE IF IsFlag(node)
        THEN {[key |-> name, x |-> node.v[v]] : v \in {<<"value">>} \cap DOMAIN node.v}
        ELSE {[key |-> m.path \o name, x |-> node] : kind \in {node.kind} \ {"map"}}

Leaves(tree) == UNION {UNION {LeafAt(m, name) : name \in DOMAIN m.map} : m \in Maps(tree)}

ValueOf(leaf) ==
    IF leaf.key[1] = "log-level" THEN [kind |-> "LogLevel", v |-> leaf.x.v] ELSE Create(leaf.x)

LastOf(configs, kept, k) ==
    LET given_ == {i \in kept : configs[i].key = k}
    IN  {configs[i].value : i \in {i \in given_ : \A j \in given_ : j <= i}}

\* The values a source gives a key: more than one only where a YAML file gives
\* it twice, for a map of YAML has no order.
Declared(s, k) ==
    LET content == ReadFile(s.path).content
    IN  CASE s.store = "API" -> {ServerConfigs[j].value : j \in {k} \cap DOMAIN ServerConfigs}
          [] s.store = "Memory" ->
                {MemoryConfig(k, options.Configs[j]).value : j \in {k} \cap DOMAIN options.Configs}
          [] s.store = "ConfigDump" ->
                LastOf(Unwrapped(content.wrappers), Kept(content.wrappers), k)
          [] s.store = "DataFile" /\ ReadFile(s.path).suffix = "json" ->
                LastOf(content.configs, DOMAIN content.configs, k)
          [] OTHER -> {ValueOf(leaf) : leaf \in {l \in Leaves(content) : l.key = k}}

\* Of the files.  Names are not empty, and no file is nested deeper than MaxDepth.
ASSUME FilesAssumption ==
    /\ MaxDepth \in Nat
    /\ \A path \in DOMAIN File :
          LET file == File[path]
          IN  file # NoValue /\ file.content # NoValue =>
                /\ file.suffix = "json" => IsList(file.content.configs)
                /\ "wrappers" \in DOMAIN file.content => IsList(file.content.wrappers)
                /\ file.suffix \in {"yaml", "yml"} =>
                      /\ InnerMaps(Maps(file.content)) \subseteq Maps(file.content)
                      /\ \A m \in Maps(file.content) :
                            \A name \in DOMAIN m.map : name \in Seq(STRING) \ {<<>>}

\* In whatever order the maps of YAML are iterated, every key that some source
\* declares is served, with a value that the first such source gives it
\* (composite_config_store.go:8-12), and no other key is.
FirstSourceWins ==
    Served =>
        \A k \in Keys \cup Name :
            LET declaring == {i \in DOMAIN options.Sources : Declared(options.Sources[i], k) # {}}
            IN  /\ k \in Keys <=> declaring # {}
                /\ k \in Keys => GetConfig(k).value \in Declared(options.Sources[Min(declaring)], k)

IsNils(x) == x.kind = "slice" /\ x.v # <<>> /\ \A e \in ToSet(x.v) : e.kind = "nil"

\* Lists of nils that the parser converts: under log-level, those of flags only.
ConvertsNils(tree) ==
    \E m \in Maps(tree) : \E name \in DOMAIN m.map : \E leaf \in LeafAt(m, name) :
        IsNils(leaf.x) /\ (IsFlag(m.map[name]) \/ leaf.key[1] # "log-level")

\* NewClient panics for these reasons and no other: no source is left
\* (client.go:124), a list of nils is to be converted (helpers.go:47), a JSON
\* file has no config service pointer (local_config_json_parser.go:19), there is
\* no URL (apiconfigstore.go:32-38), or telemetry is to be sent at an interval
\* that is not positive (submitter.go:85), once every source has its store.
PanicsForKnownReasons ==
    LET file == ReadFile(source.path)
    IN  pc = "panicked" =>
            \/ options.Sources = <<>>
            \/ /\ Len(stores) = Len(options.Sources)
               /\ TelemetryEnabled(options) /\ options.TelemetrySyncInterval <= 0
            \/ /\ Len(stores) < Len(options.Sources)
               /\ \/ /\ source.store = "API"
                     /\ PrefabAPIURLEnvVarOrSetting(options, env) \in {NoValue, <<>>}
                  \/ source.store = "Memory" /\ \E k \in DOMAIN options.Configs : IsNils(options.Configs[k])
                  \/ /\ source.store = "DataFile"
                     /\ \/ file.suffix = "json" /\ file.content.projectEnvID = NoValue
                        \/ frames # <<>> /\ ConvertsNils(file.content)
=============================================================================
