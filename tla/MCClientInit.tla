---------------------------- MODULE MCClientInit ----------------------------
(***************************************************************************)
(* Small instances of ClientInit for TLC: the options of the clients that  *)
(* a run looks at.  WithSources puts its own sources before the API.       *)
(***************************************************************************)
EXTENDS ClientInit

OptionsOf(sources, failure, tenths, withConfigs) ==
    [sources |-> sources, onInitializationFailure |-> failure,
     timeoutTenths |-> tenths, withConfigs |-> withConfigs]

\* Options that should work, each way a client can be made with them.
Sound ==
    { OptionsOf(<<"API">>, "ReturnError", 100, FALSE),
      OptionsOf(<<"API">>, "ReturnNilMatch", 100, FALSE),
      OptionsOf(<<"DataFile", "API">>, "ReturnError", 100, FALSE),
      OptionsOf(<<"DataFile", "ConfigDump">>, "ReturnError", 100, FALSE),
      OptionsOf(<<"Memory">>, "ReturnNilMatch", 100, TRUE) }

ApiOnly == { OptionsOf(<<"API">>, "ReturnError", 100, FALSE) }

HalfASecond == { OptionsOf(<<"API">>, "ReturnError", 5, FALSE) }

\* A data file before an API that does not answer in time.
FileFirst == { OptionsOf(<<"DataFile", "API">>, "ReturnNilMatch", 100, FALSE) }

\* A file that does not load after an API whose goroutine is already running.
ApiFirst == { OptionsOf(<<"API", "DataFile">>, "ReturnError", 100, FALSE) }

ConfigsAndApi == { OptionsOf(<<"API">>, "ReturnError", 100, TRUE) }
=============================================================================
