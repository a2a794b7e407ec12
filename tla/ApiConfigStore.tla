--------------------------- MODULE ApiConfigStore ---------------------------
(***************************************************************************)
(* The store of configurations that come from the API: the map kept by     *)
(* APIConfigStore, the goroutine that fetches the first snapshot over HTTP *)
(* (with its retries), the goroutine that then follows the server's event  *)
(* stream and reconnects from the high watermark, and the evaluations that *)
(* read the store meanwhile.                                               *)
(*                                                                         *)
(* The server is external.  It is an append-only log of config versions: a *)
(* version's id is its position, and a version without rows is a           *)
(* tombstone.  A message carries, for a range of ids, the newest version   *)
(* of each key that changed in that range.                                 *)
(***************************************************************************)
EXTENDS Integers, Sequences, FiniteSetsExt

CONSTANTS
    Key,            \* config keys
    Reader,         \* goroutines that evaluate configs
    ProjectEnvId,   \* the environment id of the API key in use
    MaxId,          \* bound: the server publishes at most MaxId versions
    MaxRetries,     \* maxRetries of the first fetch (10 in the code)
    SplitCatchUp,   \* may the server split what a connection missed?
    LibraryRetries, \* may the SSE library reconnect with the old header?
    Undecodable     \* may a message of the stream fail to decode?

ASSUME ServerAssumption == MaxId \in Nat /\ ProjectEnvId \in Nat \ {0}
ASSUME RetriesAssumption == MaxRetries \in Nat
ASSUME StreamAssumption ==
    /\ SplitCatchUp \in BOOLEAN
    /\ LibraryRetries \in BOOLEAN
    /\ Undecodable \in BOOLEAN

VARIABLES
    log,              \* server: log[id] is the version with that id
    configMap,        \* key -> id of the version held, or Absent
    highWatermark,    \* largest id seen
    contextSet,       \* default context held: log length it was sent at
    projectEnvID,     \* environment id held, 0 before the first load
    Initialized,      \* set by SetConfigs
    loaded,           \* finishedLoading() has been called
    fetchPc,          \* where the goroutine of fetchFromServer is
    retriesAttempted, \* its argument
    fetched,          \* its local configs
    ssePc,            \* where the goroutine of StartSSEConnection is
    startAt,          \* the header x-prefab-start-at-id
    cursor,           \* server: last id sent on this connection
    checkpoint,       \* server: least id the next message must reach
    streamed,         \* the message the SSE handler is processing
    lost,             \* history: ids skipped because they did not decode
    reader            \* evaluations in progress

serverVars == <<log>>
storeVars  == <<configMap, highWatermark, projectEnvID, Initialized>>
fetchVars  == <<fetchPc, retriesAttempted, fetched, loaded>>
sseVars    == <<ssePc, startAt, cursor, checkpoint, streamed>>

vars == <<serverVars, storeVars, contextSet, fetchVars, sseVars, lost, reader>>

Id           == 1 .. MaxId
Absent       == 0     \* no entry in configMap
NoContextSet == -1    \* the nil *ContextSet of a store never loaded

-----------------------------------------------------------------------------
\* Messages

Message == [after : 0 .. MaxId, upto : 0 .. MaxId, context : 0 .. MaxId]
NoMessage == [after |-> 0, upto |-> 0, context |-> 0]

HasRows(id) == log[id].rows

\* The ids a message carries: of each key that changed in after+1..upto, the
\* newest version.
Configs(m) ==
    { i \in (m.after + 1) .. m.upto :
        \A j \in (i + 1) .. m.upto : log[j].key # log[i].key }

-----------------------------------------------------------------------------
\* The store

\* Variants (operators named ...Mistake) are plausible errors in the definition
\* that follows them; the properties are checked to tell them apart.

setConfigNeverDeletesMistake(current, id) ==
    IF HasRows(id) /\ id > current THEN id ELSE current

setConfigIgnoresIdMistake(current, id) ==
    IF ~HasRows(id) /\ current # Absent THEN Absent ELSE id

\* What becomes of the entry `current` of a key when version `id` of it arrives.
setConfig(current, id) ==
    CASE ~HasRows(id) /\ current # Absent /\ id > current -> Absent
      [] (HasRows(id) /\ current # Absent /\ id > current) \/ current = Absent -> id
      [] OTHER -> current

\* SetConfigs runs under the write lock, so its loop is one step.  Messages are
\* taken to carry the pointer with the environment's id (without it the code
\* takes 0) and the default context.
SetConfigs(m) ==
    /\ Initialized' = TRUE
    /\ projectEnvID' = ProjectEnvId
    /\ configMap' = [k \in Key |->
          IF \E i \in Configs(m) : log[i].key = k
          THEN setConfig(configMap[k], CHOOSE i \in Configs(m) : log[i].key = k)
          ELSE configMap[k]]
    /\ highWatermark' = Max({highWatermark} \cup Configs(m))

SetContextSetOnceMistake(m) ==
    contextSet' = IF contextSet = NoContextSet THEN m.context ELSE contextSet

\* SetFromConfigsProto first replaces the context set, without the lock.
SetContextSet(m) == contextSet' = m.context

GetHighWatermark == highWatermark

-----------------------------------------------------------------------------
Init ==
    /\ log = <<>>
    /\ configMap = [k \in Key |-> Absent]
    /\ highWatermark = 0
    /\ contextSet = NoContextSet
    /\ projectEnvID = 0
    /\ Initialized = FALSE
    /\ loaded = FALSE
    /\ fetchPc = "load"
    /\ retriesAttempted = 0
    /\ fetched = NoMessage
    /\ ssePc = "idle"
    /\ startAt = 0
    /\ cursor = 0
    /\ checkpoint = 0
    /\ streamed = NoMessage
    /\ lost = {}
    /\ reader = [r \in Reader |-> [pc |-> "idle", config |-> Absent, env |-> 0]]

-----------------------------------------------------------------------------
\* The server publishes a new version of a key, or deletes a live one.

IsLive(k) ==
    \E i \in DOMAIN log : /\ log[i].key = k /\ log[i].rows
                          /\ \A j \in (i + 1) .. Len(log) : log[j].key # k

Publish(k, rows) ==
    /\ Len(log) < MaxId
    /\ ~rows => IsLive(k)
    /\ log' = Append(log, [key |-> k, rows |-> rows])
    /\ UNCHANGED <<storeVars, contextSet, fetchVars, sseVars, lost, reader>>

-----------------------------------------------------------------------------
\* The goroutine of NewAPIConfigStore: fetchFromServer(0, start SSE)

\* A server answers with its snapshot; a CDN copy may lag behind the log.
LoadSucceeds(n) ==
    /\ fetchPc = "load"
    /\ n >= highWatermark
    /\ fetched' = [after |-> highWatermark, upto |-> n, context |-> n]
    /\ fetchPc' = "setContext"
    /\ UNCHANGED <<serverVars, storeVars, contextSet, retriesAttempted, loaded,
                   sseVars, lost, reader>>

LoadFailsOneRetryTooManyMistake ==
    /\ fetchPc = "load"
    /\ fetchPc' = IF retriesAttempted <= MaxRetries THEN "sleep" ELSE "then"
    /\ UNCHANGED <<serverVars, storeVars, contextSet, retriesAttempted, fetched,
                   loaded, sseVars, lost, reader>>

LoadFailsStartsStreamMistake ==
    /\ fetchPc = "load"
    /\ fetchPc' = IF retriesAttempted < MaxRetries THEN "sleep" ELSE "done"
    /\ ssePc' = IF ssePc = "idle" THEN "header" ELSE ssePc
    /\ UNCHANGED <<serverVars, storeVars, contextSet, retriesAttempted, fetched,
                   loaded, startAt, cursor, checkpoint, streamed, lost, reader>>

LoadFailsReleasesCallersMistake ==
    /\ fetchPc = "load"
    /\ fetchPc' = IF retriesAttempted < MaxRetries THEN "sleep" ELSE "then"
    /\ loaded' = (retriesAttempted = MaxRetries)
    /\ UNCHANGED <<serverVars, storeVars, contextSet, retriesAttempted, fetched,
                   sseVars, lost, reader>>

\* Every URL failed.  After the last retry the stream is started anyway.
LoadFails ==
    /\ fetchPc = "load"
    /\ fetchPc' = IF retriesAttempted < MaxRetries THEN "sleep" ELSE "then"
    /\ UNCHANGED <<serverVars, storeVars, contextSet, retriesAttempted, fetched,
                   loaded, sseVars, lost, reader>>

\* The server accepts the request and never answers: http.DefaultClient has no
\* timeout, so the goroutine waits for good.
LoadHangs ==
    /\ fetchPc = "load"
    /\ fetchPc' = "hangs"
    /\ UNCHANGED <<serverVars, storeVars, contextSet, retriesAttempted, fetched,
                   loaded, sseVars, lost, reader>>

RetryUncountedMistake ==
    /\ fetchPc = "sleep"
    /\ fetchPc' = "load"
    /\ UNCHANGED <<serverVars, storeVars, contextSet, retriesAttempted, fetched,
                   loaded, sseVars, lost, reader>>

Retry ==
    /\ fetchPc = "sleep"
    /\ retriesAttempted' = retriesAttempted + 1
    /\ fetchPc' = "load"
    /\ UNCHANGED <<serverVars, storeVars, contextSet, fetched, loaded, sseVars,
                   lost, reader>>

FetchSetContext ==
    /\ fetchPc = "setContext"
    /\ SetContextSet(fetched)
    /\ fetchPc' = "setConfigs"
    /\ UNCHANGED <<serverVars, storeVars, retriesAttempted, fetched, loaded,
                   sseVars, lost, reader>>

FetchSetConfigs ==
    /\ fetchPc = "setConfigs"
    /\ SetConfigs(fetched)
    /\ fetched' = NoMessage
    /\ fetchPc' = "finishedLoading"
    /\ UNCHANGED <<serverVars, contextSet, retriesAttempted, loaded, sseVars,
                   lost, reader>>

FinishedLoading ==
    /\ fetchPc = "finishedLoading"
    /\ loaded' = TRUE
    /\ fetchPc' = "then"
    /\ UNCHANGED <<serverVars, storeVars, contextSet, retriesAttempted, fetched,
                   sseVars, lost, reader>>

Then ==
    /\ fetchPc = "then"
    /\ ssePc' = "header"
    /\ fetchPc' = "done"
    /\ UNCHANGED <<serverVars, storeVars, contextSet, retriesAttempted, fetched,
                   loaded, startAt, cursor, checkpoint, streamed, lost, reader>>

FetchFromServer ==
    \/ \E n \in 0 .. Len(log) : LoadSucceeds(n)
    \/ LoadFails \/ LoadHangs \/ Retry
    \/ FetchSetContext \/ FetchSetConfigs \/ FinishedLoading \/ Then

-----------------------------------------------------------------------------
\* The goroutine of StartSSEConnection

ReadWatermarkFromNowMistake ==
    /\ ssePc = "header"
    /\ startAt' = Len(log)
    /\ ssePc' = "connect"
    /\ UNCHANGED <<serverVars, storeVars, contextSet, fetchVars, cursor,
                   checkpoint, streamed, lost, reader>>

ReadWatermark ==
    /\ ssePc = "header"
    /\ startAt' = GetHighWatermark
    /\ ssePc' = "connect"
    /\ UNCHANGED <<serverVars, storeVars, contextSet, fetchVars, cursor,
                   checkpoint, streamed, lost, reader>>

\* The server resumes after the header's id.  Unless it splits the catch-up,
\* its first message covers everything published up to now.
Connect ==
    /\ ssePc = "connect"
    /\ cursor' = startAt
    /\ checkpoint' = IF SplitCatchUp THEN startAt ELSE Len(log)
    /\ ssePc' = "connected"
    /\ UNCHANGED <<serverVars, storeVars, contextSet, fetchVars, startAt,
                   streamed, lost, reader>>

\* Subscribe returns: refused, or the stream ended.
SubscribeReturns ==
    /\ ssePc \in {"connect", "connected"}
    /\ ssePc' = "sleep"
    /\ cursor' = 0
    /\ checkpoint' = 0
    /\ UNCHANGED <<serverVars, storeVars, contextSet, fetchVars, startAt,
                   streamed, lost, reader>>

\* The library reconnects by itself: the header keeps its old value.
LibraryReconnects ==
    /\ LibraryRetries
    /\ ssePc = "connected"
    /\ ssePc' = "connect"
    /\ cursor' = 0
    /\ checkpoint' = 0
    /\ UNCHANGED <<serverVars, storeVars, contextSet, fetchVars, startAt,
                   streamed, lost, reader>>

Sendable(n) == ssePc = "connected" /\ n >= cursor /\ n >= checkpoint

\* The handler decodes a message that brings the client up to id n.
Deliver(n) ==
    /\ Sendable(n)
    /\ streamed' = [after |-> cursor, upto |-> n, context |-> Len(log)]
    /\ cursor' = n
    /\ checkpoint' = 0
    /\ ssePc' = "setContext"
    /\ UNCHANGED <<serverVars, storeVars, contextSet, fetchVars, startAt,
                   lost, reader>>

\* The handler logs a decoding error and returns: the message is gone.
DeliverUndecodable(n) ==
    /\ Undecodable
    /\ Sendable(n)
    /\ cursor' = n
    /\ checkpoint' = 0
    /\ lost' = lost \cup (cursor + 1) .. n
    /\ UNCHANGED <<serverVars, storeVars, contextSet, fetchVars, ssePc,
                   startAt, streamed, reader>>

StreamSetContext ==
    /\ ssePc = "setContext"
    /\ SetContextSet(streamed)
    /\ ssePc' = "setConfigs"
    /\ UNCHANGED <<serverVars, storeVars, fetchVars, startAt, cursor,
                   checkpoint, streamed, lost, reader>>

StreamSetConfigs ==
    /\ ssePc = "setConfigs"
    /\ SetConfigs(streamed)
    /\ lost' = lost \ ((streamed.after + 1) .. streamed.upto)
    /\ streamed' = NoMessage
    /\ ssePc' = "connected"
    /\ UNCHANGED <<serverVars, contextSet, fetchVars, startAt, cursor,
                   checkpoint, reader>>

\* The loop slept a second and goes round.
Reconnect ==
    /\ ssePc = "sleep"
    /\ ssePc' = "header"
    /\ UNCHANGED <<serverVars, storeVars, contextSet, fetchVars, startAt,
                   cursor, checkpoint, streamed, lost, reader>>

StartSSEConnection ==
    \/ ReadWatermark \/ Connect \/ SubscribeReturns \/ LibraryReconnects
    \/ \E n \in 0 .. Len(log) : Deliver(n) \/ DeliverUndecodable(n)
    \/ StreamSetContext \/ StreamSetConfigs \/ Reconnect

-----------------------------------------------------------------------------
\* An evaluation: find the config, then its row, then the context it needs
\* (which dereferences contextSet, without the lock).  The steps are separate:
\* no lock is held between them.

GetConfig(r, k) ==
    /\ reader[r].pc = "idle"
    /\ configMap[k] # Absent
    /\ reader' = [reader EXCEPT ![r] = [pc |-> "GetProjectEnvID",
                                        config |-> configMap[k], env |-> 0]]
    /\ UNCHANGED <<serverVars, storeVars, contextSet, fetchVars, sseVars, lost>>

GetProjectEnvID(r) ==
    /\ reader[r].pc = "GetProjectEnvID"
    /\ reader' = [reader EXCEPT ![r].pc = "GetContextValue",
                                ![r].env = projectEnvID]
    /\ UNCHANGED <<serverVars, storeVars, contextSet, fetchVars, sseVars, lost>>

GetContextValue(r) ==
    /\ reader[r].pc = "GetContextValue"
    /\ reader' = [reader EXCEPT ![r] = [pc |-> "idle", config |-> Absent, env |-> 0]]
    /\ UNCHANGED <<serverVars, storeVars, contextSet, fetchVars, sseVars, lost>>

Evaluate(r) ==
    \/ \E k \in Key : GetConfig(r, k)
    \/ GetProjectEnvID(r) \/ GetContextValue(r)

-----------------------------------------------------------------------------
Next ==
    \/ \E k \in Key, rows \in BOOLEAN : Publish(k, rows)
    \/ FetchFromServer
    \/ StartSSEConnection
    \/ \E r \in Reader : Evaluate(r)

Spec == Init /\ [][Next]_vars

\* Goroutines that can run do run; of a load it is only assumed that it ends or
\* hangs (LoadHangs).  The network of the stream recovers: a connection attempted
\* again and again is accepted, a message due again and again comes.
DeliverNews == \E n \in (cursor + 1) .. Len(log) : Deliver(n)

Fairness ==
    /\ WF_vars(FetchFromServer)
    /\ WF_vars(ReadWatermark \/ Reconnect \/ StreamSetContext \/ StreamSetConfigs)
    /\ SF_vars(Connect)
    /\ SF_vars(DeliverNews)

FairSpec == Spec /\ Fairness

-----------------------------------------------------------------------------
\* Properties

MaybeContext == {NoContextSet} \cup 0 .. MaxId

\* Every variable holds a value of the type its Go declaration intends.
TypeOK ==
    /\ log \in Seq([key : Key, rows : BOOLEAN]) /\ Len(log) <= MaxId
    /\ configMap \in [Key -> {Absent} \cup Id]
    /\ highWatermark \in 0 .. MaxId
    /\ contextSet \in MaybeContext
    /\ projectEnvID \in {0, ProjectEnvId}
    /\ Initialized \in BOOLEAN /\ loaded \in BOOLEAN
    /\ fetchPc \in {"load", "hangs", "sleep", "setContext", "setConfigs",
                    "finishedLoading", "then", "done"}
    /\ retriesAttempted \in 0 .. MaxRetries
    /\ fetched \in Message
    /\ ssePc \in {"idle", "header", "connect", "connected", "setContext",
                  "setConfigs", "sleep"}
    /\ startAt \in 0 .. MaxId /\ cursor \in 0 .. MaxId
    /\ checkpoint \in 0 .. MaxId
    /\ streamed \in Message
    /\ lost \subseteq Id
    /\ reader \in [Reader -> [pc : {"idle", "GetProjectEnvID", "GetContextValue"},
                              config : {Absent} \cup Id,
                              env : {0, ProjectEnvId}]]

\* Resuming the stream from the high watermark misses nothing: whatever was
\* published up to the watermark, and did not fail to decode, is reflected in
\* the map, by that version, a newer one, or a deletion no older than it.
NoMissedUpdate ==
    \A j \in (1 .. highWatermark) \ lost :
        LET k == log[j].key IN
        \/ configMap[k] >= j
        \/ /\ configMap[k] = Absent
           /\ \E i \in j .. highWatermark : log[i].key = k /\ ~HasRows(i)

\* The two goroutines never write the store at once: SetFromConfigsProto
\* replaces the context set outside the lock and relies on it.
SingleWriter == ssePc # "idle" => fetchPc = "done"

\* An evaluation that found a config finds the environment id and a default
\* context sent no earlier than that config, although it locks the store for
\* each read apart and reads the context with no lock at all.
EvaluationIsConsistent ==
    \A r \in Reader : reader[r].pc = "GetContextValue" =>
        /\ reader[r].env = ProjectEnvId
        /\ contextSet >= reader[r].config

\* When finishedLoading() has released the callers of the client, the store
\* they read has its snapshot, its context and its environment id.
LoadedStoreIsUsable ==
    loaded => Initialized /\ contextSet # NoContextSet /\ projectEnvID # 0

\* No step takes a held version back to an older one, whatever the stream
\* sends again after a reconnect, and the watermark never goes back.
NoRollback ==
    [][ /\ highWatermark' >= highWatermark
        /\ \A k \in Key : configMap[k] # Absent /\ configMap'[k] # Absent
                           => configMap'[k] >= configMap[k] ]_vars

\* What GetConfig gives an evaluation to work with: a version with rows.
Visible(k) == IF configMap[k] # Absent /\ HasRows(configMap[k]) THEN configMap[k]
              ELSE Absent

\* What Keys reports, rowless versions included.
Keys == {k \in Key : configMap[k] # Absent}

\* Unless the load hangs, once the server stops publishing every key's live
\* version is held, and only those, for good: neither reconnects nor a first
\* fetch that is given up leave a gap (apiconfigstore.go:139-151, sseclient.go:40).
EventuallyConverged ==
    <>[](\/ fetchPc = "hangs"
         \/ /\ {k \in Keys : HasRows(configMap[k])} = {k \in Key : IsLive(k)}
            /\ \A k \in Key : IsLive(k) =>
                  /\ log[configMap[k]].key = k
                  /\ \A j \in (configMap[k] + 1) .. Len(log) : log[j].key # k)

\* The stream is started in the end, even when every retry of the first fetch
\* fails (apiconfigstore.go:150).  Only a request that is never answered keeps
\* it from starting: that ends the retries, too.
StreamStartsUnlessLoadHangs == <>(ssePc # "idle" \/ fetchPc = "hangs")

-----------------------------------------------------------------------------
\* The store implements a replica that moves along the server's log.

Replica == INSTANCE ConfigReplica WITH
              view <- [k \in Key |-> Visible(k)], position <- highWatermark

\* Each step of the system is a publication, an advance of the replica to a
\* later snapshot of the log, or a stutter.
ImplementsReplica == Replica!Spec
=============================================================================
