---------------------------- MODULE ConfigValues ----------------------------
(***************************************************************************)
(* The values of configs: how a Go value becomes a ConfigValue, and what   *)
(* the typed getters make of one.                                          *)
(*                                                                         *)
(* Both are records [kind, v]; the kind is the Go type or the type of the  *)
(* protobuf oneof, and v a payload that only a conversion looks into: the  *)
(* elements of a list, the fields of a map, the length of a duration.      *)
(***************************************************************************)
EXTENDS Integers, Sequences, SequencesExt

CONSTANTS
    NoValue,             \* nil, and the result of a conversion that fails
    Null,                \* the JSON text "null"
    TicksPerSecond,      \* 10^9 in the code
    ParserMonth,         \* in ticks, the month and the year of the library
    ParserYear           \* that parses ISO 8601 durations

ASSUME ConfigValuesAssumption ==
    TicksPerSecond \in Nat \ {0} /\ ParserMonth \in Nat /\ ParserYear \in Nat

Minute == 60 * TicksPerSecond
Hour   == 60 * Minute
Day    == 24 * Hour
Month  == 30 * Day
Year   == 365 * Day

\* "%02.0f": to the nearest second, halves to the even one.
RoundHalfEven(ticks) ==
    LET whole == ticks \div TicksPerSecond
        twice == 2 * (ticks % TicksPerSecond)
    IN  IF twice > TicksPerSecond \/ (twice = TicksPerSecond /\ whole % 2 = 1)
        THEN whole + 1 ELSE whole

\* Operators named ...Mistake are plausible errors in the definition that
\* follows them; the properties are checked to tell them apart.

durationToISO8601RoundsMistake(d) ==
    [years |-> d \div Year, months |-> (d % Year) \div Month, days |-> (d % Month) \div Day,
     hours |-> (d % Day) \div Hour, minutes |-> (d % Hour) \div Minute,
     seconds |-> TicksPerSecond * RoundHalfEven(d % Minute)]

\* A positive duration.  Seconds keep their fraction only if there are neither
\* hours nor minutes.
durationToISO8601(d) ==
    [years |-> d \div Year, months |-> (d % Year) \div Month, days |-> (d % Month) \div Day,
     hours |-> (d % Day) \div Hour, minutes |-> (d % Hour) \div Minute,
     seconds |-> IF d % Day < Minute THEN d % Minute
                 ELSE TicksPerSecond * RoundHalfEven(d % Minute)]

\* durationParser.Parse and ToTimeDuration.
ParseDuration(iso) ==
    iso.years * ParserYear + iso.months * ParserMonth + iso.days * Day
    + iso.hours * Hour + iso.minutes * Minute + iso.seconds

-----------------------------------------------------------------------------
\* From Go values

TypeOfScalar == [int |-> "Int", string |-> "String", strings |-> "StringList",
                 bytes |-> "Bytes", bool |-> "Bool", float |-> "Double",
                 logLevel |-> "LogLevel"]

CanonicalizePanicsOnEmptyMistake(elements) ==
    \A i \in DOMAIN elements : elements[i].kind = "nil"

\* reflect.SliceOf is given the type of nil.
CanonicalizePanics(elements) ==
    elements # <<>> /\ \A i \in DOMAIN elements : elements[i].kind = "nil"

IsStringList(elements) ==
    elements # <<>> /\ \A i \in DOMAIN elements : elements[i].kind = "string"

CreatePanics(x) == x.kind = "slice" /\ CanonicalizePanics(x.v)

\* json.Marshal refuses, for example, channels; the text is then empty.
Marshal(m) ==
    IF \E f \in DOMAIN m : m[f].kind = "other" THEN NoValue ELSE m

\* A list that is not of strings is a ConfigValue without a type, and no error.
Create(x) ==
    CASE x.kind = "configValue" -> x.v
      [] x.kind = "slice" ->
            IF IsStringList(x.v)
            THEN [kind |-> "StringList", v |-> [i \in DOMAIN x.v |-> x.v[i].v]]
            ELSE [kind |-> "", v |-> NoValue]
      [] x.kind = "duration" -> [kind |-> "Duration", v |-> durationToISO8601(x.v)]
      [] x.kind = "map"      -> [kind |-> "Json", v |-> Marshal(x.v)]
      [] x.kind \in DOMAIN TypeOfScalar -> [kind |-> TypeOfScalar[x.kind], v |-> x.v]
      [] OTHER -> NoValue

\* GetValueType, without the constants' prefix.
GetValueType(cv) ==
    IF cv.kind \in {"", "Provided"} THEN "NOT_SET_VALUE_TYPE" ELSE cv.kind

-----------------------------------------------------------------------------
\* To Go values

GoTypeOf == [Int |-> "int", String |-> "string", StringList |-> "strings",
             Bytes |-> "bytes", Bool |-> "bool", Double |-> "float",
             LogLevel |-> "logLevel"]

\* json.Unmarshal into an interface: every number is a float.
Unmarshal(text) ==
    [f \in DOMAIN text |->
        IF text[f].kind = "int" THEN [text[f] EXCEPT !.kind = "float"] ELSE text[f]]

ExtractJSONValue(cv) ==
    CASE cv.v = NoValue -> NoValue
      [] cv.v = Null    -> [kind |-> "nil", v |-> NoValue]
      [] OTHER          -> [kind |-> "map", v |-> Unmarshal(cv.v)]

ExtractDurationValue(cv) == [kind |-> "duration", v |-> ParseDuration(cv.v)]

\* ExtractIntValue and its like: only a value of the type asked for.
Extract(type, cv) ==
    IF cv.kind # type THEN NoValue
    ELSE CASE type = "Json"     -> ExtractJSONValue(cv)
           [] type = "Duration" -> ExtractDurationValue(cv)
           [] OTHER             -> [kind |-> GoTypeOf[type], v |-> cv.v]

\* ExtractValue: whatever type it has; a provided value comes from the
\* environment, envLookup being the variables that are set.
ExtractValue(cv, envLookup) ==
    CASE cv = NoValue \/ cv.kind = "" -> NoValue
      [] cv.kind = "Provided" ->
            IF cv.v \in DOMAIN envLookup
            THEN [kind |-> "string", v |-> envLookup[cv.v]] ELSE NoValue
      [] OTHER -> Extract(cv.kind, cv)
=============================================================================
