------------------------------ MODULE Criteria ------------------------------
(***************************************************************************)
(* EvaluateCriterion for the operators that compare a context value with   *)
(* the criterion's value; those on segments are in ConfigResolver.         *)
(*                                                                         *)
(* A value is a record of its Go kind and of what it is.  Texts are opaque *)
(* and what the standard library says of them comes in as constants.       *)
(***************************************************************************)
EXTENDS Integers, Sequences, SemVer

CONSTANTS
    ContextValue,       \* values that a context may hold
    MatchValue,         \* values that a criterion may hold
    HasPrefix(_, _), HasSuffix(_, _), ContainsText(_, _),
    Formatted(_),       \* fmt.Sprintf("%v") of a value that is not a text
    MatchString(_, _),  \* (pattern, text): does the regular expression match?
    Compiles(_),        \* is the text a regular expression?
    parseDate(_),       \* milliseconds, or NoDate for a text that is no date
    NoDate,
    FloatBits,          \* bits of a float's significand, 53 in the code, and
    MaxExponent         \* the exponent of its last bit at most, 971

Absent == [kind |-> "absent", is |-> {}]

IsText(v)   == v.kind = "string"
IsNumber(v) == v.kind \in {"int", "uint", "float"}

contextValueToString(v) == IF IsText(v) THEN v.is ELSE Formatted(v)

\* `strings` is a []string, `anys` an []any.
contextValueToStringSlice(v) ==
    CASE v.kind = "nil"     -> <<>>
      [] v.kind = "strings" -> v.is
      [] v.kind = "anys"    -> [i \in DOMAIN v.is |-> contextValueToString(v.is[i])]
      [] OTHER              -> <<contextValueToString(v)>>

ToFloat64TruncatesMistake(n) == n % 2 ^ FloatBits

Magnitude(n) == IF n < 0 THEN -n ELSE n

\* Of the last of FloatBits significant bits.
IsExponent(n, e) ==
    /\ Magnitude(n) < 2 ^ (FloatBits + e)
    /\ e = 0 \/ Magnitude(n) >= 2 ^ (FloatBits + e - 1)

\* To a multiple of u, ties to even.
Rounded(n, u) ==
    IF 2 * (n % u) < u \/ (2 * (n % u) = u /\ (n \div u) % 2 = 0)
    THEN (n \div u) * u ELSE (n \div u + 1) * u

\* The nearest number with FloatBits significant bits.
ToFloat64(n) == Rounded(n, 2 ^ (CHOOSE e \in 0 .. MaxExponent : IsExponent(n, e)))

FloatLimit == 2 ^ (FloatBits + MaxExponent)

\* An int64, a uint64, or a float, which is an integer here; no bound of a range is
\* beyond an int64.
ASSUME NumbersAssumption ==
    /\ FloatBits \in Nat \ {0} /\ MaxExponent \in Nat
    /\ \E bits \in 0 .. FloatBits + MaxExponent - 1 : MaxInt = 2 ^ bits - 1
    /\ \A x \in ContextValue \cup MatchValue :
          /\ IsNumber(x) => x = [kind |-> x.kind, is |-> x.is]
          /\ x.kind = "int"   => x.is \in -MaxInt - 1 .. MaxInt
          /\ x.kind = "uint"  => x.is \in 0 .. 2 * MaxInt + 1
          /\ x.kind = "float" => x.is \in 1 - FloatLimit .. FloatLimit - 1
          /\ x.kind = "intRange" =>
                \A n \in {1, 2} : x.is[n] = <<>> \/ x.is[n][1] \in -MaxInt - 1 .. MaxInt

\* compareNumbers compares as floats; a float of the model is its own image.
compareNumbers(v, m) == Sign(ToFloat64(v.is) - ToFloat64(m.is))

\* Of a number; a uint may be too large for an int64.
ToInt64(v) == IF v.kind = "uint" /\ v.is > MaxInt THEN NoDate ELSE v.is

\* Numbers are taken for milliseconds.
dateToMillis(v) == IF IsText(v) THEN parseDate(v.is) ELSE ToInt64(v)

-----------------------------------------------------------------------------
\* Operators

OneOf    == {"PROP_ENDS_WITH_ONE_OF", "PROP_STARTS_WITH_ONE_OF",
             "PROP_CONTAINS_ONE_OF", "PROP_IS_ONE_OF"}
NotOneOf == {"PROP_DOES_NOT_END_WITH_ONE_OF", "PROP_DOES_NOT_START_WITH_ONE_OF",
             "PROP_DOES_NOT_CONTAIN_ONE_OF", "PROP_IS_NOT_ONE_OF"}

\* Does one of the texts in the list fit the context value?
MatchFound(op, v, list) ==
    \E i \in DOMAIN list :
        \/ /\ op \in {"PROP_ENDS_WITH_ONE_OF", "PROP_DOES_NOT_END_WITH_ONE_OF"}
           /\ HasSuffix(contextValueToString(v), list[i])
        \/ /\ op \in {"PROP_STARTS_WITH_ONE_OF", "PROP_DOES_NOT_START_WITH_ONE_OF"}
           /\ HasPrefix(contextValueToString(v), list[i])
        \/ /\ op \in {"PROP_CONTAINS_ONE_OF", "PROP_DOES_NOT_CONTAIN_ONE_OF"}
           /\ ContainsText(contextValueToString(v), list[i])
        \/ /\ op \in {"PROP_IS_ONE_OF", "PROP_IS_NOT_ONE_OF"}
           /\ \E j \in DOMAIN contextValueToStringSlice(v) :
                 contextValueToStringSlice(v)[j] = list[i]

TextCriterionForgetsMissingMistake(op, v, m) ==
    v # Absent /\ m.kind = "strings" /\ (MatchFound(op, v, m.is) <=> op \in OneOf)

\* Without a value, or a list to compare it with, the negated operators hold.
TextCriterion(op, v, m) ==
    IF v # Absent /\ m.kind = "strings"
    THEN MatchFound(op, v, m.is) <=> op \in OneOf
    ELSE op \in NotOneOf

defaultInt(maybeInt, default) == IF maybeInt = <<>> THEN default ELSE maybeInt[1]

\* [start, end) with MinInt64 and MaxInt64 for what is missing (<<>>); an
\* unsigned number is in no range.
InIntRange(v, m) ==
    LET start == defaultInt(m.is[1], -MaxInt - 1)
        end   == defaultInt(m.is[2], MaxInt)
    IN  \/ v.kind = "int"   /\ v.is >= start /\ v.is < end
        \/ v.kind = "float" /\ v.is >= ToFloat64(start) /\ v.is < ToFloat64(end)

numericCriterionHandlers(op, result) ==
    \/ op = "PROP_GREATER_THAN"          /\ result > 0
    \/ op = "PROP_GREATER_THAN_OR_EQUAL" /\ result >= 0
    \/ op = "PROP_LESS_THAN"             /\ result < 0
    \/ op = "PROP_LESS_THAN_OR_EQUAL"    /\ result <= 0

DateCriterion(op, v, m) ==
    LET date == dateToMillis(v)
        limit == dateToMillis(m)
    IN  /\ date # NoDate /\ limit # NoDate
        /\ \/ op = "PROP_AFTER"  /\ date > limit
           \/ op = "PROP_BEFORE" /\ date < limit

\* A pattern that does not compile neither matches nor fails to match.
RegexCriterion(op, v, m) ==
    /\ op \in {"PROP_MATCHES", "PROP_DOES_NOT_MATCH"}
    /\ Compiles(m.is)
    /\ MatchString(m.is, v.is) <=> op = "PROP_MATCHES"

semverCriterionHandlers(op, result) ==
    \/ op = "PROP_SEMVER_GREATER_THAN" /\ result > 0
    \/ op = "PROP_SEMVER_EQUAL"        /\ result = 0
    \/ op = "PROP_SEMVER_LESS_THAN"    /\ result < 0

SemverCriterion(op, version, limit) ==
    /\ version # NoVersion /\ limit # NoVersion
    /\ semverCriterionHandlers(op, Compare(version, limit))

\* v is Absent if no context has the property.
EvaluateCriterion(op, v, m) ==
    \/ op = "ALWAYS_TRUE"
    \/ op \in OneOf \cup NotOneOf /\ TextCriterion(op, v, m)
    \/ /\ v # Absent
       /\ \/ /\ op = "HIERARCHICAL_MATCH" /\ IsText(m)
             /\ HasPrefix(contextValueToString(v), m.is)
          \/ /\ op = "IN_INT_RANGE" /\ m.kind = "intRange"
             /\ InIntRange(v, m)
          \/ /\ IsNumber(v) /\ IsNumber(m)
             /\ numericCriterionHandlers(op, compareNumbers(v, m))
          \/ /\ IsNumber(v) \/ IsText(v)
             /\ IsNumber(m) \/ IsText(m)
             /\ DateCriterion(op, v, m)
          \/ /\ IsText(v) /\ IsText(m)
             /\ \/ RegexCriterion(op, v, m)
                \/ SemverCriterion(op, ParseQuietly(v.is), ParseQuietly(m.is))
=============================================================================
