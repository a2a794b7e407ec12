------------------------- MODULE CriterionVerdicts -------------------------
(***************************************************************************)
(* One criterion after another is evaluated against one context after      *)
(* another: what the verdicts of the operators have to do with each other. *)
(***************************************************************************)
EXTENDS Criteria

VARIABLES
    v,      \* the context's value for the criterion's property, or Absent
    m       \* the criterion's value

vars == <<v, m>>

Init == v \in ContextValue \cup {Absent} /\ m \in MatchValue

\* A call with another context.
NextContext == v' \in ContextValue \cup {Absent} /\ UNCHANGED m

\* The same call goes on to another criterion on the property.
NextCriterion == m' \in MatchValue /\ UNCHANGED v

Next == NextContext \/ NextCriterion

Spec == Init /\ [][Next]_vars

Verdict(op) == EvaluateCriterion(op, v, m)

-----------------------------------------------------------------------------
\* Properties

Complements ==
    { <<"PROP_ENDS_WITH_ONE_OF", "PROP_DOES_NOT_END_WITH_ONE_OF">>,
      <<"PROP_STARTS_WITH_ONE_OF", "PROP_DOES_NOT_START_WITH_ONE_OF">>,
      <<"PROP_CONTAINS_ONE_OF", "PROP_DOES_NOT_CONTAIN_ONE_OF">>,
      <<"PROP_IS_ONE_OF", "PROP_IS_NOT_ONE_OF">> }

\* A rule and its negation split the users between them: whatever the context
\* holds or lacks, and be the values of matching types or not, exactly one of the
\* two operators holds (config_rule_evaluator.go:140-203).  Slices of other types
\* than []string and []any, on which the code panics, are not among the values.
NegationsAreComplements ==
    \A pair \in Complements : Verdict(pair[1]) <=> ~Verdict(pair[2])

IsExact(n) == ToFloat64(n) = n

\* A number is in a range or not whether it came as an int or, from JSON, as a
\* float, if a float can hold it and the bounds (config_rule_evaluator.go:218).
\* Large integers lose digits on their way through a float, but a comparison
\* never holds against the order of the numbers, and among numbers "greater"
\* and "less or equal" split all cases (config_rule_evaluator.go:341).
NumbersKeepTheirOrder ==
    /\ v.kind = "int" /\ IsExact(v.is) /\ m.kind = "intRange"
       /\ (\A bound \in {m.is[1], m.is[2]} \ {<<>>} : IsExact(bound[1]))
       => (Verdict("IN_INT_RANGE")
             <=> EvaluateCriterion("IN_INT_RANGE", [v EXCEPT !.kind = "float"], m))
    /\ IsNumber(v) /\ IsNumber(m) =>
          /\ Verdict("PROP_GREATER_THAN") => v.is > m.is
          /\ Verdict("PROP_LESS_THAN") => v.is < m.is
          /\ Verdict("PROP_GREATER_THAN") <=> ~Verdict("PROP_LESS_THAN_OR_EQUAL")
          /\ Verdict("PROP_LESS_THAN") <=> ~Verdict("PROP_GREATER_THAN_OR_EQUAL")

IsVersion(x) == IsText(x) /\ ParseQuietly(x.is) # NoVersion
IsLess(x, y)  == EvaluateCriterion("PROP_SEMVER_LESS_THAN", x, y)
IsEqual(x, y) == EvaluateCriterion("PROP_SEMVER_EQUAL", x, y)

\* Versions, with prerelease identifiers of all kinds and lengths, are in one
\* order: two are less, equal or greater, the other way round when they are
\* swapped, and this goes on through a third one (semver.go:27, 170).
VersionsAreInOneOrder ==
    IsVersion(v) /\ IsVersion(m) =>
        /\ IsLess(v, m) <=> ~IsEqual(v, m) /\ ~Verdict("PROP_SEMVER_GREATER_THAN")
        /\ IsLess(v, m) <=> EvaluateCriterion("PROP_SEMVER_GREATER_THAN", m, v)
        /\ \A x \in ContextValue : IsVersion(x) =>
              /\ IsLess(x, v) /\ IsLess(v, m) => IsLess(x, m)
              /\ IsEqual(x, v) => (IsLess(x, m) <=> IsLess(v, m))

\* An identifier that Atoi takes for a negative number, as in 1.0.0--5.
HasNegative(x) ==
    \E id \in ToSet(Split(ParseQuietly(x.is).prerelease, Dot)) :
        isNumeric(id) /\ Head(id) = Hyphen

\* They are in one order, and none is taken for another: what is read prints as
\* the text it was, and two are equal to the operator just when Equal says so,
\* build metadata aside.  (It also takes 1.0.0--5 for 1.0.0--05, and 1.0.0--0 for
\* 1.0.0-0: Atoi reads the hyphen as a sign.)
VersionsAreOrdered ==
    /\ VersionsAreInOneOrder
    /\ IsVersion(v) => String(ParseQuietly(v.is)) = Spelling[v.is]
    /\ IsVersion(v) /\ IsVersion(m) =>
          \/ IsEqual(v, m) <=> Equal(ParseQuietly(v.is), ParseQuietly(m.is))
          \/ IsEqual(v, m) /\ (HasNegative(v) \/ HasNegative(m))
=============================================================================
