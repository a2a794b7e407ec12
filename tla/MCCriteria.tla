----------------------------- MODULE MCCriteria -----------------------------
(***************************************************************************)
(* Values of every kind for TLC, and what the standard library says of the *)
(* texts among them.                                                       *)
(***************************************************************************)
EXTENDS Criteria, TLC

Text(s) == [kind |-> "string", is |-> s]
Integer(n)  == [kind |-> "int", is |-> n]

\* Texts with their prefixes and suffixes: "" is one of all.
MCHasPrefix(t, p)    == p \in {t, ""} \/ <<t, p>> = <<"ab", "a">>
MCHasSuffix(t, p)    == p \in {t, ""} \/ <<t, p>> = <<"ab", "b">>
MCContainsText(t, p) == MCHasPrefix(t, p) \/ MCHasSuffix(t, p)
MCFormatted(v)       == IF v.kind = "nil" THEN "" ELSE "ab"
MCMatchString(p, t)  == MCHasPrefix(t, p)
MCCompiles(p)        == p # "("
MCparseDate(t)       == IF t = "day5" THEN 5 ELSE NoDate

\* Prerelease identifiers: 1, 2, -5, a number that overflows an int of up to 31,
\* a, -a.
Identifiers == { <<49>>, <<50>>, <<45, 53>>, <<57, 57>>, <<97>>, <<45, 97>> }

OneZero == <<49, 46, 48, 46, 48>>

\* Versions 0.9.9, 1.0.1, 1.1.0, 31.0.0, and 1.0.0 with up to two identifiers,
\* with -05, 0 and -0, and with build metadata.
VersionTexts ==
    { <<48, 46, 57, 46, 57>>, <<49, 46, 48, 46, 49>>, <<49, 46, 49, 46, 48>>,
      <<51, 49, 46, 48, 46, 48>>, OneZero, OneZero \o <<45, 45, 48, 53>>,
      OneZero \o <<45, 48>>, OneZero \o <<45, 45, 48>>,
      OneZero \o <<43, 98, 45, 49>>, OneZero \o <<45, 97, 43, 48, 49>> }
        \cup { OneZero \o <<45>> \o id : id \in Identifiers }
        \cup { OneZero \o <<45>> \o id1 \o <<46>> \o id2 : id1, id2 \in Identifiers }

\* 01.0.0, 1.0, 32.0.0, 1.0.0-, 1.0.0-01, 1.0.0-a., 1.0.0+, and 1.0.0 with an "@".
OtherTexts ==
    { <<48, 49, 46, 48, 46, 48>>, <<49, 46, 48>>, <<51, 50, 46, 48, 46, 48>>,
      OneZero \o <<45>>, OneZero \o <<45, 48, 49>>, OneZero \o <<45, 97, 46>>,
      OneZero \o <<43>>, OneZero \o <<45, 64>> }

\* Each of these has a text, beside the number that is also a variable's value.
Texts == [t \in { ToString(x) : x \in VersionTexts \cup OtherTexts } |->
             CHOOSE x \in VersionTexts \cup OtherTexts : ToString(x) = t]
MCSpelling == ("6" :> <<54>>) @@ Texts

\* With three bits of significand 9, 17 and 31 are no floats; 31 is the largest
\* int64 and 40 a uint64 beyond it.
MCContextValue ==
    { Text(s) : s \in {"", "a", "ab", "b", "day5"} \cup DOMAIN Texts }
        \cup { Integer(n) : n \in {-32, -9, -1, 0, 1, 5, 8, 9, 16, 17, 31} }
        \cup { [kind |-> "float", is |-> n] : n \in {-32, -8, 0, 1, 8, 16, 32} }
        \cup { [kind |-> "uint", is |-> n] : n \in {0, 9, 40} }
        \cup { [kind |-> "bool", is |-> b] : b \in BOOLEAN }
        \cup { [kind |-> "strings", is |-> l] : l \in {<<>>, <<"b", "a">>} }
        \cup { [kind |-> "anys", is |-> <<Integer(1), Text("a")>>],
               [kind |-> "nil", is |-> <<>>] }

MCMatchValue ==
    { [kind |-> "strings", is |-> l] : l \in {<<>>, <<"">>, <<"a">>, <<"b", "ab">>} }
        \cup { Text(s) : s \in {"a", "(", "day5"} \cup DOMAIN Texts }
        \cup { Integer(n) : n \in {-9, 0, 8, 9, 16, 17, 31} }
        \cup { [kind |-> "float", is |-> n] : n \in {-8, 0, 8, 16} }
        \cup { [kind |-> "intRange", is |-> r] :
                 r \in { <<<<>>, <<>>>>, <<<<0>>, <<8>>>>, <<<<1>>, <<>>>>, <<<<>>, <<16>>>> } }
        \cup { [kind |-> "none", is |-> <<>>] }
=============================================================================
