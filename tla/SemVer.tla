------------------------------- MODULE SemVer -------------------------------
(***************************************************************************)
(* Semantic versions: how they are read, compared and printed.             *)
(*                                                                         *)
(* A text is opaque; Spelling gives the characters of those that may be    *)
(* numbers or versions, as a sequence of ASCII codes.                      *)
(***************************************************************************)
EXTENDS Integers, Sequences, FiniteSetsExt, SequencesExt

CONSTANTS
    Spelling,       \* a function; a text outside its domain is no version
    NoVersion,
    MaxInt          \* the largest int, which is an int64

ASSUME MaxIntAssumption == MaxInt \in Nat
ASSUME SpellingAssumption == \A t \in DOMAIN Spelling : Spelling[t] \in Seq(Nat)

Plus   == 43
Hyphen == 45
Dot    == 46
Digit  == 48 .. 57
Letter == (65 .. 90) \cup (97 .. 122)

Sign(n) == IF n < 0 THEN -1 ELSE IF n > 0 THEN 1 ELSE 0

-----------------------------------------------------------------------------
\* The library's strconv and strings

Unsigned(s) == IF s # <<>> /\ Head(s) \in {Plus, Hyphen} THEN Tail(s) ELSE s

\* strconv.Atoi, where it does not fail.
Atoi(s) ==
    LET digits == Unsigned(s)
        value[n \in 0 .. Len(digits)] ==
            IF n = 0 THEN 0 ELSE 10 * value[n - 1] + (digits[n] - 48)
        size == value[Len(digits)]
    IN  IF Head(s) = Hyphen THEN -size ELSE size

\* It takes a sign and rejects what overflows.
isNumeric(s) ==
    /\ Unsigned(s) # <<>> /\ ToSet(Unsigned(s)) \subseteq Digit
    /\ Atoi(s) \in -MaxInt - 1 .. MaxInt

Nth(S, n) == CHOOSE x \in S : Cardinality({y \in S : y <= x}) = n

Split(s, c) ==
    LET ends     == {i \in 1 .. Len(s) + 1 : i = Len(s) + 1 \/ s[i] = c}
        start(n) == IF n = 1 THEN 1 ELSE Nth(ends, n - 1) + 1
    IN  [n \in 1 .. Cardinality(ends) |-> SubSeq(s, start(n), Nth(ends, n) - 1)]

\* s < t for strings.
Precedes(s, t) ==
    \E n \in 0 .. Min({Len(s), Len(t)}) :
        /\ SubSeq(s, 1, n) = SubSeq(t, 1, n)
        /\ n < Len(t) /\ (n < Len(s) => s[n + 1] < t[n + 1])

\* One part, or two if the character is there.
CutAtFirst(s, c) ==
    LET at == SelectInSeq(s, LAMBDA x : x = c)
    IN  IF at = 0 THEN <<s>> ELSE <<SubSeq(s, 1, at - 1), SubSeq(s, at + 1, Len(s))>>

-----------------------------------------------------------------------------
\* Reading

\* Operators named ...Mistake are plausible errors in the definition that
\* follows them; the properties are checked to tell them apart.

\* 0|[1-9]\d*
IsNumeral(s) ==
    /\ s # <<>> /\ ToSet(s) \subseteq Digit
    /\ Head(s) = 48 => Len(s) = 1

IsIdentifier(s) == s # <<>> /\ ToSet(s) \subseteq Digit \cup Letter \cup {Hyphen}

\* A prerelease identifier of digits only is a numeral.
IsPrereleaseIdentifier(s) ==
    IsIdentifier(s) /\ (ToSet(s) \subseteq Digit => IsNumeral(s))

\* What follows the first "+" is build metadata, and what follows the first "-"
\* before it the prerelease.
findNamedMatches(s) ==
    LET build == CutAtFirst(s, Plus)
        pre   == CutAtFirst(build[1], Hyphen)
    IN  [numbers |-> Split(pre[1], Dot), prerelease |-> Tail(pre), buildmetadata |-> Tail(build)]

\* The pattern, by these parts.
semverPattern(matches) ==
    /\ Len(matches.numbers) = 3
    /\ \A number \in ToSet(matches.numbers) : IsNumeral(number)
    /\ \A pre \in ToSet(matches.prerelease) :
          \A id \in ToSet(Split(pre, Dot)) : IsPrereleaseIdentifier(id)
    /\ \A build \in ToSet(matches.buildmetadata) :
          \A id \in ToSet(Split(build, Dot)) : IsIdentifier(id)

\* The text of a group, which is empty where the group is missing.
Only(texts) == IF texts = <<>> THEN <<>> ELSE Head(texts)

Version(matches) ==
    IF semverPattern(matches) /\ \A number \in ToSet(matches.numbers) : isNumeric(number)
    THEN [major |-> Atoi(matches.numbers[1]), minor |-> Atoi(matches.numbers[2]),
          patch |-> Atoi(matches.numbers[3]), prerelease |-> Only(matches.prerelease),
          buildMetadata |-> Only(matches.buildmetadata)]
    ELSE NoVersion

Parse(s) == Version(findNamedMatches(s))

Versions == [t \in DOMAIN Spelling |-> Parse(Spelling[t])]

ParseQuietly(t) == IF t \in DOMAIN Spelling THEN Versions[t] ELSE NoVersion

-----------------------------------------------------------------------------
\* Comparing

comparePreReleaseIdentifiersOneSidedMistake(id1, id2) ==
    IF isNumeric(id1) /\ isNumeric(id2) THEN Sign(Atoi(id1) - Atoi(id2))
    ELSE IF isNumeric(id1) THEN -1
    ELSE IF Precedes(id1, id2) THEN -1 ELSE IF id1 = id2 THEN 0 ELSE 1

comparePreReleaseIdentifiers(id1, id2) ==
    IF isNumeric(id1) # isNumeric(id2) THEN IF isNumeric(id1) THEN -1 ELSE 1
    ELSE IF isNumeric(id1) THEN Sign(Atoi(id1) - Atoi(id2))
    ELSE IF Precedes(id1, id2) THEN -1 ELSE IF id1 = id2 THEN 0 ELSE 1

\* The first identifiers that differ decide, then the length; a version without
\* a prerelease comes after all that have one.
compareIdentifiers(ids1, ids2) ==
    LET order(i) == comparePreReleaseIdentifiers(ids1[i], ids2[i])
        differ   == {i \in DOMAIN ids1 \cap DOMAIN ids2 : order(i) # 0}
    IN  IF differ = {} THEN Sign(Len(ids1) - Len(ids2)) ELSE order(Min(differ))

comparePreRelease(pre1, pre2) ==
    IF pre1 = <<>> \/ pre2 = <<>> THEN Sign(Len(pre2) - Len(pre1))
    ELSE compareIdentifiers(Split(pre1, Dot), Split(pre2, Dot))

Compare(v, w) ==
    IF v.major # w.major THEN Sign(v.major - w.major)
    ELSE IF v.minor # w.minor THEN Sign(v.minor - w.minor)
    ELSE IF v.patch # w.patch THEN Sign(v.patch - w.patch)
    ELSE comparePreRelease(v.prerelease, w.prerelease)

\* Build metadata is ignored.
Equal(v, w) ==
    /\ v.major = w.major /\ v.minor = w.minor /\ v.patch = w.patch
    /\ v.prerelease = w.prerelease

-----------------------------------------------------------------------------
\* Printing

\* "%d" of a natural number.
Decimal(n) ==
    LET numeral[k \in 0 .. n] ==
            IF k < 10 THEN <<48 + k>> ELSE Append(numeral[k \div 10], 48 + (k % 10))
    IN  numeral[n]

String(v) ==
    Decimal(v.major) \o <<Dot>> \o Decimal(v.minor) \o <<Dot>> \o Decimal(v.patch)
    \o (IF v.prerelease = <<>> THEN <<>> ELSE <<Hyphen>> \o v.prerelease)
    \o (IF v.buildMetadata = <<>> THEN <<>> ELSE <<Plus>> \o v.buildMetadata)
=============================================================================
