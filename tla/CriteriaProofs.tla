--------------------------- MODULE CriteriaProofs ---------------------------
(***************************************************************************)
(* Facts about the operators of criteria, for all values and whatever the  *)
(* standard library says of texts.                                         *)
(***************************************************************************)
EXTENDS CriterionVerdicts, SequenceTheorems, FiniteSetTheorems, WellFoundedInduction, TLAPS

\* An operator on lists of texts is decided by TextCriterion alone: no other kind
\* of comparison knows it.
LEMMA TextOperators ==
    ASSUME NEW op \in OneOf \cup NotOneOf
    PROVE  Verdict(op) <=> TextCriterion(op, v, m)
  <1>1. op # "ALWAYS_TRUE" /\ op # "HIERARCHICAL_MATCH" /\ op # "IN_INT_RANGE"
    BY DEF OneOf, NotOneOf
  <1>2. \A r : ~numericCriterionHandlers(op, r)
    BY DEF OneOf, NotOneOf, numericCriterionHandlers
  <1>3. ~DateCriterion(op, v, m)
    BY DEF OneOf, NotOneOf, DateCriterion
  <1>4. \A version, limit : ~SemverCriterion(op, version, limit)
    BY DEF OneOf, NotOneOf, SemverCriterion, semverCriterionHandlers
  <1>5. ~RegexCriterion(op, v, m)
    BY DEF OneOf, NotOneOf, RegexCriterion
  <1> QED
    BY <1>1, <1>2, <1>3, <1>4, <1>5 DEF Verdict, EvaluateCriterion

\* An operator and its negation look for the same thing.
LEMMA SameMatch ==
    ASSUME NEW pair \in Complements, NEW list
    PROVE  MatchFound(pair[1], v, list) <=> MatchFound(pair[2], v, list)
  <1>1. CASE pair = <<"PROP_ENDS_WITH_ONE_OF", "PROP_DOES_NOT_END_WITH_ONE_OF">>
    BY <1>1 DEF MatchFound
  <1>2. CASE pair = <<"PROP_STARTS_WITH_ONE_OF", "PROP_DOES_NOT_START_WITH_ONE_OF">>
    BY <1>2 DEF MatchFound
  <1>3. CASE pair = <<"PROP_CONTAINS_ONE_OF", "PROP_DOES_NOT_CONTAIN_ONE_OF">>
    BY <1>3 DEF MatchFound
  <1>4. CASE pair = <<"PROP_IS_ONE_OF", "PROP_IS_NOT_ONE_OF">>
    BY <1>4 DEF MatchFound
  <1> QED
    BY <1>1, <1>2, <1>3, <1>4 DEF Complements

LEMMA ExactlyOne == NegationsAreComplements
  <1> SUFFICES ASSUME NEW pair \in Complements
               PROVE  Verdict(pair[1]) <=> ~Verdict(pair[2])
    BY DEF NegationsAreComplements
  <1>1. /\ pair[1] \in OneOf /\ pair[1] \notin NotOneOf
        /\ pair[2] \in NotOneOf /\ pair[2] \notin OneOf
    BY DEF Complements, OneOf, NotOneOf
  <1>2. MatchFound(pair[1], v, m.is) <=> MatchFound(pair[2], v, m.is)
    BY SameMatch
  <1>3. TextCriterion(pair[1], v, m) <=> ~TextCriterion(pair[2], v, m)
    BY <1>1, <1>2 DEF TextCriterion
  <1> QED
    BY <1>1, <1>3, TextOperators

\* Of two complementary operators exactly one holds, for all values of the context
\* and of the criterion, of matching types or not, and for a property that no
\* context has (config_rule_evaluator.go:140-203).
THEOREM NegationsHoldExactlyOtherwise == Spec => []NegationsAreComplements
  BY ExactlyOne, PTL

-----------------------------------------------------------------------------
\* Natural numbers

LEMMA MinIsLeast ==
    ASSUME NEW S \in SUBSET Nat, S # {}
    PROVE  Min(S) \in S /\ \A y \in S : Min(S) <= y
  <1>1. PICK x \in S : \A y \in S : <<y, x>> \notin OpToRel(<, Nat)
    BY NatLessThanWellFounded, WFMin
  <1>2. \A y \in S : ~(y < x)
    BY <1>1, Zenon DEF OpToRel
  <1>3. \A y \in S : x <= y
    BY <1>2
  <1> QED
    BY <1>3 DEF Min

\* Induction, up to n.
LEMMA CountingUp ==
    ASSUME NEW n \in Nat, NEW Good, 0 \in Good,
           \A i \in 1 .. n : i - 1 \in Good => i \in Good
    PROVE  n \in Good
  <1> DEFINE Bad == (0 .. n) \ Good
  <1> SUFFICES ASSUME Bad # {}
               PROVE  FALSE
    OBVIOUS
  <1>1. PICK least : least = Min(Bad)
    OBVIOUS
  <1>2. least \in Bad /\ \A i \in Bad : least <= i
    <2>1. Bad \in SUBSET Nat
      OBVIOUS
    <2> HIDE DEF Bad
    <2> QED
      BY <1>1, <2>1, MinIsLeast
  <1>3. least \in 1 .. n /\ least - 1 \in 0 .. n /\ least - 1 < least
    BY <1>2
  <1>4. least - 1 \in Good
    BY <1>2, <1>3
  <1> QED
    BY <1>2, <1>3, <1>4

\* Powers of two count subsets.
LEMMA Doubling ==
    ASSUME NEW n \in Nat
    PROVE  2 ^ n \in Nat \ {0} /\ 2 ^ (n + 1) = 2 * 2 ^ n
  <1> DEFINE S == 1 .. n
             T == 1 .. n + 1
             With == {A \cup {n + 1} : A \in SUBSET S}
  <1>1. /\ IsFiniteSet(S) /\ Cardinality(S) = n
        /\ IsFiniteSet(T) /\ Cardinality(T) = n + 1
    BY FS_Interval
  <1>2. /\ IsFiniteSet(SUBSET S) /\ Cardinality(SUBSET S) = 2 ^ n
        /\ IsFiniteSet(SUBSET T) /\ Cardinality(SUBSET T) = 2 ^ (n + 1)
    BY <1>1, FS_SUBSET
  <1>3. T = S \cup {n + 1} /\ n + 1 \notin S
    OBVIOUS
  <1> HIDE DEF S, T
  <1>4. SUBSET T = (SUBSET S) \cup With /\ (SUBSET S) \cap With = {}
    <2>1. PICK W : W = With
      OBVIOUS
    <2>2. \A A \in SUBSET S : A \cup {n + 1} \in W
      BY <2>1
    <2>3. \A B \in W : \E A \in SUBSET S : B = A \cup {n + 1}
      BY <2>1
    <2> HIDE DEF With
    <2>4. ASSUME NEW A, A \subseteq T PROVE A \in SUBSET S \/ A \in W
      <3>1. CASE n + 1 \in A
        <4>1. PICK B : B = A \ {n + 1}
          OBVIOUS
        <4>2. B \in SUBSET S /\ A = B \cup {n + 1}
          BY <1>3, <2>4, <3>1, <4>1
        <4> QED
          BY <2>2, <4>2
      <3>2. CASE n + 1 \notin A
        <4>1. A \subseteq S
          BY <1>3, <2>4, <3>2
        <4> QED
          BY <4>1
      <3> QED
        BY <3>1, <3>2
    <2>5. ASSUME NEW B \in W PROVE B \subseteq T /\ ~(B \subseteq S)
      <3>1. PICK A \in SUBSET S : B = A \cup {n + 1}
        BY <2>3
      <3> QED
        BY <1>3, <3>1
    <2>6. S \subseteq T
      BY <1>3
    <2>7. SUBSET T \subseteq (SUBSET S) \cup W
      BY <2>4
    <2>8. (SUBSET S) \cup W \subseteq SUBSET T
      BY <2>5, <2>6
    <2>9. (SUBSET S) \cap W = {}
      BY <2>5
    <2>10. SUBSET T = (SUBSET S) \cup W
      BY <2>7, <2>8
    <2> QED
      BY <2>1, <2>9, <2>10
  <1>5. IsFiniteSet(With) /\ Cardinality(With) = 2 ^ n
    <2> DEFINE f == [A \in SUBSET S |-> A \cup {n + 1}]
    <2>1. f \in [SUBSET S -> With] /\ \A B \in With : \E A \in SUBSET S : f[A] = B
      OBVIOUS
    <2>2. ASSUME NEW A \in SUBSET S, NEW B \in SUBSET S, f[A] = f[B] PROVE A = B
      <3>1. A = (A \cup {n + 1}) \ {n + 1} /\ B = (B \cup {n + 1}) \ {n + 1}
        BY <1>3
      <3> QED
        BY <2>2, <3>1
    <2>3. f \in Bijection(SUBSET S, With)
      <3> HIDE DEF f, With
      <3> QED
        BY <2>1, <2>2 DEF Bijection, Injection, Surjection, IsInjective
    <2> QED
      BY <1>2, <2>3, FS_Bijection DEF ExistsBijection
  <1>6. Cardinality(SUBSET T) = Cardinality(SUBSET S) + Cardinality(With)
    <2>1. Cardinality((SUBSET S) \cup With)
            = Cardinality(SUBSET S) + Cardinality(With) - Cardinality((SUBSET S) \cap With)
      <3>1. PICK X, Y : X = SUBSET S /\ Y = With
        OBVIOUS
      <3>2. IsFiniteSet(X) /\ IsFiniteSet(Y)
        BY <1>2, <1>5, <3>1
      <3>3. Cardinality(X \cup Y) = Cardinality(X) + Cardinality(Y) - Cardinality(X \cap Y)
        BY <3>2, FS_Union
      <3> QED
        BY <3>1, <3>3
    <2>2. /\ Cardinality((SUBSET S) \cap With) = 0
          /\ Cardinality(SUBSET S) \in Nat /\ Cardinality(With) \in Nat
      BY <1>2, <1>4, <1>5, FS_EmptySet, FS_CardinalityType
    <2>3. PICK a \in Nat, b \in Nat : a = Cardinality(SUBSET S) /\ b = Cardinality(With)
      BY <2>2
    <2>4. Cardinality((SUBSET S) \cup With) = Cardinality(SUBSET T)
      BY <1>4
    <2>5. Cardinality(SUBSET T) = a + b - 0
      BY <2>1, <2>2, <2>3, <2>4
    <2> QED
      BY <2>3, <2>5
  <1>7. 2 ^ n \in Nat /\ 2 ^ n # 0
    <2>1. Cardinality(SUBSET S) \in Nat
      BY <1>2, FS_CardinalityType
    <2>2. SUBSET S # {}
      OBVIOUS
    <2>3. Cardinality(SUBSET S) # 0
      BY <1>2, <2>2, FS_EmptySet
    <2> QED
      BY <1>2, <2>1, <2>3
  <1> QED
    BY <1>2, <1>5, <1>6, <1>7

LEMMA PowerOfZero == 2 ^ 0 = 1
  <1>1. IsFiniteSet({}) /\ Cardinality({}) = 0
    BY FS_EmptySet
  <1>2. Cardinality(SUBSET {}) = 2 ^ 0
    BY <1>1, FS_SUBSET
  <1>3. SUBSET {} = {{}}
    OBVIOUS
  <1>4. Cardinality({{}}) = 1
    BY FS_Singleton
  <1> QED
    BY <1>2, <1>3, <1>4

\* Larger powers are multiples of smaller ones.
LEMMA PowersMultiply ==
    ASSUME NEW a \in Nat, NEW b \in Nat
    PROVE  2 ^ a \in Nat \ {0} /\ 2 ^ b \in Nat \ {0} /\ 2 ^ (a + b) = 2 ^ a * 2 ^ b
  <1> DEFINE Good == {i \in Nat : 2 ^ (a + i) = 2 ^ a * 2 ^ i}
  <1>1. \A i \in Nat : 2 ^ i \in Nat \ {0} /\ 2 ^ (i + 1) = 2 * 2 ^ i
    BY Doubling
  <1>2. 0 \in Good
    BY <1>1, PowerOfZero
  <1>3. ASSUME NEW i \in 1 .. b, i - 1 \in Good PROVE i \in Good
    <2>1. PICK j \in Nat : i = j + 1
      <3>1. i - 1 \in Nat /\ i = (i - 1) + 1
        OBVIOUS
      <3> QED
        BY <3>1
    <2>2. 2 ^ (a + j) = 2 ^ a * 2 ^ j
      <3>1. i - 1 = j
        BY <2>1
      <3> QED
        BY <1>3, <3>1
    <2>3. a + j \in Nat /\ a + (j + 1) = (a + j) + 1
      OBVIOUS
    <2>4. PICK x \in Nat, y \in Nat : x = 2 ^ a /\ y = 2 ^ j
      BY <1>1
    <2>5. 2 ^ (a + i) = 2 * (x * y) /\ 2 ^ i = 2 * y
      BY <1>1, <2>1, <2>2, <2>3, <2>4
    <2>6. 2 * (x * y) = x * (2 * y)
      OBVIOUS
    <2> QED
      BY <2>1, <2>4, <2>5, <2>6
  <1>4. b \in Good
    <2> HIDE DEF Good
    <2> QED
      BY <1>2, <1>3, CountingUp
  <1> QED
    BY <1>1, <1>4

LEMMA PowersGrow ==
    ASSUME NEW a \in Nat, NEW b \in Nat, a <= b
    PROVE  2 ^ a <= 2 ^ b
  <1>1. PICK d \in Nat : b = a + d
    <2>1. b - a \in Nat /\ b = a + (b - a)
      OBVIOUS
    <2> QED
      BY <2>1
  <1>2. PICK x \in Nat \ {0}, y \in Nat \ {0} : x = 2 ^ a /\ y = 2 ^ d
    BY PowersMultiply
  <1>3. 2 ^ b = x * y
    BY <1>1, <1>2, PowersMultiply
  <1>4. x <= x * y
    <2>1. PICK z \in Nat : y = z + 1
      <3>1. y - 1 \in Nat /\ y = (y - 1) + 1
        OBVIOUS
      <3> QED
        BY <3>1
    <2>2. x * (z + 1) = x * z + x /\ x * z \in Nat
      OBVIOUS
    <2> QED
      BY <2>1, <2>2
  <1> QED
    BY <1>2, <1>3, <1>4

-----------------------------------------------------------------------------
\* Rounding

LEMMA Dividing ==
    ASSUME NEW n \in Int, NEW u \in Nat \ {0}
    PROVE  /\ n \div u \in Int /\ n % u \in 0 .. u - 1
           /\ n = (n \div u) * u + (n % u)
  <1>1. n \div u \in Int /\ n % u \in Int /\ 0 <= n % u /\ n % u < u
    OBVIOUS
  <1>2. n = u * (n \div u) + (n % u)
    OBVIOUS
  <1>3. u * (n \div u) = (n \div u) * u
    BY <1>1
  <1> QED
    BY <1>1, <1>2, <1>3

LEMMA ProductsGrow ==
    ASSUME NEW a \in Int, NEW b \in Int, a <= b, NEW c \in Nat
    PROVE  a * c <= b * c /\ a * c \in Int /\ b * c \in Int
  <1>1. PICK d \in Nat : b = a + d
    <2>1. b - a \in Nat /\ b = a + (b - a)
      OBVIOUS
    <2> QED
      BY <2>1
  <1>2. (a + d) * c = a * c + d * c /\ d * c \in Nat /\ a * c \in Int
    OBVIOUS
  <1> QED
    BY <1>1, <1>2

\* Rounding to multiples of the same number keeps the order.
LEMMA RoundingGrows ==
    ASSUME NEW x \in Int, NEW y \in Int, x <= y, NEW u \in Nat \ {0}
    PROVE  Rounded(x, u) \in Int /\ Rounded(y, u) \in Int /\ Rounded(x, u) <= Rounded(y, u)
  <1>1. PICK p \in Int, q \in Int, r \in 0 .. u - 1, s \in 0 .. u - 1 :
            p = x \div u /\ q = y \div u /\ r = x % u /\ s = y % u
    BY Dividing
  <1>2. x = p * u + r /\ y = q * u + s
    BY <1>1, Dividing
  <1>3. PICK a \in Int, b \in Int : a = p * u /\ b = q * u
    OBVIOUS
  <1>4. (p + 1) * u = a + u /\ (q + 1) * u = b + u
    BY <1>3
  <1>5. /\ Rounded(x, u) = IF 2 * r < u \/ (2 * r = u /\ p % 2 = 0) THEN a ELSE a + u
        /\ Rounded(y, u) = IF 2 * s < u \/ (2 * s = u /\ q % 2 = 0) THEN b ELSE b + u
    BY <1>1, <1>3, <1>4 DEF Rounded
  <1>6. p <= q
    <2> SUFFICES ASSUME q + 1 <= p
                 PROVE  FALSE
      OBVIOUS
    <2>1. (q + 1) * u <= p * u
      BY ProductsGrow
    <2>2. b + u <= a
      BY <1>3, <1>4, <2>1
    <2> QED
      BY <1>2, <1>3, <2>2
  <1>7. CASE p = q
    <2>1. a = b /\ r <= s
      BY <1>2, <1>3, <1>7
    <2> QED
      BY <1>5, <1>7, <2>1
  <1>8. CASE p < q
    <2>1. p + 1 <= q
      BY <1>8
    <2>2. (p + 1) * u <= q * u
      BY <2>1, ProductsGrow
    <2>3. a + u <= b
      BY <1>3, <1>4, <2>2
    <2> QED
      BY <1>5, <2>3
  <1> QED
    BY <1>6, <1>7, <1>8

LEMMA MultiplesStay ==
    ASSUME NEW k \in Int, NEW u \in Nat \ {0}
    PROVE  Rounded(k * u, u) = k * u
  <1>1. PICK n \in Int : n = k * u
    OBVIOUS
  <1>2. PICK q \in Int, r \in 0 .. u - 1 : q = n \div u /\ r = n % u /\ n = q * u + r
    BY Dividing
  <1>3. q = k
    <2>1. CASE q < k
      <3>1. (q + 1) * u <= k * u
        BY <2>1, ProductsGrow
      <3>2. (q + 1) * u = q * u + u /\ q * u \in Int
        OBVIOUS
      <3> QED
        BY <1>1, <1>2, <3>1, <3>2
    <2>2. CASE k < q
      <3>1. (k + 1) * u <= q * u
        BY <2>2, ProductsGrow
      <3>2. (k + 1) * u = k * u + u /\ q * u \in Int
        OBVIOUS
      <3> QED
        BY <1>1, <1>2, <3>1, <3>2
    <2> QED
      BY <2>1, <2>2
  <1>4. r = 0
    BY <1>1, <1>2, <1>3
  <1>5. 2 * (n % u) < u
    BY <1>2, <1>4
  <1> QED
    BY <1>1, <1>2, <1>3, <1>5 DEF Rounded

\* Each number within the limit has an exponent.
LEMMA ExponentsExist ==
    ASSUME NEW n \in 1 - FloatLimit .. FloatLimit - 1, FloatLimit \in Nat
    PROVE  \E e \in 0 .. MaxExponent : IsExponent(n, e)
  <1>1. FloatBits \in Nat /\ MaxExponent \in Nat
    BY NumbersAssumption
  <1> DEFINE Enough == {e \in 0 .. MaxExponent : Magnitude(n) < 2 ^ (FloatBits + e)}
  <1>2. Magnitude(n) \in Nat /\ Magnitude(n) < FloatLimit
    BY DEF Magnitude
  <1>3. MaxExponent \in Enough
    BY <1>1, <1>2 DEF FloatLimit
  <1>4. PICK e : e = Min(Enough)
    OBVIOUS
  <1>5. e \in Enough /\ \A y \in Enough : e <= y
    <2>1. Enough \in SUBSET Nat /\ Enough # {}
      BY <1>1, <1>3
    <2> HIDE DEF Enough
    <2> QED
      BY <1>4, <2>1, MinIsLeast
  <1>6. CASE e = 0
    BY <1>5, <1>6 DEF IsExponent
  <1>7. CASE e # 0
    <2>1. e - 1 \in 0 .. MaxExponent /\ e - 1 < e /\ FloatBits + (e - 1) = FloatBits + e - 1
          /\ FloatBits + e - 1 \in Nat
      BY <1>1, <1>5, <1>7
    <2>2. ~(Magnitude(n) < 2 ^ (FloatBits + (e - 1)))
      BY <1>5, <2>1
    <2>3. 2 ^ (FloatBits + e - 1) \in Nat
      BY <2>1, Doubling
    <2>4. Magnitude(n) >= 2 ^ (FloatBits + e - 1)
      BY <1>2, <2>1, <2>2, <2>3
    <2> QED
      BY <1>5, <2>4 DEF IsExponent
  <1> QED
    BY <1>6, <1>7

LEMMA Rounding ==
    ASSUME NEW n \in 1 - FloatLimit .. FloatLimit - 1, FloatLimit \in Nat
    PROVE  \E e \in 0 .. MaxExponent : IsExponent(n, e) /\ ToFloat64(n) = Rounded(n, 2 ^ e)
  <1>1. PICK e : e = CHOOSE x \in 0 .. MaxExponent : IsExponent(n, x)
    OBVIOUS
  <1>2. e \in 0 .. MaxExponent /\ IsExponent(n, e)
    BY <1>1, ExponentsExist
  <1>3. ToFloat64(n) = Rounded(n, 2 ^ e)
    BY <1>1 DEF ToFloat64
  <1> QED
    BY <1>2, <1>3

\* What has an exponent is, as a float, within the powers of two around it.
LEMMA WithinPowers ==
    ASSUME NEW n \in Int, NEW e \in Nat, IsExponent(n, e)
    PROVE  /\ 2 ^ e \in Nat \ {0} /\ 2 ^ (FloatBits + e) \in Nat
           /\ -(2 ^ (FloatBits + e)) <= Rounded(n, 2 ^ e)
           /\ Rounded(n, 2 ^ e) <= 2 ^ (FloatBits + e)
           /\ e # 0 /\ n >= 0 => /\ 2 ^ (FloatBits + (e - 1)) <= n
                                 /\ 2 ^ (FloatBits + (e - 1)) <= Rounded(n, 2 ^ e)
           /\ e # 0 /\ n < 0  => /\ n <= -(2 ^ (FloatBits + (e - 1)))
                                 /\ Rounded(n, 2 ^ e) <= -(2 ^ (FloatBits + (e - 1)))
  <1>1. FloatBits \in Nat \ {0}
    BY NumbersAssumption
  <1>2. PICK u \in Nat \ {0}, k \in Nat \ {0} : u = 2 ^ e /\ k = 2 ^ FloatBits
    BY <1>1, PowersMultiply
  <1>3. 2 ^ (FloatBits + e) = k * u /\ k * u \in Nat
    BY <1>1, <1>2, PowersMultiply
  <1>4. PICK top \in Nat : top = k * u
    OBVIOUS
  <1>5. Magnitude(n) < top
    BY <1>3, <1>4 DEF IsExponent
  <1>6. -top <= n /\ n <= top
    BY <1>5 DEF Magnitude
  <1>7. Rounded(top, u) = top /\ Rounded(-top, u) = -top
    <2>1. PICK m1 \in Int, m2 \in Int : m1 = k /\ m2 = -k
      OBVIOUS
    <2>2. m1 * u = top /\ m2 * u = -top
      BY <1>4, <2>1
    <2>3. Rounded(m1 * u, u) = m1 * u /\ Rounded(m2 * u, u) = m2 * u
      BY MultiplesStay
    <2> QED
      BY <2>2, <2>3
  <1>8. -top <= Rounded(n, u) /\ Rounded(n, u) <= top /\ Rounded(n, u) \in Int
    <2>1. -top \in Int
      OBVIOUS
    <2> QED
      BY <1>6, <1>7, <2>1, RoundingGrows
  <1>9. ASSUME e # 0
        PROVE  \E low \in Nat :
                  /\ low = 2 ^ (FloatBits + (e - 1))
                  /\ n >= 0 => low <= n /\ low <= Rounded(n, u)
                  /\ n < 0  => n <= -low /\ Rounded(n, u) <= -low
    <2>1. FloatBits - 1 \in Nat /\ e - 1 \in Nat /\ FloatBits + (e - 1) = FloatBits - 1 + e
          /\ FloatBits + (e - 1) = FloatBits + e - 1 /\ FloatBits + (e - 1) \in Nat
      BY <1>1, <1>9
    <2>2. PICK j \in Nat \ {0} : j = 2 ^ (FloatBits - 1)
      BY <2>1, Doubling
    <2>3. 2 ^ (FloatBits + (e - 1)) = j * u
      BY <1>2, <2>1, <2>2, PowersMultiply
    <2>4. PICK low \in Nat : low = j * u
      OBVIOUS
    <2>5. low = 2 ^ (FloatBits + (e - 1)) /\ Magnitude(n) >= low
      BY <1>9, <2>1, <2>3, <2>4 DEF IsExponent
    <2>6. Rounded(low, u) = low /\ Rounded(-low, u) = -low
      <3>1. PICK m1 \in Int, m2 \in Int : m1 = j /\ m2 = -j
        OBVIOUS
      <3>2. m1 * u = low /\ m2 * u = -low
        BY <2>4, <3>1
      <3>3. Rounded(m1 * u, u) = m1 * u /\ Rounded(m2 * u, u) = m2 * u
        BY MultiplesStay
      <3> QED
        BY <3>2, <3>3
    <2>7. ASSUME n >= 0 PROVE low <= n /\ low <= Rounded(n, u)
      <3>1. low <= n
        BY <2>5, <2>7 DEF Magnitude
      <3> QED
        BY <2>6, <3>1, RoundingGrows
    <2>8. ASSUME n < 0 PROVE n <= -low /\ Rounded(n, u) <= -low
      <3>1. n <= -low /\ -low \in Int
        BY <2>5, <2>8 DEF Magnitude
      <3> QED
        BY <2>6, <3>1, RoundingGrows
    <2> QED
      BY <2>5, <2>7, <2>8
  <1> QED
    BY <1>2, <1>3, <1>4, <1>8, <1>9

\* The largest int is not rounded down.
LEMMA LargestIntRoundsUp ==
    ASSUME FloatLimit \in Nat, MaxInt \in 1 - FloatLimit .. FloatLimit - 1
    PROVE  ToFloat64(MaxInt) >= MaxInt
  <1>1. PICK e \in 0 .. MaxExponent :
            IsExponent(MaxInt, e) /\ ToFloat64(MaxInt) = Rounded(MaxInt, 2 ^ e)
    BY Rounding
  <1>2. PICK bits \in Nat : MaxInt = 2 ^ bits - 1
    BY NumbersAssumption
  <1>3. /\ MaxInt \in Nat /\ Magnitude(MaxInt) = MaxInt
        /\ e \in Nat /\ FloatBits \in Nat \ {0} /\ FloatBits - 1 \in Nat
    BY MaxIntAssumption, NumbersAssumption DEF Magnitude
  <1>4. CASE e = 0
    <2>1. PICK n \in Int, u \in Nat \ {0} : n = MaxInt /\ u = 1
      BY <1>3
    <2>2. Rounded(n * u, u) = n * u
      BY MultiplesStay
    <2>3. n * u = n
      BY <2>1
    <2> QED
      BY <1>1, <1>3, <1>4, <2>1, <2>2, <2>3, PowerOfZero
  <1>5. CASE e # 0
    <2>1. PICK j \in Nat \ {0}, w \in Nat \ {0} : j = 2 ^ (FloatBits - 1) /\ w = 2 ^ (e - 1)
      BY <1>3, <1>5, Doubling
    <2>2. 2 ^ FloatBits = 2 * j /\ 2 ^ e = 2 * w
      <3>1. /\ (FloatBits - 1) + 1 = FloatBits /\ (e - 1) + 1 = e /\ e - 1 \in Nat
        BY <1>3, <1>5
      <3> QED
        BY <1>3, <2>1, <3>1, Doubling
    <2>3. PICK u \in Nat \ {0}, k \in Nat \ {0} : u = 2 * w /\ k = 2 * j
      BY <2>1
    <2>4. MaxInt = k * u - 1
      <3>1. bits = FloatBits + e
        <4>1. CASE bits < FloatBits + e
          <5>1. bits <= FloatBits + e - 1 /\ FloatBits + e - 1 \in Nat
            BY <1>2, <1>3, <1>5, <4>1
          <5>2. 2 ^ bits <= 2 ^ (FloatBits + e - 1)
            BY <5>1, PowersGrow
          <5>3. MaxInt >= 2 ^ (FloatBits + e - 1)
            BY <1>1, <1>3, <1>5 DEF IsExponent
          <5>4. 2 ^ bits \in Nat /\ 2 ^ (FloatBits + e - 1) \in Nat
            BY <5>1, Doubling
          <5> QED
            BY <1>2, <5>2, <5>3, <5>4
        <4>2. CASE bits > FloatBits + e
          <5>1. FloatBits + e \in Nat /\ FloatBits + e + 1 \in Nat /\ FloatBits + e + 1 <= bits
            BY <1>2, <1>3, <4>2
          <5>2. 2 ^ (FloatBits + e + 1) <= 2 ^ bits
            BY <5>1, PowersGrow
          <5>3. 2 ^ (FloatBits + e + 1) = 2 * 2 ^ (FloatBits + e) /\ 2 ^ (FloatBits + e) \in Nat \ {0}
                /\ 2 ^ bits \in Nat
            BY <5>1, Doubling
          <5>4. MaxInt < 2 ^ (FloatBits + e)
            BY <1>1, <1>3 DEF IsExponent
          <5> QED
            BY <1>2, <5>2, <5>3, <5>4
        <4> QED
          BY <1>2, <1>3, <4>1, <4>2
      <3> QED
        <4>1. 2 ^ (FloatBits + e) = 2 ^ FloatBits * 2 ^ e
          BY <1>3, PowersMultiply
        <4> QED
          BY <1>2, <2>2, <2>3, <3>1, <4>1
    <2>5. PICK q \in Int, r \in 0 .. u - 1 :
              q = MaxInt \div u /\ r = MaxInt % u /\ MaxInt = q * u + r
      <3>1. MaxInt \in Int
        BY <1>3
      <3> QED
        BY <3>1, Dividing
    <2>6. q = k - 1 /\ r = u - 1
      <3>1. PICK t \in Int : t = k * u
        OBVIOUS
      <3>2. CASE q + 1 < k
        <4>1. (q + 2) * u <= k * u
          BY <3>2, ProductsGrow
        <4>2. (q + 2) * u = q * u + u + u
          OBVIOUS
        <4>3. PICK a \in Int : a = q * u
          OBVIOUS
        <4> QED
          BY <2>4, <2>5, <3>1, <4>1, <4>2, <4>3
      <3>3. CASE q >= k
        <4>1. k * u <= q * u
          BY <3>3, ProductsGrow
        <4>2. PICK a \in Int : a = q * u
          OBVIOUS
        <4> QED
          BY <2>4, <2>5, <3>1, <4>1, <4>2
      <3>4. q = k - 1
        BY <3>2, <3>3
      <3>5. k * u = q * u + u
        BY <3>4
      <3>6. PICK a \in Int : a = q * u
        OBVIOUS
      <3> QED
        BY <2>4, <2>5, <3>4, <3>5, <3>6
    <2>7. q % 2 # 0
      <3>1. q = 2 * (j - 1) + 1 /\ j - 1 \in Nat
        BY <2>3, <2>6
      <3> QED
        BY <3>1
    <2>8. ~(2 * r < u \/ (2 * r = u /\ q % 2 = 0))
      BY <2>3, <2>6, <2>7
    <2>9. Rounded(MaxInt, u) = (q + 1) * u
      BY <2>5, <2>8 DEF Rounded
    <2>10. (q + 1) * u = MaxInt + 1
      BY <2>4, <2>6
    <2> QED
      BY <1>1, <1>3, <2>2, <2>3, <2>9, <2>10
  <1> QED
    BY <1>4, <1>5

\* A conversion to float keeps the order, though not what is apart.
LEMMA FloatsKeepOrder ==
    ASSUME FloatLimit \in Nat,
           NEW x \in 1 - FloatLimit .. FloatLimit - 1,
           NEW y \in 1 - FloatLimit .. FloatLimit - 1, x <= y
    PROVE  ToFloat64(x) \in Int /\ ToFloat64(y) \in Int /\ ToFloat64(x) <= ToFloat64(y)
  <1>1. PICK d \in 0 .. MaxExponent : IsExponent(x, d) /\ ToFloat64(x) = Rounded(x, 2 ^ d)
    BY Rounding
  <1>2. PICK e \in 0 .. MaxExponent : IsExponent(y, e) /\ ToFloat64(y) = Rounded(y, 2 ^ e)
    BY Rounding
  <1>3. x \in Int /\ y \in Int /\ d \in Nat /\ e \in Nat /\ FloatBits \in Nat \ {0}
    BY NumbersAssumption
  <1>4. PICK u \in Nat \ {0}, w \in Nat \ {0} : u = 2 ^ d /\ w = 2 ^ e
    BY <1>3, Doubling
  <1>5. Rounded(x, u) \in Int /\ Rounded(y, w) \in Int
    BY <1>3, RoundingGrows
  <1>6. CASE d = e
    BY <1>1, <1>2, <1>3, <1>4, <1>6, RoundingGrows
  <1>7. CASE d < e
    <2>1. e # 0 /\ FloatBits + d \in Nat /\ FloatBits + (e - 1) \in Nat
          /\ FloatBits + d <= FloatBits + (e - 1)
      BY <1>3, <1>7
    <2>2. PICK a \in Nat, b \in Nat :
              a = 2 ^ (FloatBits + d) /\ b = 2 ^ (FloatBits + (e - 1)) /\ a <= b
      BY <2>1, Doubling, PowersGrow
    <2>3. Rounded(x, u) <= a /\ -a < x
      <3>1. Rounded(x, u) <= a
        BY <1>1, <1>3, <1>4, <2>2, WithinPowers
      <3>2. Magnitude(x) < a
        BY <1>1, <2>2 DEF IsExponent
      <3> QED
        BY <1>3, <3>1, <3>2 DEF Magnitude
    <2>4. (y >= 0 => b <= Rounded(y, w)) /\ (y < 0 => y <= -b)
      BY <1>2, <1>3, <1>4, <2>1, <2>2, WithinPowers
    <2>5. Rounded(x, u) <= Rounded(y, w)
      BY <1>3, <1>5, <2>2, <2>3, <2>4
    <2> QED
      BY <1>1, <1>2, <1>4, <1>5, <2>5
  <1>8. CASE e < d
    <2>1. d # 0 /\ FloatBits + e \in Nat /\ FloatBits + (d - 1) \in Nat
          /\ FloatBits + e <= FloatBits + (d - 1)
      BY <1>3, <1>8
    <2>2. PICK a \in Nat, b \in Nat :
              a = 2 ^ (FloatBits + e) /\ b = 2 ^ (FloatBits + (d - 1)) /\ a <= b
      BY <2>1, Doubling, PowersGrow
    <2>3. -a <= Rounded(y, w) /\ y < a
      <3>1. -a <= Rounded(y, w)
        BY <1>2, <1>3, <1>4, <2>2, WithinPowers
      <3>2. Magnitude(y) < a
        BY <1>2, <2>2 DEF IsExponent
      <3> QED
        BY <1>3, <3>1, <3>2 DEF Magnitude
    <2>4. (x >= 0 => b <= x) /\ (x < 0 => Rounded(x, u) <= -b)
      BY <1>1, <1>3, <1>4, <2>1, <2>2, WithinPowers
    <2>5. Rounded(x, u) <= Rounded(y, w)
      BY <1>3, <1>5, <2>2, <2>3, <2>4
    <2> QED
      BY <1>1, <1>2, <1>4, <1>5, <2>5
  <1> QED
    BY <1>3, <1>6, <1>7, <1>8

-----------------------------------------------------------------------------
\* Numbers in criteria

TypeInv == v \in ContextValue \cup {Absent} /\ m \in MatchValue

LEMMA TypeInvariant == Spec => []TypeInv
  <1>1. Init => TypeInv
    BY DEF Init, TypeInv
  <1>2. TypeInv /\ [Next]_vars => TypeInv'
    BY DEF TypeInv, Next, NextContext, NextCriterion, vars
  <1> QED
    BY <1>1, <1>2, PTL DEF Spec

\* Numbers are within the limit.
LEMMA NumbersAreSmall ==
    /\ FloatLimit \in Nat /\ -MaxInt - 1 .. MaxInt \subseteq 1 - FloatLimit .. FloatLimit - 1
    /\ \A x \in ContextValue \cup MatchValue :
          IsNumber(x) => x.is \in 1 - FloatLimit .. FloatLimit - 1
  <1>1. FloatLimit \in Nat
    <2>1. FloatBits + MaxExponent \in Nat
      BY NumbersAssumption
    <2> QED
      BY <2>1, Doubling DEF FloatLimit
  <1>2. 2 * MaxInt + 1 < FloatLimit /\ MaxInt \in Nat
    <2>1. PICK bits \in 0 .. FloatBits + MaxExponent - 1 : MaxInt = 2 ^ bits - 1
      BY NumbersAssumption
    <2>2. bits \in Nat /\ bits + 1 \in Nat /\ bits + 1 <= FloatBits + MaxExponent
          /\ FloatBits + MaxExponent \in Nat
      BY NumbersAssumption
    <2>3. 2 ^ (bits + 1) <= FloatLimit /\ 2 ^ (bits + 1) = 2 * 2 ^ bits
      BY <2>2, PowersGrow, Doubling DEF FloatLimit
    <2> QED
      BY <1>1, <2>1, <2>3, MaxIntAssumption
  <1>3. -MaxInt - 1 .. MaxInt \subseteq 1 - FloatLimit .. FloatLimit - 1
    BY <1>1, <1>2
  <1>4. ASSUME NEW x \in ContextValue \cup MatchValue, IsNumber(x)
        PROVE  x.is \in 1 - FloatLimit .. FloatLimit - 1
    <2>1. CASE x.kind = "int"
      BY <1>3, <2>1, NumbersAssumption
    <2>2. CASE x.kind = "uint"
      <3>1. x.is \in 0 .. 2 * MaxInt + 1
        BY <2>2, NumbersAssumption
      <3> QED
        BY <1>1, <1>2, <3>1
    <2>3. CASE x.kind = "float"
      BY <2>3, NumbersAssumption
    <2> QED
      BY <1>4, <2>1, <2>2, <2>3 DEF IsNumber
  <1> QED
    BY <1>1, <1>3, <1>4

NumericOperators ==
    {"PROP_GREATER_THAN", "PROP_GREATER_THAN_OR_EQUAL", "PROP_LESS_THAN", "PROP_LESS_THAN_OR_EQUAL"}

LEMMA NumericVerdict ==
    ASSUME NEW op \in NumericOperators, IsNumber(v), IsNumber(m)
    PROVE  Verdict(op) <=> numericCriterionHandlers(op, compareNumbers(v, m))
  <1>1. /\ op # "ALWAYS_TRUE" /\ op # "HIERARCHICAL_MATCH" /\ op # "IN_INT_RANGE"
        /\ op \notin OneOf \cup NotOneOf
    BY DEF NumericOperators, OneOf, NotOneOf
  <1>2. ~DateCriterion(op, v, m)
    BY DEF NumericOperators, DateCriterion
  <1>3. ~IsText(v) /\ v # Absent
    BY DEF IsNumber, IsText, Absent
  <1> QED
    BY <1>1, <1>2, <1>3 DEF Verdict, EvaluateCriterion

LEMMA RangeVerdict ==
    ASSUME NEW x, x # Absent, NEW range, range.kind = "intRange"
    PROVE  EvaluateCriterion("IN_INT_RANGE", x, range) <=> InIntRange(x, range)
  <1>1. "IN_INT_RANGE" \notin OneOf \cup NotOneOf
    BY DEF OneOf, NotOneOf
  <1>2. ~IsText(range) /\ ~IsNumber(range)
    BY DEF IsText, IsNumber
  <1> QED
    BY <1>1, <1>2 DEF EvaluateCriterion

\* The same range holds a number as an int and as a float.
LEMMA RangesAgree ==
    ASSUME TypeInv, v.kind = "int", IsExact(v.is), m.kind = "intRange",
           \A bound \in {m.is[1], m.is[2]} \ {<<>>} : IsExact(bound[1])
    PROVE  Verdict("IN_INT_RANGE")
             <=> EvaluateCriterion("IN_INT_RANGE", [v EXCEPT !.kind = "float"], m)
  <1>1. PICK n : n = v.is
    OBVIOUS
  <1>2. v \in ContextValue /\ m \in MatchValue
    BY DEF TypeInv, Absent
  <1>3. n \in -MaxInt - 1 .. MaxInt /\ v = [kind |-> "int", is |-> n]
    BY <1>1, <1>2, NumbersAssumption DEF IsNumber
  <1>4. PICK float : float = [v EXCEPT !.kind = "float"]
    OBVIOUS
  <1>5. float.kind = "float" /\ float.is = n
    BY <1>3, <1>4
  <1>6. PICK start, end : start = defaultInt(m.is[1], -MaxInt - 1)
                          /\ end = defaultInt(m.is[2], MaxInt)
    OBVIOUS
  <1>7. MaxInt \in Nat /\ FloatLimit \in Nat
    BY MaxIntAssumption, NumbersAreSmall
  <1>8. n >= start <=> n >= ToFloat64(start)
    <2>1. CASE m.is[1] = <<>>
      <3>1. start = -MaxInt - 1 /\ start <= n /\ start \in -MaxInt - 1 .. MaxInt
        BY <1>3, <1>6, <1>7, <2>1 DEF defaultInt
      <3>2. /\ start \in 1 - FloatLimit .. FloatLimit - 1 /\ n \in 1 - FloatLimit .. FloatLimit - 1
        BY <1>3, <3>1, NumbersAreSmall
      <3>3. ToFloat64(start) <= ToFloat64(n)
        BY <1>7, <3>1, <3>2, FloatsKeepOrder
      <3> QED
        BY <1>1, <3>1, <3>3 DEF IsExact
    <2>2. CASE m.is[1] # <<>>
      <3>1. start = m.is[1][1]
        BY <1>6, <2>2 DEF defaultInt
      <3>2. ToFloat64(start) = start
        BY <2>2, <3>1 DEF IsExact
      <3> QED
        BY <3>2
    <2> QED
      BY <2>1, <2>2
  <1>9. n < end <=> n < ToFloat64(end)
    <2>1. CASE m.is[2] = <<>>
      <3>1. end = MaxInt
        BY <1>6, <2>1 DEF defaultInt
      <3>2. ToFloat64(MaxInt) >= MaxInt
        <4>1. MaxInt \in 1 - FloatLimit .. FloatLimit - 1
          BY <1>7, NumbersAreSmall
        <4> QED
          BY <1>7, <4>1, LargestIntRoundsUp
      <3>3. ToFloat64(MaxInt) \in Int
        <4>1. MaxInt \in 1 - FloatLimit .. FloatLimit - 1
          BY <1>7, NumbersAreSmall
        <4> QED
          BY <1>7, <4>1, FloatsKeepOrder
      <3>4. n = MaxInt => ToFloat64(MaxInt) = MaxInt
        BY <1>1 DEF IsExact
      <3> QED
        BY <1>3, <1>7, <3>1, <3>2, <3>3, <3>4
    <2>2. CASE m.is[2] # <<>>
      <3>1. end = m.is[2][1]
        BY <1>6, <2>2 DEF defaultInt
      <3>2. ToFloat64(end) = end
        BY <2>2, <3>1 DEF IsExact
      <3> QED
        BY <3>2
    <2> QED
      BY <2>1, <2>2
  <1>10. InIntRange(v, m) <=> n >= start /\ n < end
    BY <1>1, <1>6 DEF InIntRange
  <1>11. InIntRange(float, m) <=> n >= ToFloat64(start) /\ n < ToFloat64(end)
    BY <1>5, <1>6 DEF InIntRange
  <1>12. v # Absent /\ float # Absent
    BY <1>5 DEF Absent
  <1>13. /\ Verdict("IN_INT_RANGE") <=> InIntRange(v, m)
         /\ EvaluateCriterion("IN_INT_RANGE", float, m) <=> InIntRange(float, m)
    BY <1>12, RangeVerdict DEF Verdict
  <1> QED
    BY <1>4, <1>8, <1>9, <1>10, <1>11, <1>13

LEMMA ComparisonsAgree ==
    ASSUME TypeInv, IsNumber(v), IsNumber(m)
    PROVE  /\ Verdict("PROP_GREATER_THAN") => v.is > m.is
           /\ Verdict("PROP_LESS_THAN") => v.is < m.is
           /\ Verdict("PROP_GREATER_THAN") <=> ~Verdict("PROP_LESS_THAN_OR_EQUAL")
           /\ Verdict("PROP_LESS_THAN") <=> ~Verdict("PROP_GREATER_THAN_OR_EQUAL")
  <1>1. PICK x, y : x = v.is /\ y = m.is
    OBVIOUS
  <1>2. v \in ContextValue /\ m \in MatchValue
    BY DEF TypeInv, Absent, IsNumber
  <1>3. /\ FloatLimit \in Nat
        /\ x \in 1 - FloatLimit .. FloatLimit - 1 /\ y \in 1 - FloatLimit .. FloatLimit - 1
    BY <1>1, <1>2, NumbersAreSmall
  <1>4. /\ ToFloat64(x) \in Int /\ ToFloat64(y) \in Int
        /\ x <= y => ToFloat64(x) <= ToFloat64(y)
        /\ y <= x => ToFloat64(y) <= ToFloat64(x)
    BY <1>3, FloatsKeepOrder
  <1>5. PICK result : result = compareNumbers(v, m)
    OBVIOUS
  <1>6. /\ result > 0 <=> ToFloat64(x) > ToFloat64(y)
        /\ result < 0 <=> ToFloat64(x) < ToFloat64(y)
        /\ result \in Int
    BY <1>1, <1>4, <1>5 DEF compareNumbers, Sign
  <1>7. /\ Verdict("PROP_GREATER_THAN") <=> result > 0
        /\ Verdict("PROP_LESS_THAN") <=> result < 0
        /\ Verdict("PROP_LESS_THAN_OR_EQUAL") <=> result <= 0
        /\ Verdict("PROP_GREATER_THAN_OR_EQUAL") <=> result >= 0
    <2>1. \A op \in NumericOperators : Verdict(op) <=> numericCriterionHandlers(op, result)
      BY <1>5, NumericVerdict
    <2> QED
      BY <2>1 DEF NumericOperators, numericCriterionHandlers
  <1>8. x \in Int /\ y \in Int
    BY <1>3
  <1> QED
    BY <1>1, <1>4, <1>6, <1>7, <1>8

\* Whatever the widths of ints and of floats, no comparison goes against the order of the
\* numbers, and a range treats a number alike as an int and as a float
\* (config_rule_evaluator.go:218, 341).
THEOREM NumbersStayInOrder == Spec => []NumbersKeepTheirOrder
  <1>1. TypeInv => NumbersKeepTheirOrder
    BY RangesAgree, ComparisonsAgree DEF NumbersKeepTheirOrder
  <1> QED
    BY <1>1, TypeInvariant, PTL

-----------------------------------------------------------------------------
\* Orders

Signs == {-1, 0, 1}

\* What the orders of a and b, of b and c, and of a and c have to do with each other.
Consistent(x, y, z) == x <= 0 /\ y <= 0 => z <= 0 /\ (z < 0 <=> x < 0 \/ y < 0)

\* The first that is not zero.
Lex(p) ==
    LET differ == {i \in Nat : p[i] # 0}
    IN  IF differ = {} THEN 0 ELSE p[Min(differ)]

LEMMA LexIsFirst ==
    ASSUME NEW p \in [Nat -> Signs]
    PROVE  /\ Lex(p) \in Signs
           /\ Lex(p) = 0 <=> \A i \in Nat : p[i] = 0
           /\ Lex(p) # 0 =>
                \E i \in Nat : p[i] = Lex(p) /\ \A j \in Nat : j < i => p[j] = 0
           /\ \A i \in Nat :
                p[i] # 0 /\ (\A j \in Nat : j < i => p[j] = 0) => Lex(p) = p[i]
  <1>1. PICK differ : differ = {i \in Nat : p[i] # 0}
    OBVIOUS
  <1>2. Lex(p) = IF differ = {} THEN 0 ELSE p[Min(differ)]
    BY <1>1 DEF Lex
  <1>3. CASE differ = {}
    BY <1>1, <1>2, <1>3 DEF Signs
  <1>4. CASE differ # {}
    <2>1. PICK least : least = Min(differ)
      OBVIOUS
    <2>2. differ \in SUBSET Nat
      BY <1>1
    <2>3. least \in differ /\ \A y \in differ : least <= y
      BY <1>4, <2>1, <2>2, MinIsLeast
    <2>4. least \in Nat /\ p[least] # 0 /\ p[least] \in Signs /\ Lex(p) = p[least]
      BY <1>1, <1>2, <1>4, <2>1, <2>3
    <2>5. ASSUME NEW j \in Nat, j < least PROVE p[j] = 0
      BY <1>1, <2>3, <2>4, <2>5
    <2>6. ASSUME NEW i \in Nat, p[i] # 0, \A j \in Nat : j < i => p[j] = 0
          PROVE  i = least
      BY <1>1, <2>3, <2>4, <2>6
    <2> QED
      BY <2>4, <2>5, <2>6
  <1> QED
    BY <1>3, <1>4

LEMMA LexIsConsistent ==
    ASSUME NEW p \in [Nat -> Signs], NEW q \in [Nat -> Signs], NEW r \in [Nat -> Signs],
           \A i \in Nat : Consistent(p[i], q[i], r[i])
    PROVE  Consistent(Lex(p), Lex(q), Lex(r))
  <1> SUFFICES ASSUME Lex(p) <= 0, Lex(q) <= 0
               PROVE  Lex(r) <= 0 /\ (Lex(r) < 0 <=> Lex(p) < 0 \/ Lex(q) < 0)
    BY DEF Consistent
  <1>1. PICK differ : differ = {i \in Nat : p[i] # 0 \/ q[i] # 0}
    OBVIOUS
  <1>2. \A i \in Nat : p[i] = 0 /\ q[i] = 0 => r[i] = 0
    BY DEF Consistent, Signs
  <1>3. CASE differ = {}
    <2>1. \A i \in Nat : p[i] = 0 /\ q[i] = 0 /\ r[i] = 0
      BY <1>1, <1>2, <1>3
    <2>2. Lex(p) = 0 /\ Lex(q) = 0 /\ Lex(r) = 0
      BY <2>1, LexIsFirst
    <2> QED
      BY <2>2
  <1>4. CASE differ # {}
    <2>1. PICK least : least = Min(differ)
      OBVIOUS
    <2>2. differ \in SUBSET Nat
      BY <1>1
    <2>3. least \in differ /\ \A y \in differ : least <= y
      BY <1>4, <2>1, <2>2, MinIsLeast
    <2>4. least \in Nat /\ (p[least] # 0 \/ q[least] # 0)
      BY <1>1, <2>3
    <2>5. ASSUME NEW j \in Nat, j < least PROVE p[j] = 0 /\ q[j] = 0 /\ r[j] = 0
      <3>1. j \notin differ
        BY <2>3, <2>4, <2>5
      <3> QED
        BY <1>1, <1>2, <3>1
    <2>6. /\ p[least] # 0 => Lex(p) = p[least]
          /\ q[least] # 0 => Lex(q) = q[least]
      BY <2>4, <2>5, LexIsFirst
    <2>7. p[least] \in Signs /\ q[least] \in Signs /\ r[least] \in Signs
      BY <2>4
    <2>8. p[least] <= 0 /\ q[least] <= 0 /\ (p[least] < 0 \/ q[least] < 0)
      BY <2>4, <2>6, <2>7 DEF Signs
    <2>9. r[least] < 0
      BY <2>4, <2>8 DEF Consistent
    <2>10. Lex(r) = r[least]
      <3>1. r[least] # 0
        BY <2>7, <2>9 DEF Signs
      <3> QED
        BY <2>4, <2>5, <3>1, LexIsFirst
    <2>11. Lex(p) < 0 \/ Lex(q) < 0
      BY <2>6, <2>7, <2>8 DEF Signs
    <2> QED
      BY <2>7, <2>9, <2>10, <2>11 DEF Signs
  <1> QED
    BY <1>3, <1>4

LEMMA LexIsOpposite ==
    ASSUME NEW p \in [Nat -> Signs], NEW q \in [Nat -> Signs], \A i \in Nat : q[i] = -p[i]
    PROVE  Lex(q) = -Lex(p)
  <1>1. CASE Lex(p) = 0
    <2>1. \A i \in Nat : q[i] = 0
      BY <1>1, LexIsFirst
    <2> QED
      BY <1>1, <2>1, LexIsFirst
  <1>2. CASE Lex(p) # 0
    <2>1. PICK i \in Nat : p[i] = Lex(p) /\ \A j \in Nat : j < i => p[j] = 0
      BY <1>2, LexIsFirst
    <2>2. q[i] # 0 /\ \A j \in Nat : j < i => q[j] = 0
      <3>1. p[i] \in Signs /\ p[i] # 0 /\ q[i] = -p[i]
        BY <1>2, <2>1
      <3> QED
        BY <2>1, <3>1 DEF Signs
    <2> QED
      BY <2>1, <2>2, LexIsFirst
  <1> QED
    BY <1>1, <1>2

\* An order by a number first.
LEMMA NumberFirst ==
    ASSUME NEW x \in Int, NEW y \in Int, NEW z \in Int,
           NEW p \in Signs, NEW q \in Signs, NEW r \in Signs, Consistent(p, q, r)
    PROVE  /\ Consistent(IF x # y THEN Sign(x - y) ELSE p, IF y # z THEN Sign(y - z) ELSE q,
                         IF x # z THEN Sign(x - z) ELSE r)
           /\ (IF x # y THEN Sign(x - y) ELSE p) \in Signs
           /\ (IF y # x THEN Sign(y - x) ELSE -p) = -(IF x # y THEN Sign(x - y) ELSE p)
  BY DEF Consistent, Sign, Signs

\* What ends comes before what goes on.
WithEnds(i, n1, n2, order) ==
    IF i >= n1 THEN IF i >= n2 THEN 0 ELSE -1 ELSE IF i >= n2 THEN 1 ELSE order

LEMMA EndsAreConsistent ==
    ASSUME NEW i \in Nat, NEW n1 \in Nat, NEW n2 \in Nat, NEW n3 \in Nat, NEW x, NEW y, NEW z,
           i < n1 /\ i < n2 => x \in Signs,
           i < n2 /\ i < n3 => y \in Signs,
           i < n1 /\ i < n3 => z \in Signs,
           i < n1 /\ i < n2 /\ i < n3 => Consistent(x, y, z)
    PROVE  /\ WithEnds(i, n1, n2, x) \in Signs
           /\ WithEnds(i, n2, n1, -x) = -WithEnds(i, n1, n2, x)
           /\ Consistent(WithEnds(i, n1, n2, x), WithEnds(i, n2, n3, y), WithEnds(i, n1, n3, z))
  <1>1. WithEnds(i, n1, n2, x) \in Signs
    BY DEF WithEnds, Signs
  <1>2. WithEnds(i, n2, n1, -x) = -WithEnds(i, n1, n2, x)
    BY DEF WithEnds, Signs
  <1>3. Consistent(WithEnds(i, n1, n2, x), WithEnds(i, n2, n3, y), WithEnds(i, n1, n3, z))
    <2>1. CASE i < n1 /\ i < n2 /\ i < n3
      <3>1. /\ WithEnds(i, n1, n2, x) = x /\ WithEnds(i, n2, n3, y) = y
            /\ WithEnds(i, n1, n3, z) = z
        BY <2>1 DEF WithEnds
      <3> QED
        BY <2>1, <3>1
    <2>2. CASE ~(i < n1 /\ i < n2 /\ i < n3)
      BY <2>2 DEF WithEnds, Consistent, Signs
    <2> QED
      BY <2>1, <2>2
  <1> QED
    BY <1>1, <1>2, <1>3

-----------------------------------------------------------------------------
\* The order of texts

CharOrder(s, t) == [i \in Nat |-> WithEnds(i, Len(s), Len(t), Sign(s[i + 1] - t[i + 1]))]

LEMMA CharOrders ==
    ASSUME NEW s \in Seq(Nat), NEW t \in Seq(Nat)
    PROVE  /\ CharOrder(s, t) \in [Nat -> Signs]
           /\ \A i \in Nat : CharOrder(t, s)[i] = -CharOrder(s, t)[i]
  <1>1. ASSUME NEW i \in Nat
        PROVE  /\ CharOrder(s, t)[i] \in Signs
               /\ CharOrder(t, s)[i] = -CharOrder(s, t)[i]
    <2>1. Len(s) \in Nat /\ Len(t) \in Nat
      OBVIOUS
    <2>2. /\ CharOrder(s, t)[i] = WithEnds(i, Len(s), Len(t), Sign(s[i + 1] - t[i + 1]))
          /\ CharOrder(t, s)[i] = WithEnds(i, Len(t), Len(s), Sign(t[i + 1] - s[i + 1]))
      BY DEF CharOrder
    <2>3. CASE i < Len(s) /\ i < Len(t)
      <3>1. s[i + 1] \in Nat /\ t[i + 1] \in Nat
        BY <2>1, <2>3
      <3>2. PICK a \in Nat, b \in Nat : a = s[i + 1] /\ b = t[i + 1]
        BY <3>1
      <3>3. CharOrder(s, t)[i] = Sign(a - b) /\ CharOrder(t, s)[i] = Sign(b - a)
        BY <2>1, <2>2, <2>3, <3>2 DEF WithEnds
      <3> QED
        BY <3>3 DEF Sign, Signs
    <2>4. CASE ~(i < Len(s) /\ i < Len(t))
      BY <2>1, <2>2, <2>4 DEF WithEnds, Signs
    <2> QED
      BY <2>3, <2>4
  <1> QED
    BY <1>1 DEF CharOrder

LEMMA CharOrdersAreConsistent ==
    ASSUME NEW s \in Seq(Nat), NEW t \in Seq(Nat), NEW u \in Seq(Nat), NEW i \in Nat
    PROVE  Consistent(CharOrder(s, t)[i], CharOrder(t, u)[i], CharOrder(s, u)[i])
  <1>1. PICK n1 \in Nat, n2 \in Nat, n3 \in Nat : n1 = Len(s) /\ n2 = Len(t) /\ n3 = Len(u)
    OBVIOUS
  <1>2. PICK a, b, c : a = s[i + 1] /\ b = t[i + 1] /\ c = u[i + 1]
    OBVIOUS
  <1>3. (i < n1 => a \in Nat) /\ (i < n2 => b \in Nat) /\ (i < n3 => c \in Nat)
    BY <1>1, <1>2
  <1>4. /\ CharOrder(s, t)[i] = WithEnds(i, n1, n2, Sign(a - b))
        /\ CharOrder(t, u)[i] = WithEnds(i, n2, n3, Sign(b - c))
        /\ CharOrder(s, u)[i] = WithEnds(i, n1, n3, Sign(a - c))
    BY <1>1, <1>2 DEF CharOrder
  <1>5. /\ i < n1 /\ i < n2 => Sign(a - b) \in Signs
        /\ i < n2 /\ i < n3 => Sign(b - c) \in Signs
        /\ i < n1 /\ i < n3 => Sign(a - c) \in Signs
        /\ i < n1 /\ i < n2 /\ i < n3 => Consistent(Sign(a - b), Sign(b - c), Sign(a - c))
    BY <1>3 DEF Sign, Signs, Consistent
  <1> QED
    BY <1>4, <1>5, EndsAreConsistent

LEMMA SamePrefix ==
    ASSUME NEW s \in Seq(Nat), NEW t \in Seq(Nat), NEW n \in Nat, n <= Len(s), n <= Len(t)
    PROVE  SubSeq(s, 1, n) = SubSeq(t, 1, n) <=> \A i \in 1 .. n : s[i] = t[i]
  <1>1. \A i \in 1 .. n : s[i] \in Nat /\ t[i] \in Nat
    OBVIOUS
  <1>2. /\ SubSeq(s, 1, n) \in Seq(Nat) /\ Len(SubSeq(s, 1, n)) = n
        /\ \A i \in 1 .. n : SubSeq(s, 1, n)[i] = s[i]
    <2>1. /\ SubSeq(s, 1, n) \in Seq(Nat)
          /\ Len(SubSeq(s, 1, n)) = IF 1 <= n THEN n - 1 + 1 ELSE 0
          /\ \A i \in 1 .. n - 1 + 1 : SubSeq(s, 1, n)[i] = s[1 + i - 1]
      BY <1>1, SubSeqProperties
    <2> QED
      BY <2>1
  <1>3. /\ SubSeq(t, 1, n) \in Seq(Nat) /\ Len(SubSeq(t, 1, n)) = n
        /\ \A i \in 1 .. n : SubSeq(t, 1, n)[i] = t[i]
    <2>1. /\ SubSeq(t, 1, n) \in Seq(Nat)
          /\ Len(SubSeq(t, 1, n)) = IF 1 <= n THEN n - 1 + 1 ELSE 0
          /\ \A i \in 1 .. n - 1 + 1 : SubSeq(t, 1, n)[i] = t[1 + i - 1]
      BY <1>1, SubSeqProperties
    <2> QED
      BY <2>1
  <1> QED
    BY <1>2, <1>3

LEMMA TextsAreOrdered ==
    ASSUME NEW s \in Seq(Nat), NEW t \in Seq(Nat)
    PROVE  /\ s = t <=> Lex(CharOrder(s, t)) = 0
           /\ Precedes(s, t) <=> Lex(CharOrder(s, t)) = -1
  <1>1. PICK p : p = CharOrder(s, t)
    OBVIOUS
  <1>2. p \in [Nat -> Signs]
    BY <1>1, CharOrders
  <1>3. PICK n1 \in Nat, n2 \in Nat : n1 = Len(s) /\ n2 = Len(t)
    OBVIOUS
  <1>4. \A i \in Nat : p[i] = WithEnds(i, n1, n2, Sign(s[i + 1] - t[i + 1]))
    BY <1>1, <1>3 DEF CharOrder
  <1>5. \A i \in Nat : (i < n1 => s[i + 1] \in Nat) /\ (i < n2 => t[i + 1] \in Nat)
    BY <1>3
  <1>6. ASSUME NEW i \in Nat, i < n1, i < n2
        PROVE  /\ p[i] = 0 <=> s[i + 1] = t[i + 1]
               /\ p[i] = -1 <=> s[i + 1] < t[i + 1]
    <2>1. p[i] = Sign(s[i + 1] - t[i + 1])
      BY <1>4, <1>6 DEF WithEnds
    <2>2. PICK a \in Nat, b \in Nat : a = s[i + 1] /\ b = t[i + 1]
      BY <1>5, <1>6
    <2>3. p[i] = Sign(a - b)
      BY <2>1, <2>2
    <2>4. /\ p[i] = 0 <=> a = b
          /\ p[i] = -1 <=> a < b
      BY <2>3 DEF Sign
    <2> QED
      BY <2>2, <2>4
  <1>7. ASSUME s = t PROVE Lex(p) = 0
    <2>1. \A i \in Nat : p[i] = 0
      BY <1>3, <1>4, <1>6, <1>7 DEF WithEnds
    <2> QED
      BY <1>2, <2>1, LexIsFirst
  <1>8. ASSUME Lex(p) = 0 PROVE s = t
    <2>1. \A i \in Nat : p[i] = 0
      BY <1>2, <1>8, LexIsFirst
    <2>2. n1 = n2
      <3>1. p[n1] = 0 /\ p[n2] = 0
        BY <2>1
      <3>2. n1 < n2 => p[n1] = -1
        BY <1>4 DEF WithEnds
      <3>3. n2 < n1 => p[n2] = 1
        BY <1>4 DEF WithEnds
      <3> QED
        BY <3>1, <3>2, <3>3
    <2>3. ASSUME NEW i \in 1 .. n1 PROVE s[i] = t[i]
      <3>1. i - 1 \in Nat /\ i - 1 < n1 /\ i - 1 < n2 /\ (i - 1) + 1 = i
        BY <2>2
      <3> QED
        BY <1>6, <2>1, <3>1
    <2>4. Len(s) = Len(t) /\ \A i \in 1 .. Len(s) : s[i] = t[i]
      BY <1>3, <2>2, <2>3
    <2> QED
      BY <2>4, SeqEqual
  <1>9. \A n \in Nat : n \in 0 .. Min({Len(s), Len(t)}) <=> n <= n1 /\ n <= n2
    <2>1. {n1, n2} \in SUBSET Nat /\ {n1, n2} # {}
      OBVIOUS
    <2>2. Min({n1, n2}) \in {n1, n2} /\ \A y \in {n1, n2} : Min({n1, n2}) <= y
      BY <2>1, MinIsLeast
    <2> QED
      BY <1>3, <2>2
  <1>10. ASSUME NEW n \in Nat, n <= n1, n <= n2
         PROVE  SubSeq(s, 1, n) = SubSeq(t, 1, n) <=> \A j \in Nat : j < n => p[j] = 0
    <2>1. SubSeq(s, 1, n) = SubSeq(t, 1, n) <=> \A i \in 1 .. n : s[i] = t[i]
      BY <1>3, <1>10, SamePrefix
    <2>2. ASSUME \A i \in 1 .. n : s[i] = t[i], NEW j \in Nat, j < n PROVE p[j] = 0
      <3>1. j + 1 \in 1 .. n /\ j < n1 /\ j < n2
        BY <1>10, <2>2
      <3> QED
        BY <1>6, <2>2, <3>1
    <2>3. ASSUME \A j \in Nat : j < n => p[j] = 0, NEW i \in 1 .. n PROVE s[i] = t[i]
      <3>1. i - 1 \in Nat /\ i - 1 < n /\ i - 1 < n1 /\ i - 1 < n2 /\ (i - 1) + 1 = i
        BY <1>10
      <3> QED
        BY <1>6, <2>3, <3>1
    <2> QED
      BY <2>1, <2>2, <2>3
  <1>11. ASSUME Precedes(s, t) PROVE Lex(p) = -1
    <2>1. PICK n \in 0 .. Min({Len(s), Len(t)}) :
              /\ SubSeq(s, 1, n) = SubSeq(t, 1, n)
              /\ n < Len(t) /\ (n < Len(s) => s[n + 1] < t[n + 1])
      BY <1>11 DEF Precedes
    <2>2. n \in Nat /\ n <= n1 /\ n <= n2
      <3>1. n \in Nat
        <4>1. {n1, n2} \in SUBSET Nat /\ {n1, n2} # {}
          OBVIOUS
        <4>2. Min({n1, n2}) \in Nat
          BY <4>1, MinIsLeast
        <4> QED
          BY <1>3, <2>1, <4>2
      <3> QED
        BY <1>9, <2>1, <3>1
    <2>3. \A j \in Nat : j < n => p[j] = 0
      BY <1>10, <2>1, <2>2
    <2>4. p[n] = -1
      <3>1. CASE n < n1
        BY <1>3, <1>6, <2>1, <2>2, <3>1
      <3>2. CASE ~(n < n1)
        BY <1>3, <1>4, <2>1, <2>2, <3>2 DEF WithEnds
      <3> QED
        BY <3>1, <3>2
    <2>5. p[n] # 0 /\ \A j \in Nat : j < n => p[j] = 0
      BY <2>3, <2>4
    <2>6. Lex(p) = p[n]
      BY <1>2, <2>2, <2>5, LexIsFirst
    <2> QED
      BY <2>4, <2>6
  <1>12. ASSUME Lex(p) = -1 PROVE Precedes(s, t)
    <2>1. PICK n \in Nat : p[n] = -1 /\ \A j \in Nat : j < n => p[j] = 0
      BY <1>2, <1>12, LexIsFirst
    <2>2. n < n2
      BY <1>4, <2>1 DEF WithEnds
    <2>3. n <= n1
      <3>1. n1 < n => p[n1] = -1
        BY <1>4, <2>2 DEF WithEnds
      <3> QED
        BY <2>1, <3>1
    <2>4. n \in 0 .. Min({Len(s), Len(t)}) /\ SubSeq(s, 1, n) = SubSeq(t, 1, n)
      <3>1. n <= n2
        BY <2>2
      <3>2. n \in 0 .. Min({Len(s), Len(t)})
        BY <1>9, <2>3, <3>1
      <3>3. SubSeq(s, 1, n) = SubSeq(t, 1, n)
        BY <1>10, <2>1, <2>3, <3>1
      <3> QED
        BY <3>2, <3>3
    <2>5. n < Len(s) => s[n + 1] < t[n + 1]
      BY <1>3, <1>6, <2>1, <2>2
    <2> QED
      BY <1>3, <2>2, <2>4, <2>5 DEF Precedes
  <1> QED
    BY <1>1, <1>7, <1>8, <1>11, <1>12

TextOrder(s, t) == Lex(CharOrder(s, t))

LEMMA TextOrders ==
    ASSUME NEW s \in Seq(Nat), NEW t \in Seq(Nat), NEW u \in Seq(Nat)
    PROVE  /\ TextOrder(s, t) \in Signs
           /\ TextOrder(t, s) = -TextOrder(s, t)
           /\ Consistent(TextOrder(s, t), TextOrder(t, u), TextOrder(s, u))
           /\ TextOrder(s, t) = IF Precedes(s, t) THEN -1 ELSE IF s = t THEN 0 ELSE 1
  <1>1. PICK p, q, r, o : /\ p = CharOrder(s, t) /\ q = CharOrder(t, u)
                          /\ r = CharOrder(s, u) /\ o = CharOrder(t, s)
    OBVIOUS
  <1>2. /\ p \in [Nat -> Signs] /\ q \in [Nat -> Signs] /\ r \in [Nat -> Signs]
        /\ o \in [Nat -> Signs] /\ \A i \in Nat : o[i] = -p[i]
    BY <1>1, CharOrders
  <1>3. \A i \in Nat : Consistent(p[i], q[i], r[i])
    BY <1>1, CharOrdersAreConsistent
  <1>4. Lex(p) \in Signs /\ Lex(o) = -Lex(p) /\ Consistent(Lex(p), Lex(q), Lex(r))
    <2>1. Lex(p) \in Signs
      BY <1>2, LexIsFirst
    <2>2. Lex(o) = -Lex(p)
      BY <1>2, LexIsOpposite
    <2>3. Consistent(Lex(p), Lex(q), Lex(r))
      BY <1>2, <1>3, LexIsConsistent
    <2> QED
      BY <2>1, <2>2, <2>3
  <1>5. (s = t <=> Lex(p) = 0) /\ (Precedes(s, t) <=> Lex(p) = -1)
    BY <1>1, TextsAreOrdered
  <1> QED
    BY <1>1, <1>4, <1>5 DEF TextOrder, Signs

-----------------------------------------------------------------------------
\* The order of prerelease identifiers and of lists of them

\* Numbers are of rank 0, and before all others.
Rank(id) == IF isNumeric(id) THEN 0 ELSE 1

Ranked(rank1, rank2, n1, n2, order) ==
    IF rank1 # rank2 THEN Sign(rank1 - rank2) ELSE IF rank1 = 0 THEN Sign(n1 - n2) ELSE order

LEMMA RanksAreConsistent ==
    ASSUME NEW k1 \in {0, 1}, NEW k2 \in {0, 1}, NEW k3 \in {0, 1}, NEW n1, NEW n2, NEW n3,
           k1 = 0 => n1 \in Int, k2 = 0 => n2 \in Int, k3 = 0 => n3 \in Int,
           NEW p \in Signs, NEW q \in Signs, NEW r \in Signs, Consistent(p, q, r)
    PROVE  /\ Ranked(k1, k2, n1, n2, p) \in Signs
           /\ Ranked(k2, k1, n2, n1, -p) = -Ranked(k1, k2, n1, n2, p)
           /\ Consistent(Ranked(k1, k2, n1, n2, p), Ranked(k2, k3, n2, n3, q),
                         Ranked(k1, k3, n1, n3, r))
  <1>1. CASE k1 = 0 /\ k2 = 0 /\ k3 = 0
    BY <1>1 DEF Ranked, Sign, Signs, Consistent
  <1>2. CASE k1 = 0 /\ k2 = 0 /\ k3 = 1
    BY <1>2 DEF Ranked, Sign, Signs, Consistent
  <1>3. CASE k1 = 0 /\ k2 = 1
    <2>1. Ranked(k1, k2, n1, n2, p) = -1 /\ Ranked(k2, k1, n2, n1, -p) = 1
      BY <1>3 DEF Ranked, Sign
    <2>2. CASE k3 = 0
      <3>1. Ranked(k2, k3, n2, n3, q) = 1
        BY <1>3, <2>2 DEF Ranked, Sign
      <3> QED
        BY <2>1, <3>1 DEF Signs, Consistent
    <2>3. CASE k3 = 1
      <3>1. Ranked(k1, k3, n1, n3, r) = -1
        BY <1>3, <2>3 DEF Ranked, Sign
      <3> QED
        BY <2>1, <3>1 DEF Signs, Consistent
    <2> QED
      BY <2>1, <2>2, <2>3
  <1>4. CASE k1 = 1 /\ k2 = 0
    BY <1>4 DEF Ranked, Sign, Signs, Consistent
  <1>5. CASE k1 = 1 /\ k2 = 1
    BY <1>5 DEF Ranked, Sign, Signs, Consistent
  <1> QED
    BY <1>1, <1>2, <1>3, <1>4, <1>5

LEMMA RankDecides ==
    ASSUME NEW s \in Seq(Nat), NEW t \in Seq(Nat)
    PROVE  comparePreReleaseIdentifiers(s, t)
             = Ranked(Rank(s), Rank(t), Atoi(s), Atoi(t), TextOrder(s, t))
  <1>1. TextOrder(s, t) = IF Precedes(s, t) THEN -1 ELSE IF s = t THEN 0 ELSE 1
    BY TextOrders
  <1>2. Sign(-1) = -1 /\ Sign(1) = 1 /\ 0 - 1 = -1 /\ 1 - 0 = 1
    BY DEF Sign
  <1>3. isNumeric(s) \in BOOLEAN /\ isNumeric(t) \in BOOLEAN
    BY DEF isNumeric
  <1>4. CASE isNumeric(s) /\ isNumeric(t)
    <2>1. isNumeric(s) = isNumeric(t) /\ Rank(s) = 0 /\ Rank(t) = 0
      BY <1>3, <1>4 DEF Rank
    <2> QED
      BY <1>4, <2>1 DEF comparePreReleaseIdentifiers, Ranked
  <1>5. CASE isNumeric(s) /\ ~isNumeric(t)
    <2>1. isNumeric(s) # isNumeric(t) /\ Rank(s) = 0 /\ Rank(t) = 1
      BY <1>3, <1>5 DEF Rank
    <2> QED
      BY <1>2, <1>5, <2>1 DEF comparePreReleaseIdentifiers, Ranked
  <1>6. CASE ~isNumeric(s) /\ isNumeric(t)
    <2>1. isNumeric(s) # isNumeric(t) /\ Rank(s) = 1 /\ Rank(t) = 0
      BY <1>3, <1>6 DEF Rank
    <2> QED
      BY <1>2, <1>6, <2>1 DEF comparePreReleaseIdentifiers, Ranked
  <1>7. CASE ~isNumeric(s) /\ ~isNumeric(t)
    <2>1. isNumeric(s) = isNumeric(t) /\ Rank(s) = 1 /\ Rank(t) = 1
      BY <1>3, <1>7 DEF Rank
    <2> QED
      BY <1>1, <1>7, <2>1 DEF comparePreReleaseIdentifiers, Ranked
  <1> QED
    BY <1>4, <1>5, <1>6, <1>7

LEMMA IdentifiersAreOrdered ==
    ASSUME NEW s \in Seq(Nat), NEW t \in Seq(Nat), NEW u \in Seq(Nat)
    PROVE  /\ comparePreReleaseIdentifiers(s, t) \in Signs
           /\ comparePreReleaseIdentifiers(t, s) = -comparePreReleaseIdentifiers(s, t)
           /\ Consistent(comparePreReleaseIdentifiers(s, t), comparePreReleaseIdentifiers(t, u),
                         comparePreReleaseIdentifiers(s, u))
  <1>1. PICK k1, k2, k3 : k1 = Rank(s) /\ k2 = Rank(t) /\ k3 = Rank(u)
    OBVIOUS
  <1>2. PICK n1, n2, n3 : n1 = Atoi(s) /\ n2 = Atoi(t) /\ n3 = Atoi(u)
    OBVIOUS
  <1>3. /\ k1 \in {0, 1} /\ k2 \in {0, 1} /\ k3 \in {0, 1}
        /\ k1 = 0 => n1 \in Int
        /\ k2 = 0 => n2 \in Int
        /\ k3 = 0 => n3 \in Int
    BY <1>1, <1>2, MaxIntAssumption DEF Rank, isNumeric
  <1>4. PICK p, q, r, o : /\ p = TextOrder(s, t) /\ q = TextOrder(t, u)
                          /\ r = TextOrder(s, u) /\ o = TextOrder(t, s)
    OBVIOUS
  <1>5. /\ p \in Signs /\ q \in Signs /\ r \in Signs /\ o = -p /\ Consistent(p, q, r)
    BY <1>4, TextOrders
  <1>6. /\ comparePreReleaseIdentifiers(s, t) = Ranked(k1, k2, n1, n2, p)
        /\ comparePreReleaseIdentifiers(t, u) = Ranked(k2, k3, n2, n3, q)
        /\ comparePreReleaseIdentifiers(s, u) = Ranked(k1, k3, n1, n3, r)
        /\ comparePreReleaseIdentifiers(t, s) = Ranked(k2, k1, n2, n1, -p)
    BY <1>1, <1>2, <1>4, <1>5, RankDecides
  <1>7. /\ Ranked(k1, k2, n1, n2, p) \in Signs
        /\ Ranked(k2, k1, n2, n1, -p) = -Ranked(k1, k2, n1, n2, p)
        /\ Consistent(Ranked(k1, k2, n1, n2, p), Ranked(k2, k3, n2, n3, q),
                      Ranked(k1, k3, n1, n3, r))
    BY <1>3, <1>5, RanksAreConsistent
  <1> QED
    BY <1>6, <1>7

IdOrder(ids1, ids2) ==
    [i \in Nat |-> WithEnds(i, Len(ids1), Len(ids2),
                            comparePreReleaseIdentifiers(ids1[i + 1], ids2[i + 1]))]

LEMMA IdOrders ==
    ASSUME NEW ids1 \in Seq(Seq(Nat)), NEW ids2 \in Seq(Seq(Nat)), NEW ids3 \in Seq(Seq(Nat)),
           NEW i \in Nat
    PROVE  /\ IdOrder(ids1, ids2)[i] \in Signs
           /\ IdOrder(ids2, ids1)[i] = -IdOrder(ids1, ids2)[i]
           /\ Consistent(IdOrder(ids1, ids2)[i], IdOrder(ids2, ids3)[i], IdOrder(ids1, ids3)[i])
  <1>1. PICK n1 \in Nat, n2 \in Nat, n3 \in Nat :
            n1 = Len(ids1) /\ n2 = Len(ids2) /\ n3 = Len(ids3)
    OBVIOUS
  <1>2. PICK s, t, u : s = ids1[i + 1] /\ t = ids2[i + 1] /\ u = ids3[i + 1]
    OBVIOUS
  <1>3. (i < n1 => s \in Seq(Nat)) /\ (i < n2 => t \in Seq(Nat)) /\ (i < n3 => u \in Seq(Nat))
    BY <1>1, <1>2
  <1>4. PICK x, y, z, w : /\ x = comparePreReleaseIdentifiers(s, t)
                          /\ y = comparePreReleaseIdentifiers(t, u)
                          /\ z = comparePreReleaseIdentifiers(s, u)
                          /\ w = comparePreReleaseIdentifiers(t, s)
    OBVIOUS
  <1>5. /\ IdOrder(ids1, ids2)[i] = WithEnds(i, n1, n2, x)
        /\ IdOrder(ids2, ids3)[i] = WithEnds(i, n2, n3, y)
        /\ IdOrder(ids1, ids3)[i] = WithEnds(i, n1, n3, z)
        /\ IdOrder(ids2, ids1)[i] = WithEnds(i, n2, n1, w)
    BY <1>1, <1>2, <1>4 DEF IdOrder
  <1>6. /\ i < n1 /\ i < n2 => x \in Signs /\ w = -x
        /\ i < n2 /\ i < n3 => y \in Signs
        /\ i < n1 /\ i < n3 => z \in Signs
        /\ i < n1 /\ i < n2 /\ i < n3 => Consistent(x, y, z)
    BY <1>3, <1>4, IdentifiersAreOrdered
  <1>7. WithEnds(i, n2, n1, w) = WithEnds(i, n2, n1, -x)
    BY <1>6 DEF WithEnds
  <1> QED
    BY <1>5, <1>6, <1>7, EndsAreConsistent

LEMMA ListsAreCompared ==
    ASSUME NEW ids1 \in Seq(Seq(Nat)), NEW ids2 \in Seq(Seq(Nat))
    PROVE  compareIdentifiers(ids1, ids2) = Lex(IdOrder(ids1, ids2))
  <1>1. PICK p : p = IdOrder(ids1, ids2)
    OBVIOUS
  <1>2. p \in [Nat -> Signs]
    BY <1>1, IdOrders DEF IdOrder
  <1>3. PICK n1 \in Nat, n2 \in Nat : n1 = Len(ids1) /\ n2 = Len(ids2)
    OBVIOUS
  <1>4. \A i \in Nat :
           p[i] = WithEnds(i, n1, n2, comparePreReleaseIdentifiers(ids1[i + 1], ids2[i + 1]))
    BY <1>1, <1>3 DEF IdOrder
  <1>5. PICK order : order = [i \in Int |-> comparePreReleaseIdentifiers(ids1[i], ids2[i])]
    OBVIOUS
  <1>6. PICK differ : differ = {i \in (1 .. n1) \cap (1 .. n2) : order[i] # 0}
    OBVIOUS
  <1>7. compareIdentifiers(ids1, ids2) = IF differ = {} THEN Sign(n1 - n2) ELSE order[Min(differ)]
    <2>1. /\ DOMAIN ids1 = 1 .. n1 /\ DOMAIN ids2 = 1 .. n2
          /\ \A i \in 1 .. n1 : order[i] = comparePreReleaseIdentifiers(ids1[i], ids2[i])
      BY <1>3, <1>5
    <2>2. differ = {i \in DOMAIN ids1 \cap DOMAIN ids2 :
                       comparePreReleaseIdentifiers(ids1[i], ids2[i]) # 0}
      BY <1>6, <2>1
    <2>3. ASSUME differ # {}
          PROVE  order[Min(differ)]
                   = comparePreReleaseIdentifiers(ids1[Min(differ)], ids2[Min(differ)])
      <3>1. differ \in SUBSET Nat
        BY <1>6
      <3>2. Min(differ) \in 1 .. n1
        BY <1>6, <2>3, <3>1, MinIsLeast
      <3> QED
        BY <2>1, <3>2
    <2> QED
      BY <1>3, <2>2, <2>3 DEF compareIdentifiers
  <1>8. ASSUME NEW i \in Nat, i < n1, i < n2 PROVE p[i] = order[i + 1]
    BY <1>4, <1>5, <1>8 DEF WithEnds
  <1>9. CASE differ = {}
    <2>1. ASSUME NEW i \in Nat, i < n1, i < n2 PROVE p[i] = 0
      <3>1. i + 1 \in (1 .. n1) \cap (1 .. n2)
        BY <2>1
      <3>2. order[i + 1] = 0
        BY <1>6, <1>9, <3>1
      <3> QED
        BY <1>8, <2>1, <3>2
    <2>2. CASE n1 = n2
      <3>1. \A i \in Nat : p[i] = 0
        BY <1>4, <2>1, <2>2 DEF WithEnds
      <3>2. Lex(p) = 0
        BY <1>2, <3>1, LexIsFirst
      <3> QED
        BY <1>1, <1>7, <1>9, <2>2, <3>2 DEF Sign
    <2>3. CASE n1 < n2
      <3>1. p[n1] = -1 /\ \A j \in Nat : j < n1 => p[j] = 0
        BY <1>4, <2>1, <2>3 DEF WithEnds
      <3>2. p[n1] # 0
        BY <3>1
      <3>3. Lex(p) = -1
        BY <1>2, <3>1, <3>2, LexIsFirst
      <3> QED
        BY <1>1, <1>7, <1>9, <2>3, <3>3 DEF Sign
    <2>4. CASE n2 < n1
      <3>1. p[n2] = 1 /\ \A j \in Nat : j < n2 => p[j] = 0
        BY <1>4, <2>1, <2>4 DEF WithEnds
      <3>2. p[n2] # 0
        BY <3>1
      <3>3. Lex(p) = 1
        BY <1>2, <3>1, <3>2, LexIsFirst
      <3> QED
        BY <1>1, <1>7, <1>9, <2>4, <3>3 DEF Sign
    <2> QED
      BY <2>2, <2>3, <2>4
  <1>10. CASE differ # {}
    <2>1. PICK least : least = Min(differ)
      OBVIOUS
    <2>2. differ \in SUBSET Nat
      BY <1>6
    <2>3. least \in differ /\ \A y \in differ : least <= y
      BY <1>10, <2>1, <2>2, MinIsLeast
    <2>4. /\ least \in 1 .. n1 /\ least \in 1 .. n2 /\ order[least] # 0
          /\ least - 1 \in Nat /\ least - 1 < n1 /\ least - 1 < n2 /\ (least - 1) + 1 = least
      BY <1>6, <2>3
    <2>5. p[least - 1] = order[least]
      BY <1>8, <2>4
    <2>6. ASSUME NEW j \in Nat, j < least - 1 PROVE p[j] = 0
      <3>1. j + 1 \in (1 .. n1) \cap (1 .. n2) /\ j < n1 /\ j < n2 /\ ~(least <= j + 1)
        BY <2>4, <2>6
      <3>2. j + 1 \notin differ
        BY <2>3, <3>1
      <3>3. order[j + 1] = 0
        BY <1>6, <3>1, <3>2
      <3> QED
        BY <1>8, <3>1, <3>3
    <2>7. Lex(p) = p[least - 1]
      <3>1. p[least - 1] # 0
        BY <2>4, <2>5
      <3> QED
        BY <1>2, <2>4, <2>6, <3>1, LexIsFirst
    <2> QED
      BY <1>1, <1>7, <1>10, <2>1, <2>5, <2>7
  <1> QED
    BY <1>9, <1>10

LEMMA ListsAreOrdered ==
    ASSUME NEW ids1 \in Seq(Seq(Nat)), NEW ids2 \in Seq(Seq(Nat)), NEW ids3 \in Seq(Seq(Nat))
    PROVE  /\ compareIdentifiers(ids1, ids2) \in Signs
           /\ compareIdentifiers(ids2, ids1) = -compareIdentifiers(ids1, ids2)
           /\ Consistent(compareIdentifiers(ids1, ids2), compareIdentifiers(ids2, ids3),
                         compareIdentifiers(ids1, ids3))
  <1>1. PICK p, q, r, o : /\ p = IdOrder(ids1, ids2) /\ q = IdOrder(ids2, ids3)
                          /\ r = IdOrder(ids1, ids3) /\ o = IdOrder(ids2, ids1)
    OBVIOUS
  <1>2. /\ p \in [Nat -> Signs] /\ q \in [Nat -> Signs] /\ r \in [Nat -> Signs]
        /\ o \in [Nat -> Signs]
    BY <1>1, IdOrders DEF IdOrder
  <1>3. \A i \in Nat : o[i] = -p[i] /\ Consistent(p[i], q[i], r[i])
    BY <1>1, IdOrders
  <1>4. Lex(p) \in Signs /\ Lex(o) = -Lex(p) /\ Consistent(Lex(p), Lex(q), Lex(r))
    <2>1. Lex(p) \in Signs
      BY <1>2, LexIsFirst
    <2>2. Lex(o) = -Lex(p)
      BY <1>2, <1>3, LexIsOpposite
    <2>3. Consistent(Lex(p), Lex(q), Lex(r))
      BY <1>2, <1>3, LexIsConsistent
    <2> QED
      BY <2>1, <2>2, <2>3
  <1> QED
    BY <1>1, <1>4, ListsAreCompared

-----------------------------------------------------------------------------
\* The order of versions

LEMMA GreatestExists ==
    ASSUME NEW bound \in Nat, NEW S \in SUBSET (0 .. bound), S # {}
    PROVE  \E z \in S : \A y \in S : y <= z
  <1>1. PICK D : D = {k \in Nat : bound - k \in S}
    OBVIOUS
  <1>2. D \in SUBSET Nat /\ D # {}
    <2>1. PICK y \in S : y \in 0 .. bound
      OBVIOUS
    <2>2. bound - y \in Nat /\ bound - (bound - y) = y
      BY <2>1
    <2> QED
      BY <1>1, <2>1, <2>2
  <1>3. PICK k : k \in D /\ \A j \in D : k <= j
    BY <1>2, MinIsLeast
  <1>4. ASSUME NEW y \in S PROVE y <= bound - k
    <2>1. y \in 0 .. bound /\ k \in Nat
      BY <1>2, <1>3
    <2>2. bound - y \in Nat /\ bound - (bound - y) = y
      BY <2>1
    <2>3. k <= bound - y
      BY <1>1, <1>3, <2>2
    <2> QED
      BY <2>1, <2>3
  <1> QED
    BY <1>1, <1>3, <1>4

\* There is an n-th.
LEMMA NthIsMember ==
    ASSUME NEW bound \in Nat, NEW S \in SUBSET (0 .. bound), NEW n \in 1 .. Cardinality(S)
    PROVE  /\ Nth(S, n) \in S /\ Cardinality(S) \in Nat
           /\ Cardinality({y \in S : y <= Nth(S, n)}) = n
  <1> DEFINE Upto(x) == {y \in S : y <= x}
             Enough == {x \in S : Cardinality(Upto(x)) >= n}
  <1>1. /\ IsFiniteSet(S) /\ Cardinality(S) \in Nat
        /\ S # {} /\ \A x \in S : x \in Nat
    <2>1. IsFiniteSet(0 .. bound)
      BY FS_Interval
    <2>2. IsFiniteSet(S)
      BY <2>1, FS_Subset
    <2> QED
      BY <2>2, FS_CardinalityType, FS_EmptySet
  <1>2. \A x : IsFiniteSet(Upto(x)) /\ Cardinality(Upto(x)) \in Nat
    BY <1>1, FS_Subset, FS_CardinalityType
  <1>3. PICK last \in S : \A y \in S : y <= last
    BY <1>1, GreatestExists
  <1>4. Upto(last) = S
    BY <1>3
  <1>5. last \in Enough
    BY <1>1, <1>3, <1>4
  <1>6. Enough \in SUBSET Nat
    BY <1>1
  <1>7. PICK x : x \in Enough /\ \A y \in Enough : x <= y
    <2> HIDE DEF Enough
    <2> QED
      BY <1>5, <1>6, MinIsLeast
  <1>8. x \in S /\ x \in Nat /\ Cardinality(Upto(x)) >= n
    BY <1>1, <1>7
  <1>9. ASSUME Cardinality(Upto(x)) # n PROVE FALSE
    <2>1. PICK Lower : Lower = Upto(x) \ {x}
      OBVIOUS
    <2>2. Cardinality(Lower) = Cardinality(Upto(x)) - 1 /\ IsFiniteSet(Lower)
      <3>1. x \in Upto(x)
        BY <1>8
      <3> HIDE DEF Upto
      <3> QED
        BY <1>2, <2>1, <3>1, FS_RemoveElement
    <2>3. Cardinality(Lower) >= n
      <3>1. PICK c \in Nat : c = Cardinality(Upto(x))
        BY <1>2
      <3> HIDE DEF Upto
      <3> QED
        BY <1>8, <1>9, <2>2, <3>1
    <2>4. Lower # {}
      BY <2>2, <2>3, FS_EmptySet
    <2>5. PICK z \in Lower : \A y \in Lower : y <= z
      <3>1. Lower \in SUBSET (0 .. bound)
        BY <2>1
      <3> QED
        BY <2>4, <3>1, GreatestExists
    <2>6. z \in S /\ z \in Nat /\ z < x
      BY <1>1, <1>8, <2>1, <2>5
    <2>7. Upto(z) = Lower
      <3>1. ASSUME NEW y \in Lower PROVE y \in Upto(z)
        BY <2>1, <2>5, <3>1
      <3>2. ASSUME NEW y \in Upto(z) PROVE y \in Lower
        BY <1>1, <1>8, <2>1, <2>6, <3>2
      <3> QED
        BY <3>1, <3>2
    <2>8. z \in Enough
      BY <2>3, <2>6, <2>7
    <2> QED
      BY <1>7, <1>8, <2>6, <2>8
  <1>10. \E y \in S : Cardinality({w \in S : w <= y}) = n
    BY <1>8, <1>9
  <1> QED
    BY <1>1, <1>10 DEF Nth

LEMMA SplitIsList ==
    ASSUME NEW s \in Seq(Nat), NEW c
    PROVE  Split(s, c) \in Seq(Seq(Nat))
  <1>1. PICK ends : ends = {i \in 1 .. Len(s) + 1 : i = Len(s) + 1 \/ s[i] = c}
    OBVIOUS
  <1>2. PICK bound \in Nat : bound = Len(s) + 1
    OBVIOUS
  <1>3. ends \in SUBSET (0 .. bound) /\ ends \in SUBSET (1 .. Len(s) + 1)
    BY <1>1, <1>2
  <1>4. Cardinality(ends) \in Nat
    <2>1. IsFiniteSet(0 .. bound)
      BY FS_Interval
    <2> QED
      BY <1>3, <2>1, FS_Subset, FS_CardinalityType
  <1>5. \A n \in 1 .. Cardinality(ends) : Nth(ends, n) \in 1 .. Len(s) + 1
    BY <1>3, NthIsMember
  <1>6. PICK parts :
            parts = [n \in 1 .. Cardinality(ends) |->
                        SubSeq(s, IF n = 1 THEN 1 ELSE Nth(ends, n - 1) + 1, Nth(ends, n) - 1)]
    OBVIOUS
  <1>7. ASSUME NEW n \in 1 .. Cardinality(ends) PROVE parts[n] \in Seq(Nat)
    <2>1. PICK first, last : /\ first = IF n = 1 THEN 1 ELSE Nth(ends, n - 1) + 1
                             /\ last = Nth(ends, n) - 1
      OBVIOUS
    <2>2. first \in Int /\ first >= 1
      <3>1. n # 1 => n - 1 \in 1 .. Cardinality(ends)
        BY <1>4
      <3> QED
        BY <1>5, <2>1, <3>1
    <2>3. last \in Int /\ last <= Len(s)
      BY <1>5, <2>1
    <2>4. \A i \in first .. last : s[i] \in Nat
      BY <2>2, <2>3
    <2>5. SubSeq(s, first, last) \in Seq(Nat)
      BY <2>2, <2>3, <2>4, SubSeqProperties
    <2> QED
      BY <1>6, <2>1, <2>5
  <1>8. Split(s, c) = parts
    BY <1>1, <1>6 DEF Split
  <1>9. parts \in [1 .. Cardinality(ends) -> Seq(Nat)]
    BY <1>6, <1>7
  <1>10. PICK size \in Nat : size = Cardinality(ends)
    BY <1>4
  <1> QED
    BY <1>8, <1>9, <1>10

\* A version without a prerelease comes after those with one.
Release(pre) == IF pre = <<>> THEN 1 ELSE 0

LEMMA ReleaseDecides ==
    ASSUME NEW pre1 \in Seq(Nat), NEW pre2 \in Seq(Nat), NEW order \in Signs,
           order = compareIdentifiers(Split(pre1, Dot), Split(pre2, Dot))
    PROVE  comparePreRelease(pre1, pre2)
             = IF Release(pre1) # Release(pre2) THEN Sign(Release(pre1) - Release(pre2)) ELSE order
  <1>1. /\ Len(pre1) \in Nat /\ (pre1 = <<>> <=> Len(pre1) = 0)
        /\ Len(pre2) \in Nat /\ (pre2 = <<>> <=> Len(pre2) = 0)
    OBVIOUS
  <1>2. PICK n1 \in Nat, n2 \in Nat : n1 = Len(pre1) /\ n2 = Len(pre2)
    BY <1>1
  <1>3. Sign(0) = 0 /\ (n1 > 0 => Sign(n1) = 1) /\ (n2 > 0 => Sign(-n2) = -1)
    BY DEF Sign
  <1>4. CASE pre1 = <<>> /\ pre2 = <<>>
    <2>1. order = 0
      <3>1. PICK ids : ids = Split(pre1, Dot)
        OBVIOUS
      <3>2. ids \in Seq(Seq(Nat)) /\ order = compareIdentifiers(ids, ids)
        BY <1>4, <3>1, SplitIsList
      <3>3. order = -order
        BY <3>2, ListsAreOrdered
      <3> QED
        BY <3>3 DEF Signs
    <2>2. comparePreRelease(pre1, pre2) = Sign(Len(pre2) - Len(pre1))
      BY <1>4 DEF comparePreRelease
    <2> QED
      BY <1>1, <1>4, <2>1, <2>2 DEF Sign, Release
  <1>5. CASE pre1 = <<>> /\ pre2 # <<>>
    <2>1. comparePreRelease(pre1, pre2) = Sign(Len(pre2) - Len(pre1))
      BY <1>5 DEF comparePreRelease
    <2>2. Sign(n2 - n1) = 1
      BY <1>1, <1>2, <1>5 DEF Sign
    <2>3. Release(pre1) = 1 /\ Release(pre2) = 0
      BY <1>5 DEF Release
    <2> QED
      BY <1>2, <2>1, <2>2, <2>3 DEF Sign
  <1>6. CASE pre1 # <<>> /\ pre2 = <<>>
    <2>1. comparePreRelease(pre1, pre2) = Sign(Len(pre2) - Len(pre1))
      BY <1>6 DEF comparePreRelease
    <2>2. Sign(n2 - n1) = -1
      BY <1>1, <1>2, <1>6 DEF Sign
    <2>3. Release(pre1) = 0 /\ Release(pre2) = 1
      BY <1>6 DEF Release
    <2> QED
      BY <1>2, <2>1, <2>2, <2>3 DEF Sign
  <1>7. CASE pre1 # <<>> /\ pre2 # <<>>
    BY <1>7 DEF comparePreRelease, Release
  <1> QED
    BY <1>4, <1>5, <1>6, <1>7

LEMMA PrereleasesAreOrdered ==
    ASSUME NEW pre1 \in Seq(Nat), NEW pre2 \in Seq(Nat), NEW pre3 \in Seq(Nat)
    PROVE  /\ comparePreRelease(pre1, pre2) \in Signs
           /\ comparePreRelease(pre2, pre1) = -comparePreRelease(pre1, pre2)
           /\ Consistent(comparePreRelease(pre1, pre2), comparePreRelease(pre2, pre3),
                         comparePreRelease(pre1, pre3))
  <1>1. PICK ids1, ids2, ids3 :
            ids1 = Split(pre1, Dot) /\ ids2 = Split(pre2, Dot) /\ ids3 = Split(pre3, Dot)
    OBVIOUS
  <1>2. /\ ids1 \in Seq(Seq(Nat)) /\ ids2 \in Seq(Seq(Nat)) /\ ids3 \in Seq(Seq(Nat))
    BY <1>1, SplitIsList
  <1>3. PICK p, q, r, o :
            /\ p = compareIdentifiers(ids1, ids2) /\ q = compareIdentifiers(ids2, ids3)
            /\ r = compareIdentifiers(ids1, ids3) /\ o = compareIdentifiers(ids2, ids1)
    OBVIOUS
  <1>4. /\ p \in Signs /\ q \in Signs /\ r \in Signs /\ o \in Signs /\ o = -p
        /\ Consistent(p, q, r)
    BY <1>2, <1>3, ListsAreOrdered
  <1>5. PICK k1 \in Int, k2 \in Int, k3 \in Int :
            k1 = Release(pre1) /\ k2 = Release(pre2) /\ k3 = Release(pre3)
    BY DEF Release
  <1>6. /\ comparePreRelease(pre1, pre2) = IF k1 # k2 THEN Sign(k1 - k2) ELSE p
        /\ comparePreRelease(pre2, pre3) = IF k2 # k3 THEN Sign(k2 - k3) ELSE q
        /\ comparePreRelease(pre1, pre3) = IF k1 # k3 THEN Sign(k1 - k3) ELSE r
        /\ comparePreRelease(pre2, pre1) = IF k2 # k1 THEN Sign(k2 - k1) ELSE -p
    BY <1>1, <1>3, <1>4, <1>5, ReleaseDecides
  <1>7. PICK f, g, h : /\ f = IF k1 # k2 THEN Sign(k1 - k2) ELSE p
                       /\ g = IF k2 # k3 THEN Sign(k2 - k3) ELSE q
                       /\ h = IF k1 # k3 THEN Sign(k1 - k3) ELSE r
    OBVIOUS
  <1>8. /\ f \in Signs /\ Consistent(f, g, h)
        /\ (IF k2 # k1 THEN Sign(k2 - k1) ELSE -p) = -f
    BY <1>4, <1>7 DEF Consistent, Sign, Signs
  <1> QED
    BY <1>6, <1>7, <1>8

IsReadVersion(v1) ==
    /\ v1.major \in Int /\ v1.minor \in Int /\ v1.patch \in Int
    /\ v1.prerelease \in Seq(Nat)

LEMMA ReadVersionsAreOrdered ==
    ASSUME NEW v1, IsReadVersion(v1), NEW v2, IsReadVersion(v2), NEW v3, IsReadVersion(v3)
    PROVE  /\ Compare(v1, v2) \in Signs
           /\ Compare(v2, v1) = -Compare(v1, v2)
           /\ Consistent(Compare(v1, v2), Compare(v2, v3), Compare(v1, v3))
  <1> DEFINE Then(x, y, order) == IF x # y THEN Sign(x - y) ELSE order
  <1>1. PICK p, q, r, o :
            /\ p = comparePreRelease(v1.prerelease, v2.prerelease)
            /\ q = comparePreRelease(v2.prerelease, v3.prerelease)
            /\ r = comparePreRelease(v1.prerelease, v3.prerelease)
            /\ o = comparePreRelease(v2.prerelease, v1.prerelease)
    OBVIOUS
  <1>2. /\ p \in Signs /\ q \in Signs /\ r \in Signs /\ o = -p /\ Consistent(p, q, r)
    BY <1>1, PrereleasesAreOrdered DEF IsReadVersion
  <1>3. ASSUME NEW x \in Int, NEW y \in Int, NEW z \in Int,
               NEW p1 \in Signs, NEW q1 \in Signs, NEW r1 \in Signs, Consistent(p1, q1, r1)
        PROVE  /\ Then(x, y, p1) \in Signs /\ Then(y, z, q1) \in Signs /\ Then(x, z, r1) \in Signs
               /\ Then(y, x, -p1) = -Then(x, y, p1)
               /\ Consistent(Then(x, y, p1), Then(y, z, q1), Then(x, z, r1))
    BY <1>3 DEF Consistent, Sign, Signs
  <1>4. PICK p1, q1, r1 :
            /\ p1 = Then(v1.patch, v2.patch, p) /\ q1 = Then(v2.patch, v3.patch, q)
            /\ r1 = Then(v1.patch, v3.patch, r)
    OBVIOUS
  <1>5. PICK p2, q2, r2 :
            /\ p2 = Then(v1.minor, v2.minor, p1) /\ q2 = Then(v2.minor, v3.minor, q1)
            /\ r2 = Then(v1.minor, v3.minor, r1)
    OBVIOUS
  <1>6. PICK p3, q3, r3 :
            /\ p3 = Then(v1.major, v2.major, p2) /\ q3 = Then(v2.major, v3.major, q2)
            /\ r3 = Then(v1.major, v3.major, r2)
    OBVIOUS
  <1>7. Compare(v1, v2) = p3 /\ Compare(v2, v3) = q3 /\ Compare(v1, v3) = r3
    BY <1>1, <1>4, <1>5, <1>6 DEF Compare
  <1>8. Compare(v2, v1) = Then(v2.major, v1.major, Then(v2.minor, v1.minor, Then(v2.patch, v1.patch, o)))
    BY <1>1 DEF Compare
  <1> HIDE DEF Then
  <1>9. /\ p1 \in Signs /\ q1 \in Signs /\ r1 \in Signs /\ Consistent(p1, q1, r1)
        /\ Then(v2.patch, v1.patch, o) = -p1
    BY <1>2, <1>3, <1>4 DEF IsReadVersion
  <1>10. /\ p2 \in Signs /\ q2 \in Signs /\ r2 \in Signs /\ Consistent(p2, q2, r2)
         /\ Then(v2.minor, v1.minor, -p1) = -p2
    BY <1>3, <1>5, <1>9 DEF IsReadVersion
  <1>11. /\ p3 \in Signs /\ q3 \in Signs /\ r3 \in Signs /\ Consistent(p3, q3, r3)
         /\ Then(v2.major, v1.major, -p2) = -p3
    BY <1>3, <1>6, <1>10 DEF IsReadVersion
  <1> QED
    BY <1>7, <1>8, <1>9, <1>10, <1>11

LEMMA CutIsText ==
    ASSUME NEW s \in Seq(Nat), NEW c
    PROVE  CutAtFirst(s, c)[1] \in Seq(Nat) /\ Only(Tail(CutAtFirst(s, c))) \in Seq(Nat)
  <1>1. PICK found : found = {i \in 1 .. Len(s) : s[i] = c}
    OBVIOUS
  <1>2. PICK at : at = IF found # {} THEN Min(found) ELSE 0
    OBVIOUS
  <1>3. CutAtFirst(s, c)
          = IF at = 0 THEN <<s>> ELSE <<SubSeq(s, 1, at - 1), SubSeq(s, at + 1, Len(s))>>
    BY <1>1, <1>2 DEF CutAtFirst, SelectInSeq
  <1>4. at \in 0 .. Len(s)
    <2>1. found \in SUBSET Nat /\ found \in SUBSET (1 .. Len(s))
      BY <1>1
    <2>2. found # {} => Min(found) \in found
      BY <2>1, MinIsLeast
    <2>3. found # {} => at \in 1 .. Len(s)
      BY <1>2, <2>1, <2>2
    <2>4. found = {} => at = 0
      BY <1>2
    <2>5. Len(s) \in Nat
      OBVIOUS
    <2> QED
      BY <2>3, <2>4, <2>5
  <1>5. SubSeq(s, 1, at - 1) \in Seq(Nat)
    <2>1. at - 1 \in Int /\ \A i \in 1 .. at - 1 : s[i] \in Nat
      BY <1>4
    <2> QED
      BY <2>1, SubSeqProperties
  <1>6. SubSeq(s, at + 1, Len(s)) \in Seq(Nat)
    <2>1. at + 1 \in Int /\ Len(s) \in Int /\ \A i \in at + 1 .. Len(s) : s[i] \in Nat
      BY <1>4
    <2> QED
      BY <2>1, SubSeqProperties
  <1>7. PICK a, b : a = SubSeq(s, 1, at - 1) /\ b = SubSeq(s, at + 1, Len(s))
    OBVIOUS
  <1>8. CASE at = 0
    <2>1. CutAtFirst(s, c) = <<s>> /\ Tail(<<s>>) = <<>>
      BY <1>3, <1>8
    <2> QED
      BY <2>1 DEF Only
  <1>9. CASE at # 0
    <2>1. CutAtFirst(s, c) = <<a, b>>
      BY <1>3, <1>7, <1>9
    <2>2. a \in Seq(Nat) /\ b \in Seq(Nat)
      BY <1>5, <1>6, <1>7
    <2>3. <<a, b>>[1] = a /\ Tail(<<a, b>>) # <<>> /\ Head(Tail(<<a, b>>)) = b
      BY <2>2
    <2> QED
      BY <2>1, <2>2, <2>3 DEF Only
  <1> QED
    BY <1>8, <1>9

LEMMA VersionsAreRead ==
    ASSUME NEW t, ParseQuietly(t) # NoVersion
    PROVE  IsReadVersion(ParseQuietly(t))
  <1>1. t \in DOMAIN Spelling /\ ParseQuietly(t) = Parse(Spelling[t])
    BY DEF ParseQuietly, Versions
  <1>2. PICK s \in Seq(Nat) : s = Spelling[t]
    BY <1>1, SpellingAssumption
  <1>3. PICK build : build = CutAtFirst(s, Plus)
    OBVIOUS
  <1>4. PICK pre : pre = CutAtFirst(build[1], Hyphen)
    OBVIOUS
  <1>5. build[1] \in Seq(Nat) /\ pre[1] \in Seq(Nat) /\ Only(Tail(pre)) \in Seq(Nat)
    BY <1>3, <1>4, CutIsText
  <1>6. PICK matches : matches = findNamedMatches(s)
    OBVIOUS
  <1>7. /\ matches.numbers = Split(pre[1], Dot) /\ matches.numbers \in Seq(Seq(Nat))
        /\ matches.prerelease = Tail(pre)
    BY <1>3, <1>4, <1>5, <1>6, SplitIsList DEF findNamedMatches
  <1>8. PICK version : version = Version(matches)
    OBVIOUS
  <1>9. version # NoVersion /\ version = ParseQuietly(t)
    BY <1>1, <1>2, <1>6, <1>8 DEF Parse
  <1>10. /\ semverPattern(matches) /\ \A number \in ToSet(matches.numbers) : isNumeric(number)
         /\ version.major = Atoi(matches.numbers[1]) /\ version.minor = Atoi(matches.numbers[2])
         /\ version.patch = Atoi(matches.numbers[3])
         /\ version.prerelease = Only(matches.prerelease)
    BY <1>8, <1>9 DEF Version
  <1>11. \A i \in {1, 2, 3} : matches.numbers[i] \in ToSet(matches.numbers)
    <2>1. DOMAIN matches.numbers = 1 .. 3
      BY <1>7, <1>10 DEF semverPattern
    <2> QED
      BY <2>1 DEF ToSet
  <1>12. \A i \in {1, 2, 3} : Atoi(matches.numbers[i]) \in Int
    BY <1>10, <1>11, MaxIntAssumption DEF isNumeric
  <1> QED
    BY <1>5, <1>7, <1>9, <1>10, <1>12 DEF IsReadVersion

SemverOperators == {"PROP_SEMVER_GREATER_THAN", "PROP_SEMVER_EQUAL", "PROP_SEMVER_LESS_THAN"}

LEMMA SemverVerdict ==
    ASSUME NEW op \in SemverOperators, NEW x, IsVersion(x), NEW y, IsVersion(y)
    PROVE  EvaluateCriterion(op, x, y)
             <=> semverCriterionHandlers(op, Compare(ParseQuietly(x.is), ParseQuietly(y.is)))
  <1>1. /\ op # "ALWAYS_TRUE" /\ op # "HIERARCHICAL_MATCH" /\ op # "IN_INT_RANGE"
        /\ op \notin OneOf \cup NotOneOf
    BY DEF SemverOperators, OneOf, NotOneOf
  <1>2. ~DateCriterion(op, x, y) /\ ~RegexCriterion(op, x, y)
    BY DEF SemverOperators, DateCriterion, RegexCriterion
  <1>3. IsText(x) /\ IsText(y) /\ ~IsNumber(x) /\ ~IsNumber(y) /\ x # Absent
    BY DEF IsVersion, IsNumber, IsText, Absent
  <1>4. ParseQuietly(x.is) # NoVersion /\ ParseQuietly(y.is) # NoVersion
    BY DEF IsVersion
  <1> QED
    BY <1>1, <1>2, <1>3, <1>4 DEF EvaluateCriterion, SemverCriterion

LEMMA VersionVerdicts ==
    ASSUME NEW x, IsVersion(x), NEW y, IsVersion(y), NEW order,
           order = Compare(ParseQuietly(x.is), ParseQuietly(y.is))
    PROVE  /\ IsLess(x, y) <=> order < 0
           /\ IsEqual(x, y) <=> order = 0
           /\ EvaluateCriterion("PROP_SEMVER_GREATER_THAN", x, y) <=> order > 0
  <1>1. \A op \in SemverOperators : EvaluateCriterion(op, x, y) <=> semverCriterionHandlers(op, order)
    BY SemverVerdict
  <1> QED
    BY <1>1 DEF SemverOperators, semverCriterionHandlers, IsLess, IsEqual

LEMMA VersionsCompare ==
    ASSUME NEW x, IsVersion(x), NEW y, IsVersion(y), NEW z, IsVersion(z)
    PROVE  /\ IsLess(x, y) <=>
                 ~IsEqual(x, y) /\ ~EvaluateCriterion("PROP_SEMVER_GREATER_THAN", x, y)
           /\ IsLess(x, y) <=> EvaluateCriterion("PROP_SEMVER_GREATER_THAN", y, x)
           /\ IsLess(z, x) /\ IsLess(x, y) => IsLess(z, y)
           /\ IsEqual(z, x) => (IsLess(z, y) <=> IsLess(x, y))
  <1>1. PICK v1, v2, v3 : /\ v1 = ParseQuietly(x.is) /\ v2 = ParseQuietly(y.is)
                          /\ v3 = ParseQuietly(z.is)
    OBVIOUS
  <1>2. IsReadVersion(v1) /\ IsReadVersion(v2) /\ IsReadVersion(v3)
    BY <1>1, VersionsAreRead DEF IsVersion
  <1>3. PICK xy, yx, zx, xz, zy : /\ xy = Compare(v1, v2) /\ yx = Compare(v2, v1)
                                  /\ zx = Compare(v3, v1) /\ xz = Compare(v1, v3)
                                  /\ zy = Compare(v3, v2)
    OBVIOUS
  <1>4. /\ xy \in Signs /\ yx = -xy
        /\ zx \in Signs /\ xz = -zx /\ zy \in Signs
        /\ Consistent(zx, xy, zy) /\ Consistent(xz, zy, xy)
    BY <1>2, <1>3, ReadVersionsAreOrdered
  <1>5. /\ IsLess(x, y) <=> xy < 0
        /\ IsEqual(x, y) <=> xy = 0
        /\ EvaluateCriterion("PROP_SEMVER_GREATER_THAN", x, y) <=> xy > 0
        /\ EvaluateCriterion("PROP_SEMVER_GREATER_THAN", y, x) <=> yx > 0
        /\ IsLess(z, x) <=> zx < 0
        /\ IsEqual(z, x) <=> zx = 0
        /\ IsLess(z, y) <=> zy < 0
    BY <1>1, <1>3, VersionVerdicts
  <1>6. /\ xy < 0 <=> xy # 0 /\ ~(xy > 0)
        /\ xy < 0 <=> yx > 0
        /\ zx < 0 /\ xy < 0 => zy < 0
        /\ zx = 0 => (zy < 0 <=> xy < 0)
    BY <1>4 DEF Signs, Consistent
  <1> QED
    BY <1>5, <1>6

-----------------------------------------------------------------------------
\* Numerals print as they were read

IsValue(value, digits, n) ==
    value = [k \in 0 .. n |-> IF k = 0 THEN 0 ELSE 10 * value[k - 1] + (digits[k] - 48)]

\* The first n characters of a text have a value.
LEMMA ValuesExist ==
    ASSUME NEW digits, NEW n \in Nat
    PROVE  \E value : IsValue(value, digits, n)
  <1> DEFINE Good == {top \in 0 .. n : \E value : IsValue(value, digits, top)}
  <1>1. 0 \in Good
    <2>1. PICK value : value = [k \in 0 .. 0 |-> 0]
      OBVIOUS
    <2>2. IsValue(value, digits, 0)
      BY <2>1 DEF IsValue
    <2> QED
      BY <2>2
  <1>2. ASSUME NEW top \in 1 .. n, top - 1 \in Good
        PROVE  top \in Good
    <2>1. PICK value : IsValue(value, digits, top - 1)
      BY <1>2
    <2>2. PICK more : more = [k \in 0 .. top |->
                                 IF k = top THEN 10 * value[top - 1] + (digits[top] - 48)
                                 ELSE value[k]]
      OBVIOUS
    <2>3. ASSUME NEW k \in 0 .. top
          PROVE  more[k] = IF k = 0 THEN 0 ELSE 10 * more[k - 1] + (digits[k] - 48)
      <3>1. CASE k = top
        <4>1. more[top] = 10 * value[top - 1] + (digits[top] - 48)
          BY <2>2
        <4>2. more[top - 1] = value[top - 1]
          BY <2>2
        <4> QED
          BY <3>1, <4>1, <4>2
      <3>2. CASE k # top
        <4>1. k \in 0 .. top - 1 /\ (k # 0 => k - 1 \in 0 .. top - 1)
          BY <3>2
        <4>2. value[k] = IF k = 0 THEN 0 ELSE 10 * value[k - 1] + (digits[k] - 48)
          BY <2>1, <4>1 DEF IsValue
        <4>3. \A j \in 0 .. top - 1 : more[j] = value[j]
          BY <2>2
        <4> QED
          BY <4>1, <4>2, <4>3
      <3> QED
        BY <3>1, <3>2
    <2>4. IsValue(more, digits, top)
      BY <2>2, <2>3 DEF IsValue
    <2> QED
      BY <2>4
  <1>3. n \in Good
    <2> HIDE DEF Good
    <2> QED
      BY <1>1, <1>2, CountingUp
  <1> QED
    BY <1>3

IsPrint(numeral, n) ==
    numeral = [k \in 0 .. n |->
                  IF k < 10 THEN <<48 + k>> ELSE Append(numeral[k \div 10], 48 + (k % 10))]

\* Every natural number has a numeral.
LEMMA PrintsExist ==
    ASSUME NEW n \in Nat
    PROVE  \E numeral : IsPrint(numeral, n)
  <1> DEFINE Good == {top \in 0 .. n : \E numeral : IsPrint(numeral, top)}
  <1>1. 0 \in Good
    <2>1. PICK numeral : numeral = [k \in 0 .. 0 |-> <<48 + k>>]
      OBVIOUS
    <2>2. IsPrint(numeral, 0)
      BY <2>1 DEF IsPrint
    <2> QED
      BY <2>2
  <1>2. ASSUME NEW top \in 1 .. n, top - 1 \in Good
        PROVE  top \in Good
    <2>1. PICK numeral : IsPrint(numeral, top - 1)
      BY <1>2
    <2>2. PICK last : last = IF top < 10 THEN <<48 + top>>
                             ELSE Append(numeral[top \div 10], 48 + (top % 10))
      OBVIOUS
    <2>3. PICK more : more = [k \in 0 .. top |-> IF k = top THEN last ELSE numeral[k]]
      OBVIOUS
    <2>4. more[top] = last /\ \A j \in 0 .. top - 1 : more[j] = numeral[j]
      BY <2>3
    <2>5. \A k \in 0 .. top : k >= 10 => k \div 10 \in 0 .. top - 1
      OBVIOUS
    <2>6. ASSUME NEW k \in 0 .. top
          PROVE  more[k] = IF k < 10 THEN <<48 + k>> ELSE Append(more[k \div 10], 48 + (k % 10))
      <3>1. k >= 10 => more[k \div 10] = numeral[k \div 10]
        BY <2>4, <2>5
      <3>2. CASE k = top
        BY <2>2, <2>4, <3>1, <3>2
      <3>3. CASE k # top
        <4>1. k \in 0 .. top - 1
          BY <3>3
        <4>2. numeral[k]
                = IF k < 10 THEN <<48 + k>> ELSE Append(numeral[k \div 10], 48 + (k % 10))
          BY <2>1, <4>1 DEF IsPrint
        <4> QED
          BY <2>4, <3>1, <4>1, <4>2
      <3> QED
        BY <3>2, <3>3
    <2>7. IsPrint(more, top)
      <3> HIDE <2>2
      <3> QED
        BY <2>3, <2>6 DEF IsPrint
    <2> QED
      BY <2>7
  <1>3. n \in Good
    <2> HIDE DEF Good
    <2> QED
      BY <1>1, <1>2, CountingUp
  <1> QED
    BY <1>3

LEMMA DigitIsDigit ==
    ASSUME NEW s \in Seq(Nat), ToSet(s) \subseteq Digit, NEW k \in 1 .. Len(s)
    PROVE  s[k] \in Nat /\ s[k] \in 48 .. 57 /\ s[k] - 48 \in 0 .. 9 /\ 48 + (s[k] - 48) = s[k]
  <1>1. s[k] \in ToSet(s)
    <2>1. k \in DOMAIN s
      OBVIOUS
    <2> QED
      BY <2>1 DEF ToSet
  <1>2. s[k] \in 48 .. 57
    BY <1>1 DEF Digit
  <1> QED
    BY <1>2

\* What Atoi reads of digits, character by character.
LEMMA DigitsHaveValues ==
    ASSUME NEW s \in Seq(Nat), s # <<>>, ToSet(s) \subseteq Digit
    PROVE  \E value :
              /\ Atoi(s) = value[Len(s)]
              /\ value[0] = 0 /\ \A k \in 0 .. Len(s) : value[k] \in Nat
              /\ \A k \in 1 .. Len(s) : value[k] = 10 * value[k - 1] + (s[k] - 48)
  <1>1. PICK n \in Nat : n = Len(s) /\ n # 0
    OBVIOUS
  <1>2. \A k \in 1 .. n : s[k] \in 48 .. 57
    BY <1>1, DigitIsDigit
  <1>3. Head(s) # Plus /\ Head(s) # Hyphen
    <2>1. Head(s) = s[1] /\ 1 \in 1 .. n
      BY <1>1
    <2> QED
      BY <1>2, <2>1 DEF Plus, Hyphen
  <1>4. Unsigned(s) = s
    BY <1>3 DEF Unsigned
  <1> DEFINE value == CHOOSE f : IsValue(f, s, n)
  <1>5. IsValue(value, s, n)
    BY ValuesExist
  <1>6. Atoi(s) = value[n]
    BY <1>1, <1>3, <1>4, Zenon DEF Atoi, IsValue
  <1> HIDE DEF value
  <1>7. \A k \in 0 .. n : value[k] = IF k = 0 THEN 0 ELSE 10 * value[k - 1] + (s[k] - 48)
    BY <1>5 DEF IsValue
  <1>8. \A k \in 0 .. n : value[k] \in Nat
    <2> DEFINE Good == {k \in 0 .. n : value[k] \in Nat}
    <2>1. 0 \in Good
      BY <1>7
    <2>2. ASSUME NEW k \in 1 .. n, k - 1 \in Good PROVE k \in Good
      <3>1. value[k - 1] \in Nat /\ k \in 0 .. n /\ k # 0 /\ s[k] - 48 \in Nat
        <4>1. s[k] - 48 \in Nat
          <5>1. s[k] \in 48 .. 57
            BY <1>2
          <5> QED
            BY <5>1
        <4>2. value[k - 1] \in Nat
          BY <2>2
        <4> QED
          BY <4>1, <4>2
      <3>2. value[k] = 10 * value[k - 1] + (s[k] - 48)
        BY <1>7, <3>1
      <3> QED
        BY <3>1, <3>2
    <2>3. ASSUME NEW k \in 0 .. n PROVE k \in Good
      <3> HIDE DEF Good
      <3>1. \A i \in 1 .. k : i \in 1 .. n
        OBVIOUS
      <3> QED
        BY <2>1, <2>2, <3>1, CountingUp
    <2> QED
      BY <2>3
  <1>9. \A k \in 1 .. n : value[k] = 10 * value[k - 1] + (s[k] - 48)
    BY <1>7
  <1>10. value[0] = 0
    BY <1>7
  <1> QED
    BY <1>1, <1>6, <1>8, <1>9, <1>10

LEMMA LastDigit ==
    ASSUME NEW x \in Nat, x > 0, NEW d \in 0 .. 9
    PROVE  10 * x + d >= 10 /\ (10 * x + d) \div 10 = x /\ (10 * x + d) % 10 = d
  OBVIOUS

LEMMA NumeralsPrint ==
    ASSUME NEW s \in Seq(Nat), IsNumeral(s)
    PROVE  Decimal(Atoi(s)) = s
  <1>1. PICK n \in Nat : n = Len(s) /\ n # 0
    BY DEF IsNumeral
  <1>2. PICK value :
            /\ Atoi(s) = value[n]
            /\ value[0] = 0 /\ \A k \in 0 .. n : value[k] \in Nat
            /\ \A k \in 1 .. n : value[k] = 10 * value[k - 1] + (s[k] - 48)
    <2>1. s # <<>> /\ ToSet(s) \subseteq Digit
      BY DEF IsNumeral
    <2> QED
      BY <1>1, <2>1, DigitsHaveValues, Zenon
  <1>3. \A k \in 1 .. n : s[k] \in Nat /\ s[k] - 48 \in 0 .. 9 /\ 48 + (s[k] - 48) = s[k]
    BY <1>1, DigitIsDigit DEF IsNumeral
  <1>4. n > 1 => s[1] # 48
    <2>1. Head(s) = s[1]
      BY <1>1
    <2>2. Head(s) = 48 => Len(s) = 1
      BY DEF IsNumeral
    <2>3. ASSUME n > 1, s[1] = 48 PROVE FALSE
      <3>1. Len(s) = 1
        BY <2>1, <2>2, <2>3
      <3> QED
        BY <1>1, <2>3, <3>1
    <2> QED
      BY <2>3
  <1>5. PICK total \in Nat : total = value[n]
    BY <1>1, <1>2
  <1> DEFINE numeral == CHOOSE f : IsPrint(f, total)
  <1>6. IsPrint(numeral, total)
    BY PrintsExist
  <1>7. Decimal(total) = numeral[total]
    BY Zenon DEF Decimal, IsPrint
  <1> HIDE DEF numeral
  <1>8. \A k \in 0 .. total :
           numeral[k] = IF k < 10 THEN <<48 + k>> ELSE Append(numeral[k \div 10], 48 + (k % 10))
    BY <1>6 DEF IsPrint
  <1>9. ASSUME NEW k \in 1 .. n
        PROVE  /\ value[k] \in Nat /\ value[k - 1] \in Nat
               /\ value[k - 1] <= value[k]
               /\ value[k] = 10 * value[k - 1] + (s[k] - 48) /\ s[k] - 48 \in 0 .. 9
    <2>1. k \in 0 .. n /\ k - 1 \in 0 .. n
      OBVIOUS
    <2>2. value[k] \in Nat /\ value[k - 1] \in Nat /\ s[k] - 48 \in 0 .. 9
      BY <1>2, <1>3, <2>1
    <2>3. value[k] = 10 * value[k - 1] + (s[k] - 48)
      BY <1>2
    <2>4. \A x \in Nat, d \in 0 .. 9 : x <= 10 * x + d
      OBVIOUS
    <2> QED
      BY <2>2, <2>3, <2>4
  \* The prefixes are numbers up to the whole ...
  <1>10. \A k \in 0 .. n : value[k] <= total
    <2> DEFINE Good == {j \in 0 .. n : value[n - j] <= total}
    <2>1. 0 \in Good
      BY <1>5
    <2>2. ASSUME NEW j \in 1 .. n, j - 1 \in Good PROVE j \in Good
      <3>1. PICK k \in 1 .. n : k = n - (j - 1) /\ k - 1 = n - j
        OBVIOUS
      <3>2. value[k] <= total
        BY <2>2, <3>1
      <3>3. value[k - 1] <= total
        BY <1>9, <3>2
      <3> QED
        BY <3>1, <3>3
    <2>3. ASSUME NEW j \in 0 .. n PROVE j \in Good
      <3> HIDE DEF Good
      <3>1. \A i \in 1 .. j : i \in 1 .. n
        OBVIOUS
      <3> QED
        BY <2>1, <2>2, <3>1, CountingUp
    <2>4. ASSUME NEW k \in 0 .. n PROVE value[k] <= total
      <3>1. n - k \in 0 .. n /\ n - (n - k) = k
        OBVIOUS
      <3>2. n - k \in Good
        BY <2>3, <3>1
      <3> QED
        BY <3>1, <3>2
    <2> QED
      BY <2>4
  \* ... other than 0, unless they are nothing or all there is.
  <1>11. n > 1 => \A k \in 1 .. n : value[k] > 0
    <2> HAVE n > 1
    <2> DEFINE Good == {j \in 0 .. n - 1 : value[j + 1] > 0}
    <2>1. 0 \in Good
      <3>1. value[1] = 10 * value[1 - 1] + (s[1] - 48) /\ s[1] - 48 \in 0 .. 9 /\ value[0] = 0
        BY <1>1, <1>2, <1>9
      <3> QED
        BY <1>4, <3>1
    <2>2. ASSUME NEW j \in 1 .. n - 1, j - 1 \in Good PROVE j \in Good
      <3>1. PICK k \in 1 .. n : k = j + 1 /\ k - 1 = (j - 1) + 1
        OBVIOUS
      <3>2. value[k - 1] > 0
        BY <2>2, <3>1
      <3>3. value[k] > 0
        BY <1>9, <3>2
      <3> QED
        BY <3>1, <3>3
    <2>3. ASSUME NEW j \in 0 .. n - 1 PROVE j \in Good
      <3> HIDE DEF Good
      <3>1. \A i \in 1 .. j : i \in 1 .. n - 1
        OBVIOUS
      <3> QED
        BY <2>1, <2>2, <3>1, CountingUp
    <2>4. ASSUME NEW k \in 1 .. n PROVE value[k] > 0
      <3>1. k - 1 \in 0 .. n - 1 /\ (k - 1) + 1 = k
        OBVIOUS
      <3>2. k - 1 \in Good
        BY <2>3, <3>1
      <3> QED
        BY <3>1, <3>2
    <2> QED
      BY <2>4
  <1>12. ASSUME NEW k \in 1 .. n PROVE SubSeq(s, 1, k) \in Seq(Nat) /\ Len(SubSeq(s, 1, k)) = k
    BY <1>1
  <1>13. \A k \in 1 .. n : numeral[value[k]] = SubSeq(s, 1, k)
    <2> DEFINE Good == {j \in 0 .. n - 1 : numeral[value[j + 1]] = SubSeq(s, 1, j + 1)}
    <2>1. 0 \in Good
      <3>1. PICK d \in 0 .. 9 : d = s[1] - 48 /\ 48 + d = s[1]
        BY <1>1, <1>3
      <3>2. value[1] = d /\ d \in 0 .. total
        <4>1. value[1] = 10 * value[1 - 1] + (s[1] - 48) /\ value[1] <= total
          BY <1>1, <1>2, <1>10
        <4>2. value[1 - 1] = 0
          BY <1>2
        <4>3. value[1] = d
          BY <3>1, <4>1, <4>2
        <4> QED
          BY <3>1, <4>1, <4>3
      <3>3. numeral[d] = <<48 + d>>
        <4>1. d < 10
          BY <3>1
        <4> QED
          BY <1>8, <3>2, <4>1
      <3>4. SubSeq(s, 1, 1) = <<s[1]>>
        <4>1. 1 \in 1 .. Len(s)
          BY <1>1
        <4>2. SubSeq(s, 1, 1) = SubSeq(s, 1, 0) \o <<s[1]>> /\ SubSeq(s, 1, 0) = <<>>
          BY <4>1, SubSeqRecursiveSecond, SubSeqEmpty
        <4>3. <<>> \o <<s[1]>> = <<s[1]>>
          OBVIOUS
        <4> QED
          BY <4>2, <4>3
      <3> QED
        BY <1>1, <3>1, <3>2, <3>3, <3>4
    <2>2. ASSUME NEW j \in 1 .. n - 1, j - 1 \in Good PROVE j \in Good
      <3>1. PICK k \in 1 .. n : k = j + 1 /\ k - 1 = (j - 1) + 1 /\ k > 1 /\ k - 1 \in 1 .. n
        OBVIOUS
      <3>2. numeral[value[k - 1]] = SubSeq(s, 1, k - 1)
        BY <2>2, <3>1
      <3>3. PICK x \in Nat, d \in 0 .. 9 : x = value[k - 1] /\ d = s[k] - 48
        BY <1>9
      <3>4. x > 0 /\ value[k] = 10 * x + d
        BY <1>9, <1>11, <3>1, <3>3
      <3>5. /\ 10 * x + d >= 10 /\ (10 * x + d) \div 10 = x /\ (10 * x + d) % 10 = d
        BY <3>4, LastDigit
      <3>6. 10 * x + d \in 0 .. total
        <4>1. k \in 0 .. n
          OBVIOUS
        <4> QED
          BY <1>10, <3>4, <4>1
      <3>7. numeral[10 * x + d] = Append(numeral[x], 48 + d)
        <4>1. PICK y \in 0 .. total : y = 10 * x + d
          BY <3>6
        <4>2. y >= 10 /\ y \div 10 = x /\ y % 10 = d
          BY <3>5, <4>1
        <4>3. numeral[y] = Append(numeral[y \div 10], 48 + (y % 10))
          <5>1. ~(y < 10)
            BY <4>2
          <5> QED
            BY <1>8, <5>1
        <4> QED
          BY <4>1, <4>2, <4>3
      <3>8. 48 + d = s[k]
        <4>1. s[k] \in Nat
          BY <1>1
        <4> QED
          BY <3>3, <4>1
      <3>9. SubSeq(s, 1, k) = Append(SubSeq(s, 1, k - 1), s[k])
        BY <1>1, <3>1
      <3>10. numeral[value[k]] = SubSeq(s, 1, k)
        BY <3>2, <3>3, <3>4, <3>7, <3>8, <3>9
      <3> QED
        BY <3>1, <3>10
    <2>3. ASSUME NEW j \in 0 .. n - 1 PROVE j \in Good
      <3> HIDE DEF Good
      <3>1. \A i \in 1 .. j : i \in 1 .. n - 1
        OBVIOUS
      <3> QED
        BY <2>1, <2>2, <3>1, CountingUp
    <2>4. ASSUME NEW k \in 1 .. n PROVE numeral[value[k]] = SubSeq(s, 1, k)
      <3>1. k - 1 \in 0 .. n - 1 /\ (k - 1) + 1 = k
        OBVIOUS
      <3>2. k - 1 \in Good
        BY <2>3, <3>1
      <3> QED
        BY <3>1, <3>2
    <2> QED
      BY <2>4
  <1>14. SubSeq(s, 1, n) = s
    BY <1>1
  <1>15. n \in 1 .. n
    BY <1>1
  <1> QED
    BY <1>2, <1>5, <1>7, <1>13, <1>14, <1>15

-----------------------------------------------------------------------------
\* Texts are the parts they are cut and split into

LEMMA Rejoin ==
    ASSUME NEW s \in Seq(Nat), NEW first \in 1 .. Len(s), NEW at \in first .. Len(s)
    PROVE  SubSeq(s, first, Len(s))
             = SubSeq(s, first, at - 1) \o (<<s[at]>> \o SubSeq(s, at + 1, Len(s)))
  <1>1. at \in 1 .. Len(s) /\ Len(s) \in at .. Len(s)
    OBVIOUS
  <1>2. SubSeq(s, at, Len(s)) = <<s[at]>> \o SubSeq(s, at + 1, Len(s))
    BY <1>1, SubSeqRecursiveFirst
  <1>3. PICK before \in Int : before = at - 1 /\ before + 1 = at
    OBVIOUS
  <1>4. /\ first \in 1 .. Len(s) + 1 /\ before \in first - 1 .. Len(s)
        /\ Len(s) \in before .. Len(s)
    BY <1>3
  <1>5. SubSeq(s, first, before) \o SubSeq(s, before + 1, Len(s)) = SubSeq(s, first, Len(s))
    BY <1>4, ConcatAdjacentSubSeq
  <1> QED
    BY <1>2, <1>3, <1>5

LEMMA CutJoins ==
    ASSUME NEW s \in Seq(Nat), NEW c
    PROVE  \/ CutAtFirst(s, c) = <<s>>
           \/ \E a \in Seq(Nat), b \in Seq(Nat) :
                 CutAtFirst(s, c) = <<a, b>> /\ s = a \o (<<c>> \o b)
  <1>1. PICK found : found = {i \in 1 .. Len(s) : s[i] = c}
    OBVIOUS
  <1>2. PICK at : at = IF found # {} THEN Min(found) ELSE 0
    OBVIOUS
  <1>3. CutAtFirst(s, c)
          = IF at = 0 THEN <<s>> ELSE <<SubSeq(s, 1, at - 1), SubSeq(s, at + 1, Len(s))>>
    BY <1>1, <1>2 DEF CutAtFirst, SelectInSeq
  <1>4. CASE found = {}
    BY <1>2, <1>3, <1>4
  <1>5. CASE found # {}
    <2>1. found \in SUBSET Nat
      BY <1>1
    <2>2. at \in found
      BY <1>2, <1>5, <2>1, MinIsLeast
    <2>3. at \in 1 .. Len(s) /\ s[at] = c
      BY <1>1, <2>2
    <2>4. 1 \in 1 .. Len(s) /\ at \in 1 .. Len(s)
      BY <2>3
    <2>5. PICK a, b : a = SubSeq(s, 1, at - 1) /\ b = SubSeq(s, at + 1, Len(s))
      OBVIOUS
    <2>6. SubSeq(s, 1, Len(s)) = a \o (<<c>> \o b)
      BY <2>3, <2>4, <2>5, Rejoin
    <2>7. SubSeq(s, 1, Len(s)) = s
      BY SubSeqFull
    <2>8. a \in Seq(Nat)
      <3>1. at - 1 \in Int /\ \A i \in 1 .. at - 1 : s[i] \in Nat
        BY <2>3
      <3> QED
        BY <2>5, <3>1, SubSeqProperties
    <2>9. b \in Seq(Nat)
      <3>1. at + 1 \in Int /\ Len(s) \in Int /\ \A i \in at + 1 .. Len(s) : s[i] \in Nat
        BY <2>3
      <3> QED
        BY <2>5, <3>1, SubSeqProperties
    <2>10. CutAtFirst(s, c) = <<a, b>>
      BY <1>3, <2>3, <2>5
    <2> QED
      BY <2>6, <2>7, <2>8, <2>9, <2>10
  <1> QED
    BY <1>4, <1>5

LEMMA CountGrows ==
    ASSUME NEW S, IsFiniteSet(S), S \subseteq Nat, NEW x \in S, NEW y \in S, x < y
    PROVE  Cardinality({z \in S : z <= x}) < Cardinality({z \in S : z <= y})
  <1>1. PICK X, Y : X = {z \in S : z <= x} /\ Y = {z \in S : z <= y}
    OBVIOUS
  <1>2. IsFiniteSet(X) /\ IsFiniteSet(Y)
    BY <1>1, FS_Subset
  <1>3. x \in Nat /\ y \in Nat /\ y \in Y /\ X \subseteq Y \ {y}
    <2>1. x \in Nat /\ y \in Nat
      OBVIOUS
    <2>2. \A z \in Nat : z <= x => z <= y /\ z # y
      BY <2>1
    <2>3. y \in Y
      BY <1>1, <2>1
    <2>4. ASSUME NEW z \in X PROVE z \in Y \ {y}
      BY <1>1, <2>2, <2>4
    <2> QED
      BY <2>1, <2>3, <2>4
  <1>4. /\ IsFiniteSet(Y \ {y}) /\ Cardinality(Y \ {y}) = Cardinality(Y) - 1
    BY <1>2, <1>3, FS_RemoveElement
  <1>5. Cardinality(X) <= Cardinality(Y \ {y})
    BY <1>3, <1>4, FS_Subset
  <1>6. PICK a \in Nat, b \in Nat : a = Cardinality(X) /\ b = Cardinality(Y)
    BY <1>2, FS_CardinalityType
  <1>7. a <= b - 1
    BY <1>4, <1>5, <1>6
  <1>8. a < b
    BY <1>7
  <1> QED
    BY <1>1, <1>6, <1>8

IsCounted(S, size) ==
    /\ IsFiniteSet(S) /\ size \in Nat
    /\ \A n \in 2 .. size : Nth(S, n - 1) < Nth(S, n)
    /\ \A x \in S : \E n \in 1 .. size :
          n = Cardinality({y \in S : y <= x}) /\ Nth(S, n) = x

LEMMA NthCounts ==
    ASSUME NEW bound \in Nat, NEW S \in SUBSET (0 .. bound)
    PROVE  IsCounted(S, Cardinality(S))
  <1>1. IsFiniteSet(S) /\ S \subseteq Nat
    <2>1. IsFiniteSet(0 .. bound)
      BY FS_Interval
    <2>2. IsFiniteSet(S)
      BY <2>1, FS_Subset
    <2> QED
      BY <2>2
  <1>2. PICK size \in Nat : size = Cardinality(S)
    BY <1>1, FS_CardinalityType
  <1> DEFINE Count(x) == Cardinality({y \in S : y <= x})
  <1>3. \A n \in 1 .. size : Nth(S, n) \in S /\ Count(Nth(S, n)) = n
    BY <1>2, NthIsMember
  <1>4. \A x, y \in S : x < y => Count(x) < Count(y)
    BY <1>1, CountGrows
  <1>5. \A x, y \in S : Count(x) < Count(y) => x < y
    <2> SUFFICES ASSUME NEW x \in S, NEW y \in S, Count(x) < Count(y)
                 PROVE  x < y
      OBVIOUS
    <2>1. x \in Nat /\ y \in Nat
      BY <1>1
    <2>2. Count(x) \in Nat /\ Count(y) \in Nat
      <3>1. \A z : IsFiniteSet({w \in S : w <= z})
        BY <1>1, FS_Subset
      <3> QED
        BY <3>1, FS_CardinalityType
    <2>3. PICK a \in Nat, b \in Nat : a = Count(x) /\ b = Count(y)
      BY <2>2
    <2> HIDE DEF Count
    <2>4. x # y
      BY <2>3
    <2>5. ~(y < x)
      BY <1>4, <2>3
    <2> QED
      BY <2>1, <2>4, <2>5
  <1>6. ASSUME NEW x \in S
        PROVE  /\ Count(x) \in 1 .. size
               /\ Nth(S, Count(x)) = x
    <2>1. PICK X : X = {y \in S : y <= x}
      OBVIOUS
    <2>2. x \in X /\ X \subseteq S
      BY <1>1, <2>1
    <2>3. IsFiniteSet(X) /\ Cardinality(X) \in Nat /\ Cardinality(X) <= size
      BY <1>1, <1>2, <2>2, FS_Subset, FS_CardinalityType
    <2>4. Cardinality(X) # 0
      BY <2>2, <2>3, FS_EmptySet
    <2>5. PICK n \in 1 .. size : n = Count(x)
      BY <2>1, <2>3, <2>4
    <2>6. PICK z \in S : z = Nth(S, n) /\ Count(z) = n
      BY <1>3
    <2>7. x \in Nat /\ z \in Nat
      BY <1>1
    <2>8. ~(x < z) /\ ~(z < x)
      <3> HIDE DEF Count
      <3> QED
        BY <1>4, <2>5, <2>6
    <2>9. x = z
      BY <2>7, <2>8
    <2> QED
      BY <2>5, <2>6, <2>9
  <1>7. ASSUME NEW n \in 2 .. size
        PROVE  Nth(S, n - 1) < Nth(S, n)
    <2>1. n - 1 \in 1 .. size /\ n \in 1 .. size /\ n - 1 < n
      OBVIOUS
    <2> HIDE DEF Count
    <2>2. Nth(S, n - 1) \in S /\ Count(Nth(S, n - 1)) = n - 1
      BY <1>3, <2>1
    <2>3. Nth(S, n) \in S /\ Count(Nth(S, n)) = n
      BY <1>3, <2>1
    <2>4. PICK x \in S, y \in S : x = Nth(S, n - 1) /\ y = Nth(S, n) /\ Count(x) < Count(y)
      BY <2>1, <2>2, <2>3
    <2>5. x < y
      BY <1>5, <2>4
    <2> QED
      BY <2>4, <2>5
  <1> QED
    BY <1>1, <1>2, <1>6, <1>7 DEF IsCounted

Ends(s, c) == {i \in 1 .. Len(s) + 1 : i = Len(s) + 1 \/ s[i] = c}

Start(ends, n) == IF n = 1 THEN 1 ELSE Nth(ends, n - 1) + 1

\* What there is to know of Split: its parts are between ends that increase up to
\* the end of the text, and every place is in a part or at its end.
AreParts(s, ends, size, parts) ==
    /\ size \in Nat \ {0} /\ Len(parts) = size
    /\ \A n \in 1 .. size :
          /\ Nth(ends, n) \in ends
          /\ Start(ends, n) \in 1 .. Nth(ends, n)
          /\ parts[n] = SubSeq(s, Start(ends, n), Nth(ends, n) - 1)
    /\ Nth(ends, size) = Len(s) + 1
    /\ \A i \in 1 .. Len(s) : \E n \in 1 .. size : i \in Start(ends, n) .. Nth(ends, n)

LEMMA SplitParts ==
    ASSUME NEW s \in Seq(Nat), NEW c, NEW ends, ends = Ends(s, c)
    PROVE  AreParts(s, ends, Cardinality(ends), Split(s, c))
  <1>1. PICK bound \in Nat : bound = Len(s) + 1
    OBVIOUS
  <1>2. /\ ends \in SUBSET (0 .. bound) /\ bound \in ends
        /\ \A e \in ends : e \in Nat /\ e >= 1 /\ e <= bound
    BY <1>1 DEF Ends
  <1>3. PICK size \in Nat : size = Cardinality(ends)
    BY <1>2, NthCounts DEF IsCounted
  <1>4. /\ IsFiniteSet(ends)
        /\ \A n \in 2 .. size : Nth(ends, n - 1) < Nth(ends, n)
        /\ \A x \in ends : \E n \in 1 .. size :
              n = Cardinality({y \in ends : y <= x}) /\ Nth(ends, n) = x
    <2>1. IsCounted(ends, size)
      BY <1>2, <1>3, NthCounts
    <2> QED
      BY <2>1 DEF IsCounted
  <1>5. \A n \in 1 .. size : Nth(ends, n) \in ends
    BY <1>2, <1>3, NthIsMember
  <1>6. size # 0
    <2>1. PICK n \in 1 .. size : Nth(ends, n) = bound
      BY <1>2, <1>4
    <2> QED
      BY <2>1
  <1>7. ASSUME NEW n \in 1 .. size PROVE Start(ends, n) \in 1 .. Nth(ends, n)
    <2>1. CASE n = 1
      <3>1. Nth(ends, n) \in Nat /\ Nth(ends, n) >= 1
        BY <1>2, <1>5
      <3> QED
        BY <2>1, <3>1 DEF Start
    <2>2. CASE n # 1
      <3>1. n - 1 \in 1 .. size /\ n \in 2 .. size
        BY <2>2
      <3>2. PICK x \in ends, y \in ends : x = Nth(ends, n - 1) /\ y = Nth(ends, n) /\ x < y
        BY <1>4, <1>5, <3>1
      <3>3. x \in Nat /\ y \in Nat
        BY <1>2
      <3>4. x + 1 \in 1 .. y
        BY <3>2, <3>3
      <3> QED
        BY <2>2, <3>2, <3>4 DEF Start
    <2> QED
      BY <2>1, <2>2
  <1>8. Split(s, c) = [n \in 1 .. size |-> SubSeq(s, Start(ends, n), Nth(ends, n) - 1)]
    BY <1>3 DEF Split, Start, Ends
  <1>9. Nth(ends, size) = bound
    <2>1. {y \in ends : y <= bound} = ends
      BY <1>2
    <2> QED
      BY <1>2, <1>3, <1>4, <2>1
  <1>10. ASSUME NEW i \in 1 .. Len(s)
         PROVE  \E n \in 1 .. size : i \in Start(ends, n) .. Nth(ends, n)
    <2>1. PICK Later : Later = {e \in ends : e >= i}
      OBVIOUS
    <2>2. Later \in SUBSET Nat /\ bound \in Later
      BY <1>1, <1>2, <2>1
    <2>3. PICK x : x \in Later /\ \A y \in Later : x <= y
      BY <2>2, MinIsLeast
    <2>4. x \in ends /\ x \in Nat /\ x >= i
      BY <1>2, <2>1, <2>3
    <2>5. PICK n \in 1 .. size : Nth(ends, n) = x
      BY <1>4, <2>4
    <2>6. CASE n = 1
      BY <2>4, <2>5, <2>6 DEF Start
    <2>7. CASE n # 1
      <3>1. n - 1 \in 1 .. size /\ n \in 2 .. size
        BY <2>7
      <3>2. PICK y \in ends : y = Nth(ends, n - 1) /\ y < x
        BY <1>4, <1>5, <2>5, <3>1
      <3>3. y \in Nat /\ ~(y >= i)
        BY <1>2, <2>1, <2>3, <2>4, <3>2
      <3>4. i \in y + 1 .. x
        BY <2>4, <3>3
      <3> QED
        BY <2>5, <2>7, <3>2, <3>4 DEF Start
    <2> QED
      BY <2>6, <2>7
  <1>11. Len(Split(s, c)) = size
    BY <1>8
  <1>12. \A n \in 1 .. size : Split(s, c)[n] = SubSeq(s, Start(ends, n), Nth(ends, n) - 1)
    BY <1>8
  <1> QED
    BY <1>1, <1>3, <1>5, <1>6, <1>7, <1>9, <1>10, <1>11, <1>12 DEF AreParts

LEMMA PartOf ==
    ASSUME NEW s \in Seq(Nat), NEW first \in Nat, NEW e \in Nat,
           first \in 1 .. e, e \in 1 .. Len(s) + 1, NEW part, part = SubSeq(s, first, e - 1)
    PROVE  /\ Len(part) = e - first
           /\ \A i \in first .. e - 1 : part[i - first + 1] = s[i]
  <1>1. PICK last \in Int : last = e - 1
    OBVIOUS
  <1>2. first \in Int /\ \A i \in first .. last : s[i] \in Nat
    BY <1>1
  <1>3. /\ Len(part) = IF first <= last THEN last - first + 1 ELSE 0
        /\ \A i \in 1 .. last - first + 1 : part[i] = s[first + i - 1]
    BY <1>1, <1>2, SubSeqProperties
  <1>4. Len(part) = e - first
    BY <1>1, <1>3
  <1>5. ASSUME NEW i \in first .. e - 1 PROVE part[i - first + 1] = s[i]
    <2>1. PICK j \in 1 .. last - first + 1 : j = i - first + 1
      BY <1>1
    <2>2. first + j - 1 = i
      BY <2>1
    <2> QED
      BY <1>3, <2>1, <2>2
  <1> QED
    BY <1>4, <1>5

LEMMA SplitIsInjective ==
    ASSUME NEW s \in Seq(Nat), NEW t \in Seq(Nat), NEW c, Split(s, c) = Split(t, c)
    PROVE  s = t
  <1>1. PICK parts : parts = Split(s, c) /\ parts = Split(t, c)
    OBVIOUS
  <1>2. PICK S, T : S = Ends(s, c) /\ T = Ends(t, c)
    OBVIOUS
  <1>3. PICK size \in Nat \ {0} : size = Cardinality(S)
    <2>1. AreParts(s, S, Cardinality(S), parts)
      BY <1>1, <1>2, SplitParts
    <2> QED
      BY <2>1 DEF AreParts
  <1>4. AreParts(s, S, size, parts)
    BY <1>1, <1>2, <1>3, SplitParts
  <1>5. AreParts(t, T, size, parts)
    <2>1. AreParts(t, T, Cardinality(T), parts)
      BY <1>1, <1>2, SplitParts
    <2>2. size = Len(parts) /\ Cardinality(T) = Len(parts)
      BY <1>4, <2>1 DEF AreParts
    <2> QED
      BY <2>1, <2>2
  <1>6. /\ \A e \in S : e \in 1 .. Len(s) + 1 /\ (e # Len(s) + 1 => s[e] = c)
        /\ \A e \in T : e \in 1 .. Len(t) + 1 /\ (e # Len(t) + 1 => t[e] = c)
    BY <1>2 DEF Ends
  <1>7. ASSUME NEW n \in 1 .. size
        PROVE  \E first \in Nat, e \in Nat :
                  /\ first = Start(S, n) /\ e = Nth(S, n) /\ e \in S
                  /\ Len(parts[n]) = e - first
                  /\ \A i \in first .. e - 1 : parts[n][i - first + 1] = s[i]
    <2>1. PICK first, e : first = Start(S, n) /\ e = Nth(S, n)
      OBVIOUS
    <2> DEFINE part == parts[n]
    <2>2. e \in S /\ first \in 1 .. e /\ part = SubSeq(s, first, e - 1)
      BY <1>4, <2>1 DEF AreParts
    <2> HIDE DEF part
    <2>3. e \in 1 .. Len(s) + 1
      BY <1>6, <2>2
    <2>4. first \in Nat /\ e \in Nat
      BY <2>2, <2>3
    <2>5. Len(part) = e - first /\ \A i \in first .. e - 1 : part[i - first + 1] = s[i]
      BY <2>2, <2>3, <2>4, PartOf
    <2> QED
      BY <2>1, <2>2, <2>4, <2>5 DEF part
  <1>8. ASSUME NEW n \in 1 .. size
        PROVE  \E first \in Nat, e \in Nat :
                  /\ first = Start(T, n) /\ e = Nth(T, n) /\ e \in T
                  /\ Len(parts[n]) = e - first
                  /\ \A i \in first .. e - 1 : parts[n][i - first + 1] = t[i]
    <2>1. PICK first, e : first = Start(T, n) /\ e = Nth(T, n)
      OBVIOUS
    <2> DEFINE part == parts[n]
    <2>2. e \in T /\ first \in 1 .. e /\ part = SubSeq(t, first, e - 1)
      BY <1>5, <2>1 DEF AreParts
    <2> HIDE DEF part
    <2>3. e \in 1 .. Len(t) + 1
      BY <1>6, <2>2
    <2>4. first \in Nat /\ e \in Nat
      BY <2>2, <2>3
    <2>5. Len(part) = e - first /\ \A i \in first .. e - 1 : part[i - first + 1] = t[i]
      BY <2>2, <2>3, <2>4, PartOf
    <2> QED
      BY <2>1, <2>2, <2>4, <2>5 DEF part
  \* The parts are of the same lengths, so they end at the same places.
  <1>9. ASSUME NEW n \in 1 .. size, Start(S, n) = Start(T, n)
        PROVE  Nth(S, n) = Nth(T, n)
    <2>1. PICK first \in Nat, e \in Nat :
              first = Start(S, n) /\ e = Nth(S, n) /\ Len(parts[n]) = e - first
      BY <1>7
    <2>2. PICK f \in Nat : f = Nth(T, n) /\ Len(parts[n]) = f - first
      BY <1>8, <1>9, <2>1
    <2>3. e = f
      BY <2>1, <2>2
    <2> QED
      BY <2>1, <2>2, <2>3
  <1>10. ASSUME NEW n \in 1 .. size
         PROVE  Nth(S, n) = Nth(T, n)
    <2> DEFINE Good == {k \in 0 .. size - 1 : Nth(S, k + 1) = Nth(T, k + 1)}
    <2>1. 0 \in Good
      <3>1. Start(S, 1) = Start(T, 1) /\ 1 \in 1 .. size
        BY DEF Start
      <3>2. Nth(S, 1) = Nth(T, 1)
        BY <1>9, <3>1
      <3>3. 0 \in 0 .. size - 1 /\ 0 + 1 = 1
        OBVIOUS
      <3> QED
        BY <3>2, <3>3
    <2>2. ASSUME NEW k \in 1 .. size - 1, k - 1 \in Good PROVE k \in Good
      <3>1. PICK j \in 1 .. size : j = k + 1 /\ j - 1 = (k - 1) + 1 /\ j # 1
        OBVIOUS
      <3>2. Nth(S, j - 1) = Nth(T, j - 1)
        BY <2>2, <3>1
      <3>3. Start(S, j) = Start(T, j)
        BY <3>1, <3>2 DEF Start
      <3>4. Nth(S, j) = Nth(T, j)
        BY <1>9, <3>3
      <3> QED
        BY <3>1, <3>4
    <2>3. n - 1 \in 0 .. size - 1 /\ (n - 1) + 1 = n /\ \A i \in 1 .. n - 1 : i \in 1 .. size - 1
      OBVIOUS
    <2>4. n - 1 \in Good
      <3> HIDE DEF Good
      <3> QED
        BY <2>1, <2>2, <2>3, CountingUp
    <2> QED
      BY <2>3, <2>4
  <1>11. \A n \in 1 .. size : Start(S, n) = Start(T, n)
    <2> SUFFICES ASSUME NEW n \in 1 .. size PROVE Start(S, n) = Start(T, n)
      OBVIOUS
    <2>1. n # 1 => n - 1 \in 1 .. size
      OBVIOUS
    <2> QED
      BY <1>10, <2>1 DEF Start
  <1>12. Len(s) = Len(t)
    <2>1. size \in 1 .. size
      OBVIOUS
    <2>2. Len(s) + 1 = Len(t) + 1
      BY <1>4, <1>5, <1>10, <2>1 DEF AreParts
    <2> QED
      BY <2>2
  <1>13. ASSUME NEW i \in 1 .. Len(s) PROVE s[i] = t[i]
    <2>1. PICK n \in 1 .. size : i \in Start(S, n) .. Nth(S, n)
      BY <1>4 DEF AreParts
    <2>2. PICK first \in Nat, e \in Nat :
              /\ first = Start(S, n) /\ e = Nth(S, n) /\ e \in S
              /\ Len(parts[n]) = e - first
              /\ \A j \in first .. e - 1 : parts[n][j - first + 1] = s[j]
      BY <1>7
    <2>3. /\ e \in T
          /\ \A j \in first .. e - 1 : parts[n][j - first + 1] = t[j]
      <3>1. PICK f \in Nat, g \in Nat :
                /\ f = Start(T, n) /\ g = Nth(T, n) /\ g \in T
                /\ \A j \in f .. g - 1 : parts[n][j - f + 1] = t[j]
        BY <1>8
      <3>2. f = first /\ g = e
        BY <1>10, <1>11, <2>2, <3>1
      <3> QED
        BY <3>1, <3>2
    <2>4. CASE i = e
      <3>1. e # Len(s) + 1 /\ e # Len(t) + 1
        BY <1>12, <2>4
      <3> QED
        BY <1>6, <2>2, <2>3, <2>4, <3>1
    <2>5. CASE i # e
      <3>1. i \in first .. e - 1
        BY <2>1, <2>2, <2>5
      <3>2. parts[n][i - first + 1] = s[i] /\ parts[n][i - first + 1] = t[i]
        BY <2>2, <2>3, <3>1
      <3> QED
        BY <3>2
    <2> QED
      BY <2>4, <2>5
  <1> QED
    BY <1>12, <1>13, SeqEqual

LEMMA ThreeParts ==
    ASSUME NEW s \in Seq(Nat), NEW c, NEW parts, parts = Split(s, c), Len(parts) = 3
    PROVE  s = parts[1] \o (<<c>> \o (parts[2] \o (<<c>> \o parts[3])))
  <1>1. PICK E : E = Ends(s, c)
    OBVIOUS
  <1>2. PICK size : size = Cardinality(E)
    OBVIOUS
  <1>3. AreParts(s, E, size, parts)
    BY <1>1, <1>2, SplitParts
  <1>4. size = 3
    BY <1>3 DEF AreParts
  <1>5. AreParts(s, E, 3, parts)
    BY <1>3, <1>4
  <1>6. /\ \A n \in 1 .. 3 : /\ Nth(E, n) \in E /\ Start(E, n) \in 1 .. Nth(E, n)
                             /\ parts[n] = SubSeq(s, Start(E, n), Nth(E, n) - 1)
        /\ Nth(E, 3) = Len(s) + 1
    BY <1>5 DEF AreParts
  <1>7. PICK e1, e2 : e1 = Nth(E, 1) /\ e2 = Nth(E, 2)
    OBVIOUS
  <1>8. Start(E, 1) = 1 /\ Start(E, 2) = e1 + 1 /\ Start(E, 3) = e2 + 1
    BY <1>7 DEF Start
  <1>9. /\ e1 \in E /\ e2 \in E
        /\ e1 + 1 \in 1 .. e2 /\ e2 + 1 \in 1 .. Len(s) + 1
        /\ parts[1] = SubSeq(s, 1, e1 - 1) /\ parts[2] = SubSeq(s, e1 + 1, e2 - 1)
        /\ parts[3] = SubSeq(s, e2 + 1, (Len(s) + 1) - 1)
    <2>1. 1 \in 1 .. 3 /\ 2 \in 1 .. 3 /\ 3 \in 1 .. 3
      OBVIOUS
    <2>2. /\ e1 \in E /\ parts[1] = SubSeq(s, 1, e1 - 1)
      BY <1>6, <1>7, <1>8, <2>1
    <2>3. /\ e2 \in E /\ e1 + 1 \in 1 .. e2 /\ parts[2] = SubSeq(s, e1 + 1, e2 - 1)
      BY <1>6, <1>7, <1>8, <2>1
    <2>4. e2 + 1 \in 1 .. Len(s) + 1 /\ parts[3] = SubSeq(s, e2 + 1, (Len(s) + 1) - 1)
      BY <1>6, <1>7, <1>8, <2>1
    <2> QED
      BY <2>2, <2>3, <2>4
  <1>10. e1 \in 1 .. Len(s) + 1 /\ e2 \in 1 .. Len(s) + 1
    BY <1>1, <1>9 DEF Ends
  <1>11. /\ e1 \in 1 .. Len(s) /\ e2 \in e1 + 1 .. Len(s) /\ e1 + 1 \in 1 .. Len(s)
        /\ e1 # Len(s) + 1 /\ e2 # Len(s) + 1
    BY <1>9, <1>10
  <1>12. s[e1] = c /\ s[e2] = c
    BY <1>1, <1>9, <1>11 DEF Ends
  <1>13. 1 \in 1 .. Len(s) /\ (Len(s) + 1) - 1 = Len(s)
    BY <1>11
  <1>14. SubSeq(s, 1, Len(s)) = SubSeq(s, 1, e1 - 1) \o (<<c>> \o SubSeq(s, e1 + 1, Len(s)))
    BY <1>11, <1>12, <1>13, Rejoin
  <1>15. PICK second : second = e1 + 1
    OBVIOUS
  <1>16. SubSeq(s, second, Len(s))
           = SubSeq(s, second, e2 - 1) \o (<<c>> \o SubSeq(s, e2 + 1, Len(s)))
    BY <1>11, <1>12, <1>15, Rejoin
  <1>17. SubSeq(s, 1, Len(s)) = s
    BY SubSeqFull
  <1> QED
    BY <1>9, <1>13, <1>14, <1>15, <1>16, <1>17

\* The empty text has one part.
LEMMA EmptyText ==
    ASSUME NEW c
    PROVE  <<>> \in ToSet(Split(<<>>, c))
  <1>1. PICK s \in Seq(Nat) : s = <<>> /\ Len(s) = 0
    <2>1. <<>> \in Seq(Nat) /\ Len(<<>>) = 0
      BY EmptySeq
    <2> QED
      BY <2>1
  <1>2. PICK E : E = Ends(s, c)
    OBVIOUS
  <1>3. PICK parts : parts = Split(s, c)
    OBVIOUS
  <1>4. /\ Cardinality(E) \in Nat \ {0} /\ Len(parts) = Cardinality(E)
        /\ \A n \in 1 .. Cardinality(E) :
              Nth(E, n) \in E /\ parts[n] = SubSeq(s, Start(E, n), Nth(E, n) - 1)
    BY <1>2, <1>3, SplitParts DEF AreParts
  <1>5. 1 \in 1 .. Cardinality(E)
    BY <1>4
  <1>6. Nth(E, 1) = 1 /\ Start(E, 1) = 1
    <2>1. Nth(E, 1) \in 1 .. Len(s) + 1
      BY <1>2, <1>4, <1>5 DEF Ends
    <2> QED
      BY <1>1, <2>1 DEF Start
  <1>7. parts[1] = SubSeq(s, 1, 1 - 1)
    BY <1>4, <1>5, <1>6
  <1>8. parts[1] = <<>>
    BY <1>7, SubSeqEmpty
  <1>9. 1 \in DOMAIN parts
    <2>1. parts \in Seq(Seq(Nat))
      BY <1>3, SplitIsList
    <2> QED
      BY <1>4, <1>5, <2>1
  <1> QED
    BY <1>1, <1>3, <1>8, <1>9 DEF ToSet

-----------------------------------------------------------------------------
\* No version is taken for another

\* An identifier that Atoi reads, and not as a negative number, is a numeral.
LEMMA IdentifierIsNumeral ==
    ASSUME NEW s \in Seq(Nat), IsPrereleaseIdentifier(s), isNumeric(s), Head(s) # Hyphen
    PROVE  IsNumeral(s)
  <1>1. s # <<>> /\ ToSet(s) \subseteq Digit \cup Letter \cup {Hyphen}
    BY DEF IsPrereleaseIdentifier, IsIdentifier
  <1>2. Head(s) \in ToSet(s)
    <2>1. Head(s) = s[1] /\ 1 \in DOMAIN s
      BY <1>1
    <2> QED
      BY <2>1 DEF ToSet
  <1>3. Plus \notin Digit \cup Letter \cup {Hyphen}
    BY DEF Plus, Hyphen, Digit, Letter
  <1>4. Head(s) # Plus
    BY <1>1, <1>2, <1>3
  <1>5. Unsigned(s) = s
    BY <1>4 DEF Unsigned
  <1>6. ToSet(s) \subseteq Digit
    BY <1>5 DEF isNumeric
  <1> QED
    BY <1>6 DEF IsPrereleaseIdentifier

IsPlain(id) == IsPrereleaseIdentifier(id) /\ ~(isNumeric(id) /\ Head(id) = Hyphen)

LEMMA IdentifiersAreToldApart ==
    ASSUME NEW s \in Seq(Nat), NEW t \in Seq(Nat), IsPlain(s), IsPlain(t),
           comparePreReleaseIdentifiers(s, t) = 0
    PROVE  s = t
  <1>1. CASE isNumeric(s) /\ isNumeric(t)
    <2>1. IsNumeral(s) /\ IsNumeral(t)
      BY <1>1, IdentifierIsNumeral DEF IsPlain
    <2>2. PICK a \in Int, b \in Int : a = Atoi(s) /\ b = Atoi(t)
      BY <1>1, MaxIntAssumption DEF isNumeric
    <2>3. Sign(a - b) = 0
      <3>1. ~(isNumeric(s) # isNumeric(t))
        BY <1>1 DEF isNumeric
      <3> QED
        BY <1>1, <2>2, <3>1 DEF comparePreReleaseIdentifiers
    <2>4. a = b
      BY <2>3 DEF Sign
    <2> QED
      BY <2>1, <2>2, <2>4, NumeralsPrint
  <1>2. CASE ~isNumeric(s) /\ ~isNumeric(t)
    <2>1. ~(isNumeric(s) # isNumeric(t))
      BY <1>2 DEF isNumeric
    <2>2. (IF Precedes(s, t) THEN -1 ELSE IF s = t THEN 0 ELSE 1) = 0
      BY <1>2, <2>1 DEF comparePreReleaseIdentifiers
    <2> QED
      BY <2>2
  <1>3. CASE isNumeric(s) # isNumeric(t)
    BY <1>3 DEF comparePreReleaseIdentifiers
  <1>4. isNumeric(s) \in BOOLEAN /\ isNumeric(t) \in BOOLEAN
    BY DEF isNumeric
  <1> QED
    BY <1>1, <1>2, <1>3, <1>4

LEMMA ListsAreToldApart ==
    ASSUME NEW ids1 \in Seq(Seq(Nat)), \A id \in ToSet(ids1) : IsPlain(id),
           NEW ids2 \in Seq(Seq(Nat)), \A id \in ToSet(ids2) : IsPlain(id),
           compareIdentifiers(ids1, ids2) = 0
    PROVE  ids1 = ids2
  <1>1. PICK n1 \in Nat, n2 \in Nat :
            /\ n1 = Len(ids1) /\ DOMAIN ids1 = 1 .. n1
            /\ n2 = Len(ids2) /\ DOMAIN ids2 = 1 .. n2
    OBVIOUS
  <1>2. PICK order : order = [i \in Int |-> comparePreReleaseIdentifiers(ids1[i], ids2[i])]
    OBVIOUS
  <1>3. PICK differ : differ = {i \in DOMAIN ids1 \cap DOMAIN ids2 : order[i] # 0}
    OBVIOUS
  <1>4. differ \in SUBSET Nat /\ \A i \in differ : order[i] # 0
    BY <1>1, <1>3
  <1>5. differ = {i \in DOMAIN ids1 \cap DOMAIN ids2 :
                     comparePreReleaseIdentifiers(ids1[i], ids2[i]) # 0}
    BY <1>1, <1>2, <1>3
  <1>6. differ = {}
    <2> SUFFICES ASSUME differ # {} PROVE FALSE
      OBVIOUS
    <2>1. PICK least \in differ : least = Min(differ)
      BY <1>4, MinIsLeast
    <2>2. compareIdentifiers(ids1, ids2) = comparePreReleaseIdentifiers(ids1[least], ids2[least])
      BY <1>5, <2>1 DEF compareIdentifiers
    <2>3. order[least] = comparePreReleaseIdentifiers(ids1[least], ids2[least])
      BY <1>2, <1>4
    <2> QED
      BY <1>4, <2>2, <2>3
  <1>7. n1 = n2
    <2>1. Sign(n1 - n2) = 0
      BY <1>1, <1>5, <1>6 DEF compareIdentifiers
    <2> QED
      BY <2>1 DEF Sign
  <1>8. ASSUME NEW i \in 1 .. n1 PROVE ids1[i] = ids2[i]
    <2>1. i \in DOMAIN ids1 /\ i \in DOMAIN ids2
      BY <1>1, <1>7
    <2>2. comparePreReleaseIdentifiers(ids1[i], ids2[i]) = 0
      BY <1>5, <1>6, <2>1
    <2>3. ids1[i] \in ToSet(ids1) /\ ids2[i] \in ToSet(ids2)
      BY <2>1 DEF ToSet
    <2>4. ids1[i] \in Seq(Nat) /\ ids2[i] \in Seq(Nat)
      BY <2>1
    <2> QED
      BY <2>2, <2>3, <2>4, IdentifiersAreToldApart
  <1>9. Len(ids1) = Len(ids2) /\ \A i \in 1 .. Len(ids1) : ids1[i] = ids2[i]
    BY <1>1, <1>7, <1>8
  <1> QED
    BY <1>9, SeqEqual

HasPlain(pre) == pre # <<>> => \A id \in ToSet(Split(pre, Dot)) : IsPlain(id)

LEMMA PrereleasesAreToldApart ==
    ASSUME NEW pre1 \in Seq(Nat), HasPlain(pre1), NEW pre2 \in Seq(Nat), HasPlain(pre2),
           comparePreRelease(pre1, pre2) = 0
    PROVE  pre1 = pre2
  <1>1. CASE pre1 = <<>> \/ pre2 = <<>>
    <2>1. Sign(Len(pre2) - Len(pre1)) = 0
      BY <1>1 DEF comparePreRelease
    <2>2. PICK n1 \in Nat, n2 \in Nat :
              /\ n1 = Len(pre1) /\ (pre1 = <<>> <=> n1 = 0)
              /\ n2 = Len(pre2) /\ (pre2 = <<>> <=> n2 = 0)
      OBVIOUS
    <2>3. n1 = n2
      BY <2>1, <2>2 DEF Sign
    <2> QED
      BY <1>1, <2>2, <2>3
  <1>2. CASE pre1 # <<>> /\ pre2 # <<>>
    <2>1. PICK ids1, ids2 : ids1 = Split(pre1, Dot) /\ ids2 = Split(pre2, Dot)
      OBVIOUS
    <2>2. ids1 \in Seq(Seq(Nat)) /\ ids2 \in Seq(Seq(Nat))
      BY <2>1, SplitIsList
    <2>3. compareIdentifiers(ids1, ids2) = 0
      BY <1>2, <2>1 DEF comparePreRelease
    <2>4. /\ \A id \in ToSet(ids1) : IsPlain(id)
          /\ \A id \in ToSet(ids2) : IsPlain(id)
      BY <1>2, <2>1 DEF HasPlain
    <2>5. ids1 = ids2
      BY <2>2, <2>3, <2>4, ListsAreToldApart
    <2> QED
      BY <2>1, <2>5, SplitIsInjective
  <1> QED
    BY <1>1, <1>2

LEMMA EqualVersions ==
    ASSUME NEW v1, IsReadVersion(v1), NEW v2, IsReadVersion(v2)
    PROVE  /\ Equal(v1, v2) => Compare(v1, v2) = 0
           /\ HasPlain(v1.prerelease) /\ HasPlain(v2.prerelease) /\ Compare(v1, v2) = 0
                 => Equal(v1, v2)
  <1>1. PICK order : order = comparePreRelease(v1.prerelease, v2.prerelease)
    OBVIOUS
  <1>2. v1.prerelease \in Seq(Nat) /\ v2.prerelease \in Seq(Nat)
    BY DEF IsReadVersion
  <1>3. \A x \in Int, y \in Int : x # y => Sign(x - y) # 0
    BY DEF Sign
  <1>4. Compare(v1, v2) = 0 <=> /\ v1.major = v2.major /\ v1.minor = v2.minor
                                /\ v1.patch = v2.patch /\ order = 0
    BY <1>1, <1>3 DEF Compare, IsReadVersion
  <1>5. v1.prerelease = v2.prerelease => order = 0
    <2> HAVE v1.prerelease = v2.prerelease
    <2>1. order \in Signs /\ order = -order
      BY <1>1, <1>2, PrereleasesAreOrdered
    <2> QED
      BY <2>1 DEF Signs
  <1>6. HasPlain(v1.prerelease) /\ HasPlain(v2.prerelease) /\ order = 0
           => v1.prerelease = v2.prerelease
    BY <1>1, <1>2, PrereleasesAreToldApart
  <1> QED
    BY <1>4, <1>5, <1>6 DEF Equal

-----------------------------------------------------------------------------
\* What is read prints as the text it was

\* A part and the character before it, if it is there.
Marked(c, only) == IF only = <<>> THEN <<>> ELSE <<c>> \o only

\* What follows is not empty, if there is any.
NoneIsEmpty(cut) == \A x \in ToSet(Tail(cut)) : x # <<>>

\* The text is its first part and what follows.
IsJoined(s, c, cut, only) ==
    /\ only # <<>> => only \in ToSet(Tail(cut))
    /\ s = cut[1] \o Marked(c, only)

LEMMA OnlyPart ==
    ASSUME NEW s \in Seq(Nat), NEW c \in Nat, NoneIsEmpty(CutAtFirst(s, c))
    PROVE  IsJoined(s, c, CutAtFirst(s, c), Only(Tail(CutAtFirst(s, c))))
  <1>1. PICK cut, only : cut = CutAtFirst(s, c) /\ only = Only(Tail(cut))
    OBVIOUS
  <1>2. ASSUME cut = <<s>> PROVE IsJoined(s, c, cut, only)
    <2>1. Tail(cut) = <<>> /\ cut[1] = s
      BY <1>2
    <2>2. only = <<>>
      BY <1>1, <2>1 DEF Only
    <2>3. s \o <<>> = s /\ <<>> \in Seq(Nat)
      BY ConcatEmptySeq, EmptySeq
    <2> QED
      BY <2>1, <2>2, <2>3 DEF Marked, IsJoined
  <1>3. ASSUME cut # <<s>> PROVE IsJoined(s, c, cut, only)
    <2>1. PICK a \in Seq(Nat), b \in Seq(Nat) : cut = <<a, b>> /\ s = a \o (<<c>> \o b)
      BY <1>1, <1>3, CutJoins
    <2>2. cut[1] = a /\ Tail(cut) = <<b>> /\ Tail(cut) # <<>> /\ Head(Tail(cut)) = b
      BY <2>1
    <2>3. only = b
      BY <1>1, <2>2 DEF Only
    <2>4. b \in ToSet(Tail(cut))
      <3>1. <<b>>[1] = b /\ 1 \in DOMAIN <<b>>
        OBVIOUS
      <3> QED
        BY <2>2, <3>1 DEF ToSet
    <2>5. b # <<>>
      BY <1>1, <2>4 DEF NoneIsEmpty
    <2> QED
      BY <2>1, <2>2, <2>3, <2>4, <2>5 DEF Marked, IsJoined
  <1> QED
    BY <1>1, <1>2, <1>3

Glued(x, y) == x \o y

LEMMA Regroup ==
    ASSUME NEW x \in Seq(Nat), NEW y \in Seq(Nat), NEW z \in Seq(Nat)
    PROVE  Glued(x, Glued(y, z)) = Glued(Glued(x, y), z) /\ Glued(x, y) \in Seq(Nat)
  <1>1. (x \o y) \o z = x \o (y \o z)
    OBVIOUS
  <1>2. x \o y \in Seq(Nat)
    OBVIOUS
  <1> QED
    BY <1>1, <1>2, Zenon DEF Glued

\* Five texts in a row and two more, however they were put together.
InARow(a, dot, b, d, p, q)  == a \o dot \o b \o dot \o d \o p \o q
Together(a, dot, b, d, p, q) == ((a \o (dot \o (b \o (dot \o d)))) \o p) \o q

LEMMA PartsInARow ==
    ASSUME NEW a \in Seq(Nat), NEW b \in Seq(Nat), NEW d \in Seq(Nat), NEW dot \in Seq(Nat),
           NEW p, NEW q
    PROVE  Together(a, dot, b, d, p, q) = InARow(a, dot, b, d, p, q)
  <1>1. PICK tail, ab : tail = Glued(dot, d) /\ ab = Glued(a, dot)
    OBVIOUS
  <1>2. tail \in Seq(Nat) /\ ab \in Seq(Nat)
    BY <1>1, Regroup
  <1>3. PICK rest, abd : rest = Glued(b, tail) /\ abd = Glued(ab, b)
    OBVIOUS
  <1>4. rest \in Seq(Nat) /\ abd \in Seq(Nat)
    BY <1>2, <1>3, Regroup
  <1>5. Glued(a, Glued(dot, rest)) = Glued(ab, rest)
    BY <1>1, <1>4, Regroup
  <1>6. Glued(ab, rest) = Glued(abd, tail)
    BY <1>2, <1>3, Regroup
  <1>7. Glued(abd, tail) = Glued(Glued(abd, dot), d)
    BY <1>1, <1>4, Regroup
  <1>8. Glued(a, Glued(dot, Glued(b, Glued(dot, d))))
          = Glued(Glued(Glued(Glued(a, dot), b), dot), d)
    BY <1>1, <1>3, <1>5, <1>6, <1>7
  <1> QED
    BY <1>8, Zenon DEF Glued, Together, InARow

LEMMA VersionsPrint ==
    ASSUME NEW t, ParseQuietly(t) # NoVersion, NEW version, version = ParseQuietly(t)
    PROVE  /\ String(version) = Spelling[t]
           /\ version.prerelease # <<>> =>
                 \A id \in ToSet(Split(version.prerelease, Dot)) : IsPrereleaseIdentifier(id)
  <1>1. t \in DOMAIN Spelling /\ ParseQuietly(t) = Parse(Spelling[t])
    BY DEF ParseQuietly, Versions
  <1>2. PICK s \in Seq(Nat) : s = Spelling[t]
    BY <1>1, SpellingAssumption
  <1>3. PICK build : build = CutAtFirst(s, Plus)
    OBVIOUS
  <1>4. PICK pre : pre = CutAtFirst(build[1], Hyphen)
    OBVIOUS
  <1>5. PICK matches : matches = findNamedMatches(s)
    OBVIOUS
  <1>6. /\ matches.numbers = Split(pre[1], Dot)
        /\ matches.prerelease = Tail(pre) /\ matches.buildmetadata = Tail(build)
    BY <1>3, <1>4, <1>5 DEF findNamedMatches
  <1>7. version = Version(matches) /\ version # NoVersion
    BY <1>1, <1>2, <1>5 DEF Parse
  <1>8. /\ semverPattern(matches)
        /\ version.major = Atoi(matches.numbers[1]) /\ version.minor = Atoi(matches.numbers[2])
        /\ version.patch = Atoi(matches.numbers[3])
        /\ version.prerelease = Only(matches.prerelease)
        /\ version.buildMetadata = Only(matches.buildmetadata)
    BY <1>7 DEF Version
  \* Neither the prerelease nor the build metadata is empty.
  <1>9. \A x \in ToSet(Tail(build)) : x # <<>>
    <2>1. \A x \in ToSet(Tail(build)) : \A id \in ToSet(Split(x, Dot)) : IsIdentifier(id)
      BY <1>6, <1>8 DEF semverPattern
    <2>2. ~IsIdentifier(<<>>) /\ <<>> \in ToSet(Split(<<>>, Dot))
      BY EmptyText DEF IsIdentifier
    <2> QED
      BY <2>1, <2>2
  <1>10. \A x \in ToSet(Tail(pre)) :
             \A id \in ToSet(Split(x, Dot)) : IsPrereleaseIdentifier(id)
    BY <1>6, <1>8 DEF semverPattern
  <1>11. \A x \in ToSet(Tail(pre)) : x # <<>>
    <2>1. ~IsPrereleaseIdentifier(<<>>) /\ <<>> \in ToSet(Split(<<>>, Dot))
      BY EmptyText DEF IsPrereleaseIdentifier, IsIdentifier
    <2> QED
      BY <1>10, <2>1
  <1>12. PICK a, b : a = version.prerelease /\ b = version.buildMetadata
    OBVIOUS
  <1>13. a = Only(Tail(pre)) /\ b = Only(Tail(build))
    BY <1>6, <1>8, <1>12
  <1>14. Plus \in Nat /\ Hyphen \in Nat /\ Dot \in Nat
    BY DEF Plus, Hyphen, Dot
  <1>15. PICK B : B = Marked(Plus, b)
    OBVIOUS
  <1>16. PICK A : A = Marked(Hyphen, a)
    OBVIOUS
  <1>17. build[1] \in Seq(Nat) /\ s = build[1] \o B
    <2>1. NoneIsEmpty(CutAtFirst(s, Plus))
      BY <1>3, <1>9 DEF NoneIsEmpty
    <2>2. IsJoined(s, Plus, build, b)
      BY <1>3, <1>13, <1>14, <2>1, OnlyPart
    <2>3. build[1] \in Seq(Nat)
      BY <1>3, CutIsText
    <2> QED
      BY <1>15, <2>2, <2>3, Zenon DEF IsJoined
  <1>18. /\ pre[1] \in Seq(Nat) /\ build[1] = pre[1] \o A
         /\ a # <<>> => a \in ToSet(Tail(pre))
    <2>1. PICK c \in Seq(Nat) : c = build[1]
      BY <1>17
    <2>2. pre = CutAtFirst(c, Hyphen)
      BY <1>4, <2>1
    <2>3. NoneIsEmpty(CutAtFirst(c, Hyphen))
      BY <1>11, <2>2 DEF NoneIsEmpty
    <2>4. IsJoined(c, Hyphen, pre, a)
      BY <1>13, <1>14, <2>2, <2>3, OnlyPart
    <2>5. pre[1] \in Seq(Nat)
      BY <2>2, CutIsText
    <2> QED
      BY <1>16, <2>1, <2>4, <2>5, Zenon DEF IsJoined
  <1>19. PICK parts : parts = matches.numbers
    OBVIOUS
  <1>20. parts = Split(pre[1], Dot) /\ parts \in Seq(Seq(Nat)) /\ Len(parts) = 3
    <2>1. parts = Split(pre[1], Dot) /\ Len(parts) = 3
      BY <1>6, <1>8, <1>19 DEF semverPattern
    <2> QED
      BY <1>18, <2>1, SplitIsList
  <1>21. pre[1] = parts[1] \o (<<Dot>> \o (parts[2] \o (<<Dot>> \o parts[3])))
    BY <1>18, <1>20, ThreeParts
  <1>22. ASSUME NEW i \in 1 .. 3
         PROVE  parts[i] \in Seq(Nat) /\ Decimal(Atoi(parts[i])) = parts[i]
    <2>1. i \in DOMAIN parts /\ parts[i] \in Seq(Nat)
      BY <1>20
    <2>2. parts[i] \in ToSet(parts)
      BY <2>1 DEF ToSet
    <2>3. IsNumeral(parts[i])
      BY <1>8, <1>19, <2>2 DEF semverPattern
    <2> QED
      BY <2>1, <2>3, NumeralsPrint
  <1>23. PICK n1, n2, n3, dot : /\ n1 = parts[1] /\ n2 = parts[2] /\ n3 = parts[3]
                                /\ dot = <<Dot>>
    OBVIOUS
  <1>24. /\ n1 \in Seq(Nat) /\ n2 \in Seq(Nat) /\ n3 \in Seq(Nat)
         /\ Decimal(Atoi(n1)) = n1 /\ Decimal(Atoi(n2)) = n2 /\ Decimal(Atoi(n3)) = n3
    BY <1>22, <1>23
  <1>25. dot \in Seq(Nat)
    BY <1>14, <1>23
  <1>26. String(version) = InARow(n1, dot, n2, n3, A, B)
    <2>1. /\ Decimal(version.major) = n1 /\ Decimal(version.minor) = n2
          /\ Decimal(version.patch) = n3
      BY <1>8, <1>19, <1>23, <1>24
    <2> QED
      BY <1>12, <1>15, <1>16, <1>23, <2>1, Zenon DEF String, InARow, Marked
  <1>27. s = Together(n1, dot, n2, n3, A, B)
    BY <1>17, <1>18, <1>21, <1>23, Zenon DEF Together
  <1>28. Together(n1, dot, n2, n3, A, B) = InARow(n1, dot, n2, n3, A, B)
    BY <1>24, <1>25, PartsInARow
  <1>29. String(version) = Spelling[t]
    BY <1>2, <1>26, <1>27, <1>28, Zenon
  <1> QED
    BY <1>10, <1>12, <1>18, <1>29

LEMMA VersionsAreToldApart ==
    ASSUME NEW x, IsVersion(x), NEW y, IsVersion(y),
           NEW equal \in BOOLEAN, equal = Equal(ParseQuietly(x.is), ParseQuietly(y.is))
    PROVE  /\ equal => IsEqual(x, y)
           /\ ~HasNegative(x) /\ ~HasNegative(y) /\ IsEqual(x, y) => equal
  <1>1. PICK v1, v2 : v1 = ParseQuietly(x.is) /\ v2 = ParseQuietly(y.is)
    OBVIOUS
  <1>2. IsReadVersion(v1) /\ IsReadVersion(v2)
    BY <1>1, VersionsAreRead DEF IsVersion
  <1>3. IsEqual(x, y) <=> Compare(v1, v2) = 0
    BY <1>1, VersionVerdicts
  <1>4. ~HasNegative(x) => HasPlain(v1.prerelease)
    BY <1>1, VersionsPrint DEF IsVersion, HasNegative, HasPlain, IsPlain
  <1>5. ~HasNegative(y) => HasPlain(v2.prerelease)
    BY <1>1, VersionsPrint DEF IsVersion, HasNegative, HasPlain, IsPlain
  <1> QED
    BY <1>1, <1>2, <1>3, <1>4, <1>5, EqualVersions

\* Whatever texts a context and a rule hold: the versions among them are in one order, each
\* prints as it was written, and two are equal to the operator just when all they hold but
\* the build metadata is, unless Atoi reads a hyphen of theirs as a sign (semver.go:20, 195).
THEOREM VersionsStayInOrder == Spec => []VersionsAreOrdered
  <1>1. VersionsAreOrdered
    <2>1. VersionsAreInOneOrder
      BY VersionsCompare DEF VersionsAreInOneOrder, Verdict
    <2>2. IsVersion(v) => String(ParseQuietly(v.is)) = Spelling[v.is]
      BY VersionsPrint DEF IsVersion
    <2>3. ASSUME IsVersion(v), IsVersion(m)
          PROVE  \/ IsEqual(v, m) <=> Equal(ParseQuietly(v.is), ParseQuietly(m.is))
                 \/ IsEqual(v, m) /\ (HasNegative(v) \/ HasNegative(m))
      <3>1. Equal(ParseQuietly(v.is), ParseQuietly(m.is)) \in BOOLEAN
        BY DEF Equal
      <3>2. /\ Equal(ParseQuietly(v.is), ParseQuietly(m.is)) => IsEqual(v, m)
            /\ ~HasNegative(v) /\ ~HasNegative(m) /\ IsEqual(v, m)
                  => Equal(ParseQuietly(v.is), ParseQuietly(m.is))
        BY <2>3, <3>1, VersionsAreToldApart
      <3> QED
        BY <3>2
    <2> QED
      BY <2>1, <2>2, <2>3 DEF VersionsAreOrdered
  <1> QED
    BY <1>1, PTL

=============================================================================
