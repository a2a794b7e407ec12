--------------------------- MODULE NewClientProofs ---------------------------
(***************************************************************************)
(* Theorems about NewClient, for every list of options, every environment  *)
(* and every file: offline sources stay offline, the configs that a caller *)
(* gives come back from the getters, the first source that has a key wins, *)
(* and NewClient panics for no other reason than the known ones.           *)
(***************************************************************************)
EXTENDS SourceValues, SequenceTheorems, WellFoundedInduction, TLAPS

-----------------------------------------------------------------------------
\* Lists

LEMMA ListsAreSequences ==
    ASSUME NEW s
    PROVE  /\ IsList(s) => Len(s) \in Nat /\ DOMAIN s = 1 .. Len(s)
                           /\ s \in Seq({s[i] : i \in DOMAIN s})
           /\ \A S : s \in Seq(S) => IsList(s)
  <1>1. ASSUME IsList(s)
        PROVE  Len(s) \in Nat /\ DOMAIN s = 1 .. Len(s) /\ s \in Seq({s[i] : i \in DOMAIN s})
    <2>1. Len(s) \in Nat /\ DOMAIN s = 1 .. Len(s)
      BY <1>1 DEF IsList
    <2>2. s \in [1 .. Len(s) -> {s[i] : i \in DOMAIN s}]
      BY <1>1, <2>1 DEF IsList
    <2> QED
      BY <2>1, <2>2
  <1>2. ASSUME NEW S, s \in Seq(S) PROVE IsList(s)
    <2>1. Len(s) \in Nat /\ s \in [1 .. Len(s) -> S]
      BY <1>2
    <2> QED
      BY <2>1 DEF IsList
  <1> QED
    BY <1>1, <1>2

\* What becomes of a list when an element is appended, or one is replaced.
LEMMA ListSteps ==
    ASSUME NEW s, IsList(s), NEW x
    PROVE  /\ IsList(Append(s, x)) /\ Len(Append(s, x)) = Len(s) + 1
           /\ \A i \in 1 .. Len(s) : Append(s, x)[i] = s[i]
           /\ Append(s, x)[Len(s) + 1] = x
           /\ \A i : IsList([s EXCEPT ![i] = x]) /\ Len([s EXCEPT ![i] = x]) = Len(s)
  <1> DEFINE S == {s[i] : i \in DOMAIN s} \cup {x}
  <1>1. s \in Seq(S) /\ x \in S
    <2>1. s \in Seq({s[i] : i \in DOMAIN s})
      BY ListsAreSequences
    <2> QED
      BY <2>1
  <1> HIDE DEF S
  <1>2. /\ Append(s, x) \in Seq(S) /\ Len(Append(s, x)) = Len(s) + 1
        /\ \A i \in 1 .. Len(s) : Append(s, x)[i] = s[i]
        /\ Append(s, x)[Len(s) + 1] = x
    BY <1>1
  <1>3. ASSUME NEW i PROVE [s EXCEPT ![i] = x] \in Seq(S) /\ Len([s EXCEPT ![i] = x]) = Len(s)
    <2>1. Len(s) \in Nat /\ DOMAIN s = 1 .. Len(s) /\ s \in [1 .. Len(s) -> S]
      BY <1>1
    <2>2. PICK t : t = [s EXCEPT ![i] = x]
      OBVIOUS
    <2>3. t \in [1 .. Len(s) -> S]
      BY <1>1, <2>1, <2>2
    <2> QED
      BY <2>1, <2>2, <2>3
  <1> QED
    BY <1>2, <1>3, ListsAreSequences

\* The elements of lists.
LEMMA OneElement ==
    ASSUME NEW c, NEW s, s = <<c>>
    PROVE  Len(s) = 1 /\ DOMAIN s = {1} /\ s[1] = c /\ IsList(s) /\ ToSet(s) = {c}
  <1>1. Len(s) = 1 /\ s[1] = c
    OBVIOUS
  <1>2. DOMAIN s = {1}
    <2>1. DOMAIN <<c>> = 1 .. 1
      OBVIOUS
    <2> QED
      BY <2>1
  <1>3. <<c>> = [i \in 1 .. 1 |-> <<c>>[i]]
    OBVIOUS
  <1> QED
    BY <1>1, <1>2, <1>3 DEF IsList, ToSet

LEMMA NoElement == IsList(<<>>) /\ DOMAIN <<>> = {}
  <1>1. Len(<<>>) = 0
    OBVIOUS
  <1>2. <<>> = [i \in 1 .. 0 |-> <<>>[i]]
    OBVIOUS
  <1>3. DOMAIN <<>> = {}
    OBVIOUS
  <1> QED
    BY <1>1, <1>2, <1>3 DEF IsList

LEMMA JoinedElements ==
    ASSUME NEW s, IsList(s), NEW t, IsList(t), NEW joined, joined = s \o t
    PROVE  IsList(joined) /\ ToSet(joined) = ToSet(s) \cup ToSet(t)
  <1> DEFINE S == ToSet(s) \cup ToSet(t)
  <1>1. s \in Seq(S) /\ t \in Seq(S)
    <2>1. s \in Seq(ToSet(s)) /\ t \in Seq(ToSet(t))
      BY ListsAreSequences DEF ToSet
    <2> QED
      BY <2>1
  <1> HIDE DEF S
  <1>2. /\ s \o t \in Seq(S) /\ Len(s \o t) = Len(s) + Len(t)
        /\ Len(s) \in Nat /\ DOMAIN s = 1 .. Len(s)
        /\ Len(t) \in Nat /\ DOMAIN t = 1 .. Len(t)
        /\ DOMAIN (s \o t) = 1 .. Len(s) + Len(t)
    BY <1>1
  <1>3. /\ \A i \in 1 .. Len(s) : (s \o t)[i] = s[i]
        /\ \A i \in 1 .. Len(t) : (s \o t)[Len(s) + i] = t[i]
    BY <1>1, <1>2
  <1>4. ToSet(s \o t) \subseteq S
    <2>1. \A i \in DOMAIN (s \o t) : (s \o t)[i] \in S
      BY <1>2
    <2> QED
      BY <2>1 DEF ToSet
  <1>5. \A i \in DOMAIN s : s[i] \in ToSet(s \o t)
    <2>1. \A i \in DOMAIN s : i \in DOMAIN (s \o t) /\ (s \o t)[i] = s[i]
      BY <1>2, <1>3
    <2> QED
      BY <2>1, Zenon DEF ToSet
  <1>6. \A i \in DOMAIN t : t[i] \in ToSet(s \o t)
    <2>1. \A i \in DOMAIN t : Len(s) + i \in DOMAIN (s \o t) /\ (s \o t)[Len(s) + i] = t[i]
      BY <1>2, <1>3
    <2> QED
      BY <2>1, Zenon DEF ToSet
  <1>7. ToSet(s) \cup ToSet(t) \subseteq ToSet(s \o t)
    BY <1>5, <1>6 DEF ToSet
  <1>8. IsList(s \o t)
    BY <1>2, ListsAreSequences
  <1> QED
    BY <1>4, <1>7, <1>8 DEF S

LEMMA FrontAndLast ==
    ASSUME NEW s, IsList(s), s # <<>>
    PROVE  /\ IsList(Front(s)) /\ ToSet(s) = ToSet(Front(s)) \cup {Last(s)}
           /\ IF Len(s) > 1 THEN Front(s) # <<>> ELSE ToSet(Front(s)) = {}
  <1>1. /\ s \in Seq(ToSet(s)) /\ Len(s) \in Nat /\ DOMAIN s = 1 .. Len(s) /\ Len(s) # 0
    <2>1. s \in Seq(ToSet(s)) /\ Len(s) \in Nat /\ DOMAIN s = 1 .. Len(s)
      BY ListsAreSequences DEF ToSet
    <2> QED
      BY <2>1
  <1>2. PICK n \in Nat : Len(s) = n + 1
    <2>1. Len(s) - 1 \in Nat /\ Len(s) = (Len(s) - 1) + 1
      BY <1>1
    <2> QED
      BY <2>1
  <1>3. Front(s) = SubSeq(s, 1, n) /\ Last(s) = s[n + 1]
    BY <1>2 DEF Front, Last
  <1>4. /\ SubSeq(s, 1, n) \in Seq(ToSet(s)) /\ Len(SubSeq(s, 1, n)) = n
        /\ \A i \in 1 .. n : SubSeq(s, 1, n)[i] = s[i]
    <2>1. \A i \in 1 .. n : s[i] \in ToSet(s)
      BY <1>1, <1>2 DEF ToSet
    <2> QED
      BY <1>1, <1>2, <2>1
  <1>5. PICK f : f = SubSeq(s, 1, n)
    OBVIOUS
  <1>6. f \in Seq(ToSet(s)) /\ Len(f) = n /\ DOMAIN f = 1 .. n /\ \A i \in 1 .. n : f[i] = s[i]
    BY <1>4, <1>5
  <1>7. IsList(f)
    BY <1>6, ListsAreSequences
  <1>8. ToSet(s) = ToSet(f) \cup {s[n + 1]}
    <2>1. \A x : x \in ToSet(s) <=> \E i \in 1 .. n + 1 : x = s[i]
      BY <1>1, <1>2 DEF ToSet
    <2>2. \A x : x \in ToSet(f) <=> \E i \in 1 .. n : x = s[i]
      BY <1>6 DEF ToSet
    <2>3. \A i \in 1 .. n + 1 : i \in 1 .. n \/ i = n + 1
      OBVIOUS
    <2>4. n + 1 \in 1 .. n + 1 /\ 1 .. n \subseteq 1 .. n + 1
      OBVIOUS
    <2> QED
      BY <2>1, <2>2, <2>3, <2>4
  <1>9. IF Len(s) > 1 THEN f # <<>> ELSE ToSet(f) = {}
    <2>1. CASE Len(s) > 1
      <3>1. Len(f) # 0
        BY <1>2, <1>6, <2>1
      <3> QED
        BY <2>1, <3>1
    <2>2. CASE ~(Len(s) > 1)
      <3>1. DOMAIN f = {}
        BY <1>2, <1>6, <2>2
      <3> QED
        BY <2>2, <3>1 DEF ToSet
    <2> QED
      BY <2>1, <2>2
  <1> QED
    BY <1>3, <1>5, <1>7, <1>8, <1>9

-----------------------------------------------------------------------------
\* Division

LEMMA Division ==
    ASSUME NEW n \in Nat, NEW d \in Nat \ {0}
    PROVE  /\ n \div d \in Nat /\ n % d \in 0 .. d - 1
           /\ n = d * (n \div d) + (n % d)
  OBVIOUS

LEMMA Unique ==
    ASSUME NEW d \in Nat \ {0}, NEW q \in Nat, NEW r \in 0 .. d - 1,
           NEW p \in Nat, NEW s \in 0 .. d - 1, d * q + r = d * p + s
    PROVE  q = p /\ r = s
  <1>1. CASE q < p
    <2>1. d * (q + 1) <= d * p
      BY <1>1
    <2>2. d * (q + 1) = d * q + d
      OBVIOUS
    <2> QED
      BY <2>1, <2>2
  <1>2. CASE p < q
    <2>1. d * (p + 1) <= d * q
      BY <1>2
    <2>2. d * (p + 1) = d * p + d
      OBVIOUS
    <2> QED
      BY <2>1, <2>2
  <1>3. CASE p = q
    BY <1>3
  <1> QED
    BY <1>1, <1>2, <1>3

LEMMA Factors ==
    ASSUME NEW a \in Nat, NEW b \in Nat, NEW c \in Nat
    PROVE  (a * b) * c = b * (a * c) /\ a * c \in Nat /\ b * (a + c) = b * a + b * c
  OBVIOUS

LEMMA Remainder ==
    ASSUME NEW n \in Nat, NEW d \in Nat \ {0}, NEW q \in Nat, NEW r \in 0 .. d - 1,
           n = d * q + r
    PROVE  n % d = r /\ n \div d = q
  BY Division, Unique

Divides(b, m) == \E a \in Nat \ {0} : m = a * b

\* A remainder of a multiple keeps the remainder.
LEMMA Nested ==
    ASSUME NEW n \in Nat, NEW b \in Nat \ {0}, NEW m \in Nat \ {0}, Divides(b, m)
    PROVE  (n % m) % b = n % b
  <1>1. PICK a \in Nat \ {0} : m = a * b
    BY DEF Divides
  <1>2. PICK q \in Nat, r \in Nat : n = m * q + r /\ r = n % m
    <2>1. n \div m \in Nat /\ n % m \in 0 .. m - 1 /\ n = m * (n \div m) + (n % m)
      BY Division
    <2>2. n % m \in Nat
      BY <2>1
    <2> QED
      BY <2>1, <2>2
  <1>3. PICK p \in Nat, s \in 0 .. b - 1 : r = b * p + s /\ s = r % b
    BY Division
  <1>5. m * q = b * (a * q) /\ a * q \in Nat
    BY <1>1, Factors
  <1>6. PICK x \in Nat : x = a * q /\ m * q = b * x
    BY <1>5
  <1>7. b * (x + p) = b * x + b * p /\ x + p \in Nat
    BY Factors
  <1>8. PICK y \in Nat : y = x + p /\ b * y = b * x + b * p
    BY <1>7
  <1>9. n = b * y + s
    <2>1. PICK bx \in Nat : bx = b * x
      OBVIOUS
    <2>2. PICK bp \in Nat : bp = b * p
      OBVIOUS
    <2>3. PICK by \in Nat : by = b * y
      OBVIOUS
    <2>4. n = bx + r /\ r = bp + s /\ by = bx + bp
      BY <1>2, <1>3, <1>6, <1>8, <2>1, <2>2, <2>3
    <2>5. n = by + s
      BY <2>4
    <2> QED
      BY <2>3, <2>5
  <1>10. n % b = s
    BY <1>9, Remainder
  <1> QED
    BY <1>2, <1>3, <1>10

-----------------------------------------------------------------------------
\* Durations

LEMMA Units ==
    /\ TicksPerSecond \in Nat \ {0} /\ Minute \in Nat \ {0} /\ Hour \in Nat \ {0}
    /\ Day \in Nat \ {0} /\ Month \in Nat \ {0} /\ Year \in Nat \ {0}
    /\ Minute = 60 * TicksPerSecond /\ Hour = 60 * Minute /\ Day = 24 * Hour
    /\ Minute < Day /\ Month < Year
  BY ConfigValuesAssumption DEF Minute, Hour, Day, Month, Year

LEMMA Rounding ==
    ASSUME NEW t \in Nat
    PROVE  LET rounded == TicksPerSecond * RoundHalfEven(t)
           IN  /\ rounded \in Nat
               /\ 2 * Abs(rounded - t) <= TicksPerSecond
               /\ t % TicksPerSecond = 0 => rounded = t
  <1> DEFINE T == TicksPerSecond
  <1>1. T \in Nat \ {0}
    BY Units
  <1>2. PICK w \in Nat, r \in 0 .. T - 1 : w = t \div T /\ r = t % T /\ t = T * w + r
    BY <1>1, Division
  <1>3. PICK whole \in Nat : whole = T * w
    BY <1>1
  <1>4. T * (w + 1) = whole + T
    BY <1>1, <1>3
  <1>5. CASE 2 * r > T \/ (2 * r = T /\ w % 2 = 1)
    <2>1. RoundHalfEven(t) = w + 1
      BY <1>2, <1>5 DEF RoundHalfEven
    <2>2. TicksPerSecond * RoundHalfEven(t) = whole + T
      BY <1>4, <2>1
    <2>3. t = whole + r
      BY <1>2, <1>3
    <2> QED
      BY <1>1, <1>2, <1>5, <2>2, <2>3 DEF Abs
  <1>6. CASE ~(2 * r > T \/ (2 * r = T /\ w % 2 = 1))
    <2>1. RoundHalfEven(t) = w
      BY <1>2, <1>6 DEF RoundHalfEven
    <2>2. TicksPerSecond * RoundHalfEven(t) = whole
      BY <1>3, <2>1
    <2>3. t = whole + r
      BY <1>2, <1>3
    <2> QED
      BY <1>1, <1>2, <1>6, <2>2, <2>3 DEF Abs
  <1> QED
    BY <1>5, <1>6

\* Any duration is read as one.
LEMMA DurationIsRead ==
    ASSUME NEW d \in Nat
    PROVE  ParseDuration(durationToISO8601(d)) \in Nat
  <1> DEFINE S == IF d % Day < Minute THEN d % Minute
                  ELSE TicksPerSecond * RoundHalfEven(d % Minute)
  <1>1. \A n \in Nat, m \in Nat \ {0} : n \div m \in Nat /\ n % m \in Nat
    <2> TAKE n \in Nat, m \in Nat \ {0}
    <2> QED
      BY Division
  <1>2. /\ Minute \in Nat \ {0} /\ Hour \in Nat \ {0} /\ Day \in Nat \ {0}
        /\ Month \in Nat \ {0} /\ Year \in Nat \ {0}
    BY Units
  <1>3. PICK y \in Nat, m \in Nat, t \in Nat, h \in Nat, n \in Nat, s \in Nat :
            durationToISO8601(d) = [years |-> y, months |-> m, days |-> t, hours |-> h,
                                    minutes |-> n, seconds |-> s]
    <2>1. d % Minute \in Nat
      BY <1>1, <1>2
    <2>2. S \in Nat
      BY <2>1, Rounding
    <2>3. /\ d \div Year \in Nat /\ (d % Year) \div Month \in Nat /\ (d % Month) \div Day \in Nat
          /\ (d % Day) \div Hour \in Nat /\ (d % Hour) \div Minute \in Nat
      BY <1>1, <1>2
    <2>4. durationToISO8601(d) = [years |-> d \div Year, months |-> (d % Year) \div Month,
                                  days |-> (d % Month) \div Day, hours |-> (d % Day) \div Hour,
                                  minutes |-> (d % Hour) \div Minute, seconds |-> S]
      BY DEF durationToISO8601
    <2> HIDE DEF S
    <2> QED
      BY <2>2, <2>3, <2>4
  <1>4. \A a, b \in Nat : a * b \in Nat
    OBVIOUS
  <1>5. /\ y * ParserYear \in Nat /\ m * ParserMonth \in Nat /\ t * Day \in Nat
        /\ h * Hour \in Nat /\ n * Minute \in Nat
    BY <1>2, <1>4, ConfigValuesAssumption
  <1> QED
    BY <1>3, <1>5 DEF ParseDuration

\* A duration below a month is read as it was written, but for the rounding of
\* its seconds where it has hours or minutes.
LEMMA DurationComesBack ==
    ASSUME NEW d \in Nat, d < Month
    PROVE  LET back == ParseDuration(durationToISO8601(d))
           IN  /\ back \in Nat
               /\ 2 * Abs(back - d) <= TicksPerSecond
               /\ d % TicksPerSecond = 0 \/ d < Minute => back = d
  <1> DEFINE S == IF d % Day < Minute THEN d % Minute
                  ELSE TicksPerSecond * RoundHalfEven(d % Minute)
  <1>1. /\ d \div Year = 0 /\ d % Year = d /\ d \div Month = 0 /\ d % Month = d
    <2>1. d = Year * 0 + d /\ d = Month * 0 + d /\ d \in 0 .. Year - 1 /\ d \in 0 .. Month - 1
      BY Units
    <2> QED
      BY <2>1, Units, Remainder
  <1>2. PICK days \in Nat, x \in 0 .. Day - 1 :
            days = d \div Day /\ x = d % Day /\ d = Day * days + x
    BY Units, Division
  <1>3. PICK hours \in Nat, y \in 0 .. Hour - 1 :
            hours = x \div Hour /\ y = x % Hour /\ x = Hour * hours + y
    <2>1. x \in Nat
      BY <1>2, Units
    <2> QED
      BY <2>1, Units, Division
  <1>4. y = d % Hour
    <2>1. Divides(Hour, Day) /\ Hour \in Nat \ {0} /\ Day \in Nat \ {0}
      BY Units DEF Divides
    <2>2. (d % Day) % Hour = d % Hour
      BY <2>1, Nested
    <2> QED
      BY <1>2, <1>3, <2>2
  <1>5. PICK minutes \in Nat, z \in 0 .. Minute - 1 :
            minutes = y \div Minute /\ z = y % Minute /\ y = Minute * minutes + z
    <2>1. y \in Nat
      BY <1>3, Units
    <2> QED
      BY <2>1, Units, Division
  <1>6. z = d % Minute
    <2>1. Divides(Minute, Hour) /\ Minute \in Nat \ {0} /\ Hour \in Nat \ {0}
      BY Units DEF Divides
    <2>2. (d % Hour) % Minute = d % Minute
      BY <2>1, Nested
    <2> QED
      BY <1>4, <1>5, <2>2
  <1>7. durationToISO8601(d) = [years |-> 0, months |-> 0, days |-> days, hours |-> hours,
                                minutes |-> minutes, seconds |-> S]
    BY <1>1, <1>2, <1>3, <1>4, <1>5 DEF durationToISO8601
  <1>8. S \in Nat /\ 2 * Abs(S - z) <= TicksPerSecond
        /\ (d % TicksPerSecond = 0 \/ d < Minute => S = z)
    <2>1. z \in Nat
      BY <1>5, Units
    <2>2. CASE d % Day < Minute
      BY <1>6, <2>1, <2>2, Units DEF Abs
    <2>3. CASE ~(d % Day < Minute)
      <3>1. z % TicksPerSecond = d % TicksPerSecond
        <4>1. /\ Divides(TicksPerSecond, Minute)
              /\ TicksPerSecond \in Nat \ {0} /\ Minute \in Nat \ {0}
          BY Units DEF Divides
        <4>2. (d % Minute) % TicksPerSecond = d % TicksPerSecond
          BY <4>1, Nested
        <4> QED
          BY <1>6, <4>2
      <3>2. ~(d < Minute)
        <4>1. Day * days \in Nat /\ x <= d
          BY <1>2, Units
        <4> QED
          BY <1>2, <2>3, <4>1, Units
      <3>3. S = TicksPerSecond * RoundHalfEven(z)
        BY <1>6, <2>3
      <3> QED
        BY <2>1, <3>1, <3>2, <3>3, Rounding
    <2> QED
      BY <2>2, <2>3
  <1> HIDE DEF S
  <1>9. ParseDuration(durationToISO8601(d)) = days * Day + hours * Hour + minutes * Minute + S
    <2>1. 0 * ParserYear = 0 /\ 0 * ParserMonth = 0
      BY ConfigValuesAssumption
    <2> QED
      BY <1>7, <1>8, <2>1, Units DEF ParseDuration
  <1>10. PICK e \in Nat : e = days * Day + hours * Hour + minutes * Minute /\ d = e + z
    <2>1. PICK dd \in Nat : dd = days * Day /\ dd = Day * days
      BY <1>2, Units
    <2>2. PICK hh \in Nat : hh = hours * Hour /\ hh = Hour * hours
      BY <1>3, Units
    <2>3. PICK mm \in Nat : mm = minutes * Minute /\ mm = Minute * minutes
      BY <1>5, Units
    <2>4. /\ d = dd + x /\ x = hh + y /\ y = mm + z
          /\ x \in Nat /\ y \in Nat /\ z \in Nat
      <3>1. d = dd + x
        BY <1>2, <2>1
      <3>2. x = hh + y
        BY <1>3, <2>2
      <3>3. y = mm + z
        BY <1>5, <2>3
      <3>4. x \in Nat /\ y \in Nat /\ z \in Nat
        BY <1>2, <1>3, <1>5, Units
      <3> QED
        BY <3>1, <3>2, <3>3, <3>4
    <2>5. dd + hh + mm \in Nat /\ d = (dd + hh + mm) + z
      BY <2>4
    <2> QED
      BY <2>1, <2>2, <2>3, <2>5
  <1>11. ParseDuration(durationToISO8601(d)) = e + S
    BY <1>9, <1>10
  <1>12. z \in Nat /\ (e + S) - d = S - z
    BY <1>5, <1>8, <1>10, Units
  <1> QED
    BY <1>8, <1>10, <1>11, <1>12

-----------------------------------------------------------------------------
\* The inductive invariant

About == {"Sources", "OfflineSources", "Configs"}

HasNoApi(o) == \A i \in DOMAIN o.Sources : o.Sources[i].store # "API"

\* What every option leaves in place: the memory key belongs to the memory
\* store, and the configs are those of an option.
GoodOptions(o) ==
    /\ {"Sources", "Configs", "ContextTelemetryMode"} \subseteq DOMAIN o
    /\ IsList(o.Sources)
    /\ \A i \in DOMAIN o.Sources :
          o.Sources[i].raw = MemoryStoreKey => o.Sources[i].store = "Memory"
    /\ \A k \in DOMAIN o.Configs :
          IsGoValue(o.Configs[k]) /\ MemoryConfig(k, o.Configs[k]) # NoValue

\* The last of the applied options that is about sources.
IsLast(m) ==
    /\ m \in 1 .. applied /\ given[m].with \in About
    /\ \A j \in m + 1 .. applied : given[j].with \notin About

\* Where an offline option is the last one about sources, no source is the API,
\* and contexts are reported only if a later option says so.
SourcesInv ==
    /\ \A j \in 1 .. applied : given[j].with \in About => \E m \in 1 .. applied : IsLast(m)
    /\ \A m \in 1 .. applied : IsLast(m) /\ given[m].with # "Sources" =>
          /\ HasNoApi(options)
          /\ options.ContextTelemetryMode # "None" =>
                \E i \in m + 1 .. applied : given[i].with = "ContextTelemetryMode"

OptionsInv ==
    /\ given \in Given /\ applied \in 0 .. Len(given)
    /\ GoodOptions(options)
    /\ pc \notin {"options", "failed"} => applied = Len(given)
    /\ pc # "failed" => SourcesInv

\* Only a client with the API for a source asks anything of it.
CredentialsInv ==
    /\ DOMAIN credentials = {"http", "sse", "telemetry"}
    /\ pc = "options" \/ HasNoApi(options) =>
          credentials["http"] = NoValue /\ credentials["sse"] = NoValue

\* The i-th store is that of the i-th source; a memory store has the configs of
\* the options, all of which could be converted.
StoresInv ==
    /\ IsList(stores) /\ Len(stores) <= Len(options.Sources)
    /\ pc = "options" => stores = <<>>
    /\ pc = "yaml" => Len(stores) < Len(options.Sources) /\ source.store = "DataFile"
    /\ pc = "ready" =>
          /\ Len(stores) = Len(options.Sources)
          /\ HasConfigs => Len(options.Sources) = 1 /\ options.Sources[1].raw = MemoryStoreKey
    /\ \A i \in 1 .. Len(stores) : options.Sources[i].store = "Memory" =>
          /\ stores[i].configMap = [k \in DOMAIN options.Configs |-> MemoryConfig(k, options.Configs[k])]
          /\ \A k \in DOMAIN options.Configs :
                options.Configs[k].kind # "config" => Create(options.Configs[k]) # NoValue

NewClientInv == OptionsInv /\ CredentialsInv /\ StoresInv

-----------------------------------------------------------------------------
\* Options

\* Parsed sources, and those of the default, keep the options good; without the
\* default no source is the API.
LEMMA SourcesAreGood ==
    ASSUME NEW o, GoodOptions(o), NEW raws, IsList(raws), NEW excludeDefault,
           \/ WithSources(o, raws, excludeDefault) # NoValue
           \/ \A i \in DOMAIN raws : ParseConfigSource(raws[i]) # NoValue
    PROVE  LET r == WithSources(o, raws, excludeDefault)
           IN  /\ GoodOptions(r) /\ DOMAIN r = DOMAIN o
               /\ r.ContextTelemetryMode = o.ContextTelemetryMode
               /\ r.Configs = o.Configs
               /\ excludeDefault => HasNoApi(r)
  <1> DEFINE named  == [i \in DOMAIN raws |-> ParseConfigSource(raws[i])]
             rest   == IF excludeDefault THEN <<>> ELSE GetDefaultConfigSources
             Good(x) == (x.raw = MemoryStoreKey => x.store = "Memory")
                        /\ (excludeDefault => x.store # "API")
  <1>1. NoValue \notin ToSet(named) /\ WithSources(o, raws, excludeDefault) = [o EXCEPT !.Sources = named \o rest]
    BY DEF WithSources, ToSet
  <1>2. IsList(named)
    <2>1. Len(raws) \in Nat /\ DOMAIN raws = 1 .. Len(raws)
      BY ListsAreSequences
    <2>2. named \in [1 .. Len(raws) -> {named[i] : i \in 1 .. Len(raws)}]
      BY <2>1
    <2>3. named \in Seq({named[i] : i \in 1 .. Len(raws)})
      BY <2>1, <2>2
    <2> QED
      BY <2>3, ListsAreSequences
  <1>3. \A i \in DOMAIN named : Good(named[i])
    <2> SUFFICES ASSUME NEW i \in DOMAIN raws PROVE Good(named[i])
      OBVIOUS
    <2>1. named[i] # NoValue
      BY <1>1 DEF ToSet
    <2>2. named[i] = ParseConfigSource(raws[i])
      OBVIOUS
    <2> HIDE DEF named
    <2>3. raws[i].protocol \in {"datafile", "dump", "memory"}
          /\ named[i] = Source(StoreOfProtocol[raws[i].protocol], raws[i])
      BY <2>1, <2>2 DEF ParseConfigSource, StoreOfProtocol
    <2> QED
      BY <2>3 DEF Source, StoreOfProtocol, MemoryStoreKey
  <1>4. IsList(rest) /\ \A i \in DOMAIN rest : Good(rest[i])
    <2>1. CASE excludeDefault
      <3>1. rest \in Seq({}) /\ Len(rest) = 0
        BY <2>1
      <3> HIDE DEF rest
      <3>2. IsList(rest) /\ DOMAIN rest = 1 .. 0
        BY <3>1, ListsAreSequences
      <3> QED
        BY <3>2
    <2>2. CASE ~excludeDefault
      <3>1. rest \in Seq({GetDefaultConfigSources[1]}) /\ Len(rest) = 1 /\ rest = GetDefaultConfigSources
        BY <2>2 DEF GetDefaultConfigSources
      <3>2. GetDefaultConfigSources[1].raw = [protocol |-> "api", path |-> "prefab"]
        BY DEF GetDefaultConfigSources, Source
      <3>3. [protocol |-> "api", path |-> "prefab"] # MemoryStoreKey
        BY DEF MemoryStoreKey
      <3>4. IsList(rest) /\ DOMAIN rest = {1}
        BY <3>1, ListsAreSequences
      <3> QED
        BY <2>2, <3>1, <3>2, <3>3, <3>4
    <2> QED
      BY <2>1, <2>2
  <1>5. IsList(named \o rest) /\ \A i \in DOMAIN (named \o rest) : Good((named \o rest)[i])
    <2> HIDE DEF named, rest, Good
    <2>1. /\ IsList(named) /\ \A x \in ToSet(named) : Good(x)
          /\ IsList(rest) /\ \A x \in ToSet(rest) : Good(x)
      BY <1>2, <1>3, <1>4 DEF ToSet
    <2>2. IsList(named \o rest) /\ ToSet(named \o rest) = ToSet(named) \cup ToSet(rest)
      BY <2>1, JoinedElements
    <2>3. \A x \in ToSet(named \o rest) : Good(x)
      BY <2>1, <2>2
    <2> QED
      BY <2>2, <2>3 DEF ToSet
  <1> DEFINE r == WithSources(o, raws, excludeDefault)
  <1>6. /\ DOMAIN r = DOMAIN o /\ r.Sources = named \o rest
        /\ r.Configs = o.Configs /\ r.ContextTelemetryMode = o.ContextTelemetryMode
    BY <1>1 DEF GoodOptions
  <1> HIDE DEF r, named, rest
  <1>7. GoodOptions(r) /\ (excludeDefault => HasNoApi(r))
    BY <1>5, <1>6 DEF GoodOptions, HasNoApi
  <1> QED
    BY <1>6, <1>7 DEF r

\* What an option does to the options, by what it is about.
LEMMA AppliedOptions ==
    ASSUME NEW o, GoodOptions(o), NEW option, IsOption(option), Apply(o, option) # NoValue
    PROVE  LET r == Apply(o, option)
           IN  /\ GoodOptions(r)
               /\ option.with \in {"OfflineSources", "Configs"} =>
                     HasNoApi(r) /\ r.ContextTelemetryMode = "None"
               /\ option.with \notin About =>
                     /\ HasNoApi(o) => HasNoApi(r)
                     /\ r.ContextTelemetryMode \in {o.ContextTelemetryMode, "None"}
                           \/ option.with = "ContextTelemetryMode"
  <1> DEFINE r == Apply(o, option)
             quiet == [o EXCEPT !.ContextTelemetryMode = "None"]
  <1>1. /\ GoodOptions(quiet) /\ quiet.ContextTelemetryMode = "None"
        /\ quiet.Configs = o.Configs
    BY DEF GoodOptions
  <1>2. ASSUME NEW raws, IsList(raws),
               \/ WithOfflineSources(o, raws) # NoValue
               \/ \A i \in DOMAIN raws : ParseConfigSource(raws[i]) # NoValue
        PROVE  LET w == WithOfflineSources(o, raws)
               IN  /\ GoodOptions(w) /\ HasNoApi(w) /\ w.ContextTelemetryMode = "None"
    <2>1. WithOfflineSources(o, raws) = WithSources(quiet, raws, TRUE)
      BY DEF WithOfflineSources
    <2> HIDE DEF quiet
    <2>2. LET w == WithSources(quiet, raws, TRUE)
          IN  GoodOptions(w) /\ HasNoApi(w) /\ w.ContextTelemetryMode = "None"
      <3>1. \/ WithSources(quiet, raws, TRUE) # NoValue
            \/ \A i \in DOMAIN raws : ParseConfigSource(raws[i]) # NoValue
        BY <1>2, <2>1
      <3> QED
        BY <1>1, <1>2, <3>1, SourcesAreGood
    <2> QED
      BY <2>1, <2>2
  <1>3. CASE option.with = "Sources"
    <2>1. r = WithSources(o, option.arg.raws, option.arg.excludeDefault) /\ IsList(option.arg.raws)
      BY <1>3 DEF Apply, IsOption
    <2> QED
      BY <1>3, <2>1, SourcesAreGood DEF About
  <1>4. CASE option.with = "OfflineSources"
    <2>1. r = WithOfflineSources(o, option.arg) /\ IsList(option.arg)
      BY <1>4 DEF Apply, IsOption
    <2> QED
      BY <1>2, <1>4, <2>1 DEF About
  <1>5. CASE option.with = "Configs"
    <2> DEFINE w == WithOfflineSources(o, <<MemoryStoreKey>>)
    <2>1. r = [w EXCEPT !.Configs = option.arg]
      BY <1>5 DEF Apply, WithConfigs
    <2>2. IsList(<<MemoryStoreKey>>)
      <3>1. <<MemoryStoreKey>> \in Seq({MemoryStoreKey})
        OBVIOUS
      <3> QED
        BY <3>1, ListsAreSequences
    <2>3. \A i \in DOMAIN <<MemoryStoreKey>> : ParseConfigSource(<<MemoryStoreKey>>[i]) # NoValue
      <3>1. ParseConfigSource(MemoryStoreKey) = Source("Memory", MemoryStoreKey)
        BY DEF ParseConfigSource, StoreOfProtocol, MemoryStoreKey
      <3> QED
        BY <3>1, NilAssumption
    <2>4. GoodOptions(w) /\ HasNoApi(w) /\ w.ContextTelemetryMode = "None"
      BY <1>2, <2>2, <2>3
    <2> HIDE DEF w
    <2>5. /\ DOMAIN r = DOMAIN w /\ r.Sources = w.Sources
          /\ r.ContextTelemetryMode = w.ContextTelemetryMode /\ r.Configs = option.arg
      BY <2>1, <2>4 DEF GoodOptions
    <2>6. GoodOptions(r) /\ HasNoApi(r)
      BY <1>5, <2>4, <2>5 DEF GoodOptions, HasNoApi, IsOption
    <2> QED
      BY <1>5, <2>4, <2>5, <2>6 DEF About
  <1>6. CASE option.with = "AllTelemetryDisabled"
    <2>1. r = WithAllTelemetryDisabled(o)
      BY <1>6 DEF Apply
    <2>2. /\ DOMAIN r = DOMAIN o /\ r.Sources = o.Sources /\ r.Configs = o.Configs
          /\ r.ContextTelemetryMode = "None"
      BY <2>1 DEF GoodOptions, WithAllTelemetryDisabled
    <2> QED
      BY <1>6, <2>2 DEF GoodOptions, HasNoApi, About
  <1>7. CASE option.with \notin {"Sources", "OfflineSources", "Configs", "AllTelemetryDisabled"}
    <2>1. r = [o EXCEPT ![option.with] = option.arg]
      BY <1>7 DEF Apply
    <2>2. /\ DOMAIN r = DOMAIN o /\ r.Sources = o.Sources /\ r.Configs = o.Configs
          /\ option.with # "ContextTelemetryMode" => r.ContextTelemetryMode = o.ContextTelemetryMode
      BY <1>7, <2>1 DEF GoodOptions
    <2> QED
      BY <1>7, <2>2 DEF GoodOptions, HasNoApi, About
  <1> QED
    BY <1>3, <1>4, <1>5, <1>6, <1>7

LEMMA DefaultsAreGood ==
    ASSUME NEW e
    PROVE  GoodOptions(GetDefaultOptions(e))
  <1> DEFINE o == GetDefaultOptions(e)
  <1>1. /\ {"Sources", "Configs", "ContextTelemetryMode"} \subseteq DOMAIN o /\ o.Configs = <<>>
        /\ o.Sources = IF e.datafile = "" THEN GetDefaultConfigSources
                       ELSE <<Source("DataFile", [protocol |-> "", path |-> e.datafile])>>
    BY DEF GetDefaultOptions
  <1> HIDE DEF o
  <1>2. PICK x : o.Sources = <<x>> /\ x.raw.protocol # "memory"
    <2>1. CASE e.datafile = ""
      <3> DEFINE y == Source("API", [protocol |-> "api", path |-> "prefab"])
      <3>1. o.Sources = <<y>>
        BY <1>1, <2>1 DEF GetDefaultConfigSources
      <3>2. y.raw.protocol # "memory"
        BY DEF Source
      <3> QED
        BY <3>1, <3>2
    <2>2. CASE e.datafile # ""
      <3> DEFINE y == Source("DataFile", [protocol |-> "", path |-> e.datafile])
      <3>1. o.Sources = <<y>>
        BY <1>1, <2>2
      <3>2. y.raw.protocol # "memory"
        BY DEF Source
      <3> QED
        BY <3>1, <3>2
    <2> QED
      BY <2>1, <2>2
  <1>3. IsList(o.Sources) /\ DOMAIN o.Sources = {1} /\ o.Sources[1] = x
    <2>1. o.Sources \in Seq({x}) /\ Len(o.Sources) = 1 /\ o.Sources[1] = x
      BY <1>2
    <2> QED
      BY <2>1, ListsAreSequences
  <1>4. x.raw # MemoryStoreKey
    BY <1>2 DEF MemoryStoreKey
  <1>5. DOMAIN o.Configs = {}
    <2>1. DOMAIN <<>> = {}
      OBVIOUS
    <2> QED
      BY <1>1, <2>1
  <1> QED
    BY <1>1, <1>3, <1>4, <1>5 DEF GoodOptions, o

-----------------------------------------------------------------------------
\* Steps

LEMMA GivenList ==
    ASSUME given \in Given
    PROVE  Len(given) \in Nat /\ DOMAIN given = 1 .. Len(given)
           /\ \A i \in 1 .. Len(given) : IsOption(given[i])
  BY GivenAssumption, ListsAreSequences

LEMMA ApplyOptionPreserves ==
    ASSUME NewClientInv, ApplyOption
    PROVE  NewClientInv'
  <1> DEFINE n      == applied + 1
             option == given[n]
             r      == Apply(options, option)
  <1>1. /\ pc = "options" /\ applied \in Nat /\ n \in 1 .. Len(given) /\ applied' = n
        /\ given \in Given /\ UNCHANGED <<given, stores, credentials>>
    BY GivenList DEF ApplyOption, NewClientInv, OptionsInv
  <1>2. IsOption(option) /\ GoodOptions(options) /\ SourcesInv
    BY <1>1, GivenList DEF NewClientInv, OptionsInv
  <1>3. \/ r = NoValue /\ pc' = "failed" /\ UNCHANGED options
        \/ r # NoValue /\ pc' = "options" /\ options' = r
    BY <1>1 DEF ApplyOption
  <1> HIDE DEF r
  <1>4. GoodOptions(options')
    BY <1>2, <1>3, AppliedOptions DEF r
  <1>5. ASSUME pc' # "failed" PROVE SourcesInv'
    <2>1. /\ options' = r /\ r # NoValue
          /\ option.with \in {"OfflineSources", "Configs"} =>
                HasNoApi(r) /\ r.ContextTelemetryMode = "None"
          /\ option.with \notin About =>
                /\ HasNoApi(options) => HasNoApi(r)
                /\ r.ContextTelemetryMode \in {options.ContextTelemetryMode, "None"}
                      \/ option.with = "ContextTelemetryMode"
      BY <1>2, <1>3, <1>5, AppliedOptions DEF r
    <2>2. CASE option.with \in About
      <3>1. \A m \in 1 .. n : IsLast(m)' <=> m = n
        BY <1>1, <2>2 DEF IsLast
      <3>2. n \in 1 .. n /\ n + 1 .. n = {}
        BY <1>1
      <3> QED
        BY <1>1, <2>1, <2>2, <3>1, <3>2 DEF SourcesInv, About
    <2>3. CASE option.with \notin About
      <3>1. \A m \in 1 .. n : IsLast(m)' <=> m # n /\ IsLast(m)
        BY <1>1, <2>3 DEF IsLast
      <3>2. \A j \in 1 .. n : given'[j].with \in About => \E m \in 1 .. n : IsLast(m)'
        BY <1>1, <1>2, <2>3, <3>1 DEF SourcesInv
      <3>3. ASSUME NEW m \in 1 .. n, IsLast(m)', given[m].with # "Sources"
            PROVE  /\ HasNoApi(r)
                   /\ r.ContextTelemetryMode # "None" =>
                        \E i \in m + 1 .. n : given[i].with = "ContextTelemetryMode"
        <4>1. m \in 1 .. applied /\ IsLast(m)
          BY <1>1, <3>1, <3>3
        <4>2. /\ HasNoApi(options)
              /\ options.ContextTelemetryMode # "None" =>
                    \E i \in m + 1 .. applied : given[i].with = "ContextTelemetryMode"
          BY <1>2, <3>3, <4>1 DEF SourcesInv
        <4>3. n \in m + 1 .. n /\ \A i \in m + 1 .. applied : i \in m + 1 .. n
          BY <1>1, <4>1
        <4> QED
          BY <2>1, <2>3, <4>2, <4>3
      <3> QED
        BY <1>1, <2>1, <3>2, <3>3 DEF SourcesInv
    <2> QED
      BY <2>2, <2>3
  <1>6. OptionsInv'
    BY <1>1, <1>3, <1>4, <1>5 DEF OptionsInv
  <1>7. CredentialsInv'
    BY <1>1 DEF NewClientInv, CredentialsInv
  <1>8. StoresInv'
    <2>1. stores = <<>> /\ stores' = <<>> /\ pc' \in {"options", "failed"}
      BY <1>1, <1>3 DEF NewClientInv, StoresInv
    <2>2. IsList(stores') /\ Len(stores') = 0
      BY <2>1, ListsAreSequences DEF NewClientInv, StoresInv
    <2>3. Len(options'.Sources) \in Nat
      BY <1>4, ListsAreSequences DEF GoodOptions
    <2> QED
      BY <2>1, <2>2, <2>3 DEF StoresInv
  <1> QED
    BY <1>6, <1>7, <1>8 DEF NewClientInv

LEMMA OptionsStay ==
    ASSUME OptionsInv, UNCHANGED <<given, applied, options>>,
           pc' = "failed" \/ (pc # "failed" /\ pc' # "options" /\ applied = Len(given))
    PROVE  OptionsInv'
  <1>1. SourcesInv => SourcesInv'
    BY DEF SourcesInv, IsLast
  <1> QED
    BY <1>1 DEF OptionsInv

LEMMA StoresStay ==
    ASSUME StoresInv, UNCHANGED <<stores, options>>,
           pc' \in {"stores", "failed", "panicked"}
    PROVE  StoresInv'
  BY DEF StoresInv

LEMMA StoreAdded ==
    ASSUME NewClientInv, UNCHANGED options, pc' = "stores", Len(stores) < Len(options.Sources),
           NEW store, stores' = Append(stores, store),
           source.store = "Memory" =>
              /\ store.configMap = [k \in DOMAIN options.Configs |-> MemoryConfig(k, options.Configs[k])]
              /\ \A k \in DOMAIN options.Configs :
                    options.Configs[k].kind # "config" => Create(options.Configs[k]) # NoValue
    PROVE  StoresInv'
  <1>1. /\ IsList(stores') /\ Len(stores') = Len(stores) + 1
        /\ \A i \in 1 .. Len(stores) : stores'[i] = stores[i]
        /\ stores'[Len(stores) + 1] = store
    BY ListSteps DEF NewClientInv, StoresInv
  <1>2. Len(stores) \in Nat /\ Len(options.Sources) \in Nat
    BY ListsAreSequences DEF NewClientInv, StoresInv, OptionsInv, GoodOptions
  <1>3. ASSUME NEW i \in 1 .. Len(stores'), options.Sources[i].store = "Memory"
        PROVE  /\ stores'[i].configMap = [k \in DOMAIN options.Configs |-> MemoryConfig(k, options.Configs[k])]
               /\ \A k \in DOMAIN options.Configs :
                     options.Configs[k].kind # "config" => Create(options.Configs[k]) # NoValue
    <2>1. CASE i = Len(stores) + 1
      <3>1. options.Sources[i] = source
        BY <2>1 DEF source
      <3> QED
        BY <1>1, <1>3, <2>1, <3>1
    <2>2. CASE i \in 1 .. Len(stores)
      BY <1>1, <1>3, <2>2 DEF NewClientInv, StoresInv
    <2> QED
      BY <1>1, <1>2, <2>1, <2>2
  <1> QED
    BY <1>1, <1>2, <1>3 DEF StoresInv

\* The source that a store is built for is one of the options'.
LEMMA SourceOfStore ==
    ASSUME NewClientInv, NEW type, Building(type)
    PROVE  /\ pc = "stores" /\ applied = Len(given)
           /\ Len(stores) < Len(options.Sources) /\ source.store = type
           /\ type = "API" => ~HasNoApi(options)
  <1>1. Len(stores) \in Nat /\ Len(options.Sources) \in Nat
        /\ DOMAIN options.Sources = 1 .. Len(options.Sources)
    BY ListsAreSequences DEF NewClientInv, StoresInv, OptionsInv, GoodOptions
  <1>2. pc = "stores" /\ Len(stores) < Len(options.Sources) /\ source.store = type
    BY DEF Building
  <1>3. Len(stores) + 1 \in DOMAIN options.Sources
    BY <1>1, <1>2
  <1> QED
    BY <1>2, <1>3 DEF NewClientInv, OptionsInv, HasNoApi, source

LEMMA BuildStorePreserves ==
    ASSUME NewClientInv,
           BuildAPIStore \/ BuildLocalStore \/ BuildDumpStore \/ BuildMemoryStore
    PROVE  NewClientInv'
  <1>1. CASE BuildAPIStore
    <2>1. /\ pc = "stores" /\ applied = Len(given) /\ Len(stores) < Len(options.Sources)
          /\ source.store = "API" /\ ~HasNoApi(options)
      BY <1>1, SourceOfStore DEF BuildAPIStore
    <2>2. UNCHANGED <<given, applied, options>>
      BY <1>1 DEF BuildAPIStore
    <2>3. \/ pc' = "panicked" /\ UNCHANGED stores
          \/ pc' = "stores" /\ AddStore(<<>>, 0)
      BY <1>1, <2>1 DEF BuildAPIStore
    <2>4. OptionsInv'
      BY <2>1, <2>2, <2>3, OptionsStay DEF NewClientInv
    <2>5. CredentialsInv'
      BY <1>1, <2>1, <2>2, <2>3 DEF BuildAPIStore, NewClientInv, CredentialsInv, HasNoApi
    <2>6. StoresInv'
      <3>1. CASE pc' = "panicked" /\ UNCHANGED stores
        BY <2>2, <3>1, StoresStay DEF NewClientInv
      <3>2. CASE pc' = "stores" /\ AddStore(<<>>, 0)
        BY <2>1, <2>2, <3>2, StoreAdded DEF AddStore
      <3> QED
        BY <2>3, <3>1, <3>2
    <2> QED
      BY <2>4, <2>5, <2>6 DEF NewClientInv
  <1>2. CASE BuildLocalStore
    <2> DEFINE file == ReadFile(source.path)
    <2>1. /\ pc = "stores" /\ applied = Len(given) /\ Len(stores) < Len(options.Sources)
          /\ source.store = "DataFile"
      BY <1>2, SourceOfStore DEF BuildLocalStore
    <2>2. UNCHANGED <<given, applied, options, credentials>>
      BY <1>2 DEF BuildLocalStore
    <2>3. \/ pc' \in {"failed", "panicked"} /\ UNCHANGED stores
          \/ pc' = "stores" /\ AddStore(MapOf(file.content.configs, DOMAIN file.content.configs), file.content.projectEnvID)
          \/ pc' = "yaml" /\ UNCHANGED stores
      BY <1>2, <2>1 DEF BuildLocalStore
    <2>4. OptionsInv' /\ CredentialsInv'
      BY <2>1, <2>2, <2>3, OptionsStay DEF NewClientInv, CredentialsInv, HasNoApi
    <2>5. StoresInv'
      <3>1. CASE pc' \in {"failed", "panicked"} /\ UNCHANGED stores
        BY <2>2, <3>1, StoresStay DEF NewClientInv
      <3>2. CASE pc' = "stores" /\ AddStore(MapOf(file.content.configs, DOMAIN file.content.configs), file.content.projectEnvID)
        BY <2>1, <2>2, <3>2, StoreAdded DEF AddStore
      <3>3. CASE pc' = "yaml" /\ UNCHANGED stores
        BY <2>1, <2>2, <3>3 DEF NewClientInv, StoresInv, source
      <3> QED
        BY <2>3, <3>1, <3>2, <3>3
    <2> QED
      BY <2>4, <2>5 DEF NewClientInv
  <1>3. CASE BuildDumpStore
    <2>1. /\ pc = "stores" /\ applied = Len(given) /\ Len(stores) < Len(options.Sources)
          /\ source.store = "ConfigDump"
      BY <1>3, SourceOfStore DEF BuildDumpStore
    <2>2. UNCHANGED <<given, applied, options, credentials>>
      BY <1>3 DEF BuildDumpStore
    <2>3. \/ pc' = "failed" /\ UNCHANGED stores
          \/ pc' = "stores" /\ \E m : AddStore(m, options.ProjectEnvID)
      BY <1>3, <2>1 DEF BuildDumpStore
    <2>4. OptionsInv' /\ CredentialsInv'
      BY <2>1, <2>2, <2>3, OptionsStay DEF NewClientInv, CredentialsInv, HasNoApi
    <2>5. StoresInv'
      <3>1. CASE pc' = "failed" /\ UNCHANGED stores
        BY <2>2, <3>1, StoresStay DEF NewClientInv
      <3>2. CASE pc' = "stores" /\ \E m : AddStore(m, options.ProjectEnvID)
        BY <2>1, <2>2, <3>2, StoreAdded DEF AddStore
      <3> QED
        BY <2>3, <3>1, <3>2
    <2> QED
      BY <2>4, <2>5 DEF NewClientInv
  <1>4. CASE BuildMemoryStore
    <2> DEFINE raw == options.Configs
               m   == [k \in DOMAIN raw |-> MemoryConfig(k, raw[k])]
    <2>1. /\ pc = "stores" /\ applied = Len(given) /\ Len(stores) < Len(options.Sources)
      BY <1>4, SourceOfStore DEF BuildMemoryStore
    <2>2. UNCHANGED <<given, applied, options, credentials>>
      BY <1>4 DEF BuildMemoryStore
    <2>3. \/ pc' \in {"failed", "panicked"} /\ UNCHANGED stores
          \/ /\ pc' = "stores" /\ AddStore(m, options.ProjectEnvID)
             /\ \A k \in DOMAIN raw : raw[k].kind # "config" => Create(raw[k]) # NoValue
      BY <1>4, <2>1 DEF BuildMemoryStore
    <2>4. OptionsInv' /\ CredentialsInv'
      BY <2>1, <2>2, <2>3, OptionsStay DEF NewClientInv, CredentialsInv, HasNoApi
    <2>5. StoresInv'
      <3>1. CASE pc' \in {"failed", "panicked"} /\ UNCHANGED stores
        BY <2>2, <3>1, StoresStay DEF NewClientInv
      <3>2. CASE /\ pc' = "stores" /\ AddStore(m, options.ProjectEnvID)
                 /\ \A k \in DOMAIN raw : raw[k].kind # "config" => Create(raw[k]) # NoValue
        BY <2>1, <2>2, <3>2, StoreAdded DEF AddStore
      <3> QED
        BY <2>3, <3>1, <3>2
    <2> QED
      BY <2>4, <2>5 DEF NewClientInv
  <1> QED
    BY <1>1, <1>2, <1>3, <1>4

LEMMA ParsingPreserves ==
    ASSUME NewClientInv, handleMapKeyValue \/ MapDone
    PROVE  NewClientInv'
  <1>1. /\ pc = "yaml" /\ applied = Len(given) /\ UNCHANGED <<given, applied, options, credentials>>
    BY DEF handleMapKeyValue, MapDone, NewClientInv, OptionsInv
  <1>2. \/ pc' \in {"failed", "panicked", "yaml"} /\ UNCHANGED stores
        \/ pc' = "stores" /\ AddStore(MapOf(parsed, DOMAIN parsed), 0)
    <2>1. CASE handleMapKeyValue
      BY <1>1, <2>1 DEF handleMapKeyValue
    <2>2. CASE MapDone
      BY <1>1, <2>2 DEF MapDone
    <2> QED
      BY <2>1, <2>2
  <1>3. OptionsInv' /\ CredentialsInv'
    BY <1>1, <1>2, OptionsStay DEF NewClientInv, CredentialsInv, HasNoApi
  <1>4. Len(stores) < Len(options.Sources) /\ source.store = "DataFile"
    BY <1>1 DEF NewClientInv, StoresInv
  <1>5. StoresInv'
    <2>1. CASE pc' \in {"failed", "panicked"} /\ UNCHANGED stores
      BY <1>1, <2>1, StoresStay DEF NewClientInv
    <2>2. CASE pc' = "yaml" /\ UNCHANGED stores
      BY <1>1, <1>4, <2>2 DEF NewClientInv, StoresInv, source
    <2>3. CASE pc' = "stores" /\ AddStore(MapOf(parsed, DOMAIN parsed), 0)
      BY <1>1, <1>4, <2>3, StoreAdded DEF AddStore
    <2> QED
      BY <1>2, <2>1, <2>2, <2>3
  <1> QED
    BY <1>3, <1>5 DEF NewClientInv

LEMMA MakeClientPreserves ==
    ASSUME NewClientInv, MakeClient
    PROVE  NewClientInv'
  <1>1. /\ pc = "stores" /\ applied = Len(given) /\ Len(stores) = Len(options.Sources)
        /\ UNCHANGED <<given, applied, options, stores>>
    BY DEF MakeClient, NewClientInv, OptionsInv
  <1>2. \/ pc' \in {"panicked", "failed"}
        \/ /\ pc' = "ready"
           /\ HasConfigs => options.Sources # <<>> /\ options.Sources[1].raw = MemoryStoreKey
                            /\ ~(Len(options.Sources) > 1)
    BY DEF MakeClient
  <1>3. OptionsInv'
    BY <1>1, <1>2, OptionsStay DEF NewClientInv
  <1>4. /\ DOMAIN credentials' = DOMAIN credentials
        /\ credentials'["http"] = credentials["http"] /\ credentials'["sse"] = credentials["sse"]
    BY DEF MakeClient, NewClientInv, CredentialsInv
  <1>5. CredentialsInv'
    BY <1>1, <1>2, <1>4 DEF NewClientInv, CredentialsInv, HasNoApi
  <1>6. StoresInv'
    <2>1. CASE pc' \in {"panicked", "failed"}
      BY <1>1, <2>1, StoresStay DEF NewClientInv
    <2>2. CASE pc' = "ready" /\ (HasConfigs => options.Sources # <<>>
                   /\ options.Sources[1].raw = MemoryStoreKey /\ ~(Len(options.Sources) > 1))
      <3>1. HasConfigs => Len(options.Sources) = 1
        <4>1. options.Sources \in Seq({options.Sources[i] : i \in DOMAIN options.Sources})
          BY ListsAreSequences DEF NewClientInv, OptionsInv, GoodOptions
        <4>2. options.Sources # <<>> => Len(options.Sources) \in Nat /\ Len(options.Sources) # 0
          BY <4>1
        <4>3. HasConfigs => options.Sources # <<>> /\ ~(Len(options.Sources) > 1)
          BY <2>2
        <4>4. \A n \in Nat : n # 0 /\ ~(n > 1) => n = 1
          OBVIOUS
        <4> QED
          BY <4>2, <4>3, <4>4
      <3>2. HasConfigs' <=> HasConfigs
        BY <1>1 DEF HasConfigs
      <3> QED
        BY <1>1, <2>2, <3>1, <3>2 DEF NewClientInv, StoresInv
    <2> QED
      BY <1>2, <2>1, <2>2
  <1> QED
    BY <1>3, <1>5, <1>6 DEF NewClientInv

LEMMA LoadPreserves ==
    ASSUME NewClientInv, Load
    PROVE  NewClientInv'
  <1>1. /\ pc = "ready" /\ applied = Len(given)
        /\ UNCHANGED <<given, applied, options, pc>>
    BY DEF Load, NewClientInv, OptionsInv
  <1>2. PICK i \in DOMAIN options.Sources :
           /\ options.Sources[i].store = "API"
           /\ \E key : credentials' = [credentials EXCEPT !["http"] = key]
           /\ \/ stores' = stores
              \/ \E x : stores' = [stores EXCEPT ![i] = x]
    BY DEF Load
  <1>3. OptionsInv'
    BY <1>1, OptionsStay DEF NewClientInv, OptionsInv
  <1>4. CredentialsInv'
    BY <1>1, <1>2 DEF NewClientInv, CredentialsInv, HasNoApi
  <1>5. /\ IsList(stores') /\ Len(stores') = Len(stores)
        /\ \A j \in 1 .. Len(stores) : j # i => stores'[j] = stores[j]
    <2>1. IsList(stores) /\ DOMAIN stores = 1 .. Len(stores)
      BY ListsAreSequences DEF NewClientInv, StoresInv
    <2>2. CASE stores' = stores
      BY <2>1, <2>2
    <2>3. ASSUME NEW x, stores' = [stores EXCEPT ![i] = x]
          PROVE  /\ IsList(stores') /\ Len(stores') = Len(stores)
                 /\ \A j \in 1 .. Len(stores) : j # i => stores'[j] = stores[j]
      BY <2>1, <2>3, ListSteps
    <2> QED
      BY <1>2, <2>2, <2>3
  <1>6. StoresInv'
    <2>1. HasConfigs' <=> HasConfigs
      BY <1>1 DEF HasConfigs
    <2> QED
      BY <1>1, <1>2, <1>5, <2>1 DEF NewClientInv, StoresInv
  <1> QED
    BY <1>3, <1>4, <1>6 DEF NewClientInv

LEMMA NewClientInvariant == Spec => []NewClientInv
<1>1. Init => NewClientInv
  <2> SUFFICES ASSUME Init PROVE NewClientInv
    OBVIOUS
  <2>1. /\ given \in Given /\ applied = 0 /\ pc = "options" /\ stores = <<>>
        /\ options = GetDefaultOptions(env)
        /\ credentials = [service \in {"http", "sse", "telemetry"} |-> NoValue]
    BY DEF Init
  <2>2. GoodOptions(options)
    BY <2>1, DefaultsAreGood
  <2>3. Len(given) \in Nat
    BY <2>1, GivenList
  <2>4. OptionsInv
    BY <2>1, <2>2, <2>3 DEF OptionsInv, SourcesInv
  <2>5. CredentialsInv
    BY <2>1 DEF CredentialsInv
  <2>6. StoresInv
    <3>1. <<>> \in Seq({}) /\ Len(<<>>) = 0
      OBVIOUS
    <3>2. IsList(stores) /\ Len(stores) = 0
      BY <2>1, <3>1, ListsAreSequences
    <3>3. Len(options.Sources) \in Nat
      BY <2>2, ListsAreSequences DEF GoodOptions
    <3> QED
      BY <2>1, <3>2, <3>3 DEF StoresInv
  <2> QED
    BY <2>4, <2>5, <2>6 DEF NewClientInv
<1>2. NewClientInv /\ [Next]_vars => NewClientInv'
  <2> SUFFICES ASSUME NewClientInv, [Next]_vars PROVE NewClientInv'
    OBVIOUS
  <2>1. CASE OptionsApplied
    <3>1. /\ pc = "options" /\ pc' = "stores" /\ applied = Len(given)
          /\ UNCHANGED <<given, applied, options, stores, credentials>>
      BY <2>1 DEF OptionsApplied
    <3> QED
      BY <3>1, OptionsStay, StoresStay DEF NewClientInv, CredentialsInv, HasNoApi
  <2>2. CASE UNCHANGED vars
    <3>1. UNCHANGED <<given, applied, options, pc, stores, credentials>>
      BY <2>2 DEF vars
    <3>2. OptionsInv'
      BY <3>1 DEF NewClientInv, OptionsInv, SourcesInv, IsLast
    <3>3. CredentialsInv' /\ StoresInv'
      BY <3>1 DEF NewClientInv, CredentialsInv, StoresInv, HasConfigs, source
    <3> QED
      BY <3>2, <3>3 DEF NewClientInv
  <2> QED
    BY <2>1, <2>2, ApplyOptionPreserves, BuildStorePreserves, ParsingPreserves,
       MakeClientPreserves, LoadPreserves DEF Next
<1> QED
  BY <1>1, <1>2, PTL DEF Spec

-----------------------------------------------------------------------------
\* "Using this option will exclude the default (API + SSE) sources"
\* (option_helpers.go:23): whatever the other options are, and whatever order
\* they are given in, a client whose last option about sources is an offline
\* one asks the API for nothing, and reports contexts only if a later option
\* has it do so.
THEOREM OfflineClientsStayOffline == Spec => []OfflineStaysOffline
<1>1. NewClientInv => OfflineStaysOffline
  <2> DEFINE about == {i \in DOMAIN given : given[i].with \in {"Sources", "OfflineSources", "Configs"}}
  <2> SUFFICES ASSUME NewClientInv, pc = "ready", about # {}, given[Max(about)].with # "Sources"
               PROVE  /\ credentials["http"] = NoValue /\ credentials["sse"] = NoValue
                      /\ options.ContextTelemetryMode # "None" =>
                            \E i \in DOMAIN given : i > Max(about) /\ given[i].with = "ContextTelemetryMode"
    BY DEF OfflineStaysOffline
  <2>1. /\ SourcesInv /\ applied = Len(given) /\ Len(given) \in Nat
        /\ DOMAIN given = 1 .. applied
    BY GivenList DEF NewClientInv, OptionsInv
  <2>2. PICK m \in 1 .. applied : IsLast(m)
    BY <2>1 DEF SourcesInv, About
  <2>3. m \in about /\ \A j \in about : j <= m
    BY <2>1, <2>2 DEF IsLast, About
  <2>4. Max(about) = m
    <3>1. about \subseteq Nat
      BY <2>1
    <3> HIDE DEF about
    <3>2. m \in about /\ \A j \in about : m >= j
      BY <2>3, <3>1
    <3>3. \A x \in about : (\A j \in about : x >= j) => x = m
      BY <3>1, <3>2
    <3> QED
      BY <3>2, <3>3 DEF Max
  <2>5. HasNoApi(options)
        /\ (options.ContextTelemetryMode # "None" =>
              \E i \in m + 1 .. applied : given[i].with = "ContextTelemetryMode")
    BY <2>1, <2>2, <2>4 DEF SourcesInv
  <2>6. credentials["http"] = NoValue /\ credentials["sse"] = NoValue
    BY <2>5 DEF NewClientInv, CredentialsInv
  <2> HIDE DEF about
  <2> QED
    BY <2>1, <2>4, <2>5, <2>6
<1> QED
  BY <1>1, NewClientInvariant, PTL

-----------------------------------------------------------------------------
\* What the getters make of a value that was converted.

LEMMA ConvertedValue ==
    ASSUME NEW x, IsGoValue(x), x.kind # "config", Create(x) # NoValue, NEW type \in Getter
    PROVE  LET got == Extract(type, Create(x))
           IN  /\ type # Create(x).kind => got = NoValue
               /\ type = Create(x).kind /\ (got = NoValue \/ got.kind = "nil") =>
                     x.kind \in {"map", "configValue"}
               /\ type = Create(x).kind /\ got # NoValue /\ got.kind # "nil" =>
                     SameValue(x, got)
  <1> DEFINE got == Extract(type, Create(x))
  <1>1. type # Create(x).kind => got = NoValue
    BY DEF Extract
  <1> SUFFICES ASSUME type = Create(x).kind
               PROVE  /\ got = NoValue \/ got.kind = "nil" => x.kind \in {"map", "configValue"}
                      /\ got # NoValue /\ got.kind # "nil" => SameValue(x, got)
    BY <1>1
  <1>s. DOMAIN TypeOfScalar = {"int", "string", "strings", "bytes", "bool", "float", "logLevel"}
    BY DEF TypeOfScalar
  <1>2. CASE x.kind = "configValue"
    BY <1>2 DEF SameValue
  <1>3. CASE x.kind = "slice"
    <2> DEFINE texts == [i \in DOMAIN x.v |-> x.v[i].v]
    <2>1. IsStringList(x.v) /\ Create(x) = [kind |-> "StringList", v |-> texts]
      <3>1. Create(x) = IF IsStringList(x.v) THEN [kind |-> "StringList", v |-> texts]
                        ELSE [kind |-> "", v |-> NoValue]
        BY <1>s, <1>3 DEF Create
      <3>2. [kind |-> "", v |-> NoValue].kind \notin Getter
        BY DEF Getter
      <3> QED
        BY <3>1, <3>2
    <2>2. got = [kind |-> "strings", v |-> texts]
      BY <2>1 DEF Extract, GoTypeOf
    <2>3. Len(x.v) \in Nat /\ DOMAIN x.v = 1 .. Len(x.v)
      BY <1>3, ListsAreSequences DEF IsGoValue
    <2>4. \A i \in DOMAIN x.v : x.v[i].v \in STRING
      BY <1>3, <2>1 DEF IsStringList, IsGoValue
    <2>5. texts \in Seq(STRING) /\ Len(texts) = Len(x.v)
      <3>1. texts \in [1 .. Len(x.v) -> STRING]
        BY <2>3, <2>4
      <3> QED
        BY <2>3, <3>1
    <2>6. got # NoValue
      BY <2>2, <2>5, NilAssumption
    <2> QED
      BY <1>3, <2>2, <2>3, <2>5, <2>6 DEF SameValue
  <1>4. CASE x.kind = "duration"
    <2>1. x.v \in Nat /\ Create(x) = [kind |-> "Duration", v |-> durationToISO8601(x.v)]
      BY <1>s, <1>4 DEF Create, IsGoValue
    <2>2. got = [kind |-> "duration", v |-> ParseDuration(durationToISO8601(x.v))]
      BY <2>1 DEF Extract, ExtractDurationValue
    <2> HIDE DEF got
    <2>3. got # NoValue
      <3>1. PICK n \in Nat : got = [kind |-> "duration", v |-> n]
        BY <2>1, <2>2, DurationIsRead
      <3> QED
        BY <3>1, NilAssumption
    <2>4. x.v < Month => SameValue(x, got)
      BY <1>4, <2>1, <2>2, DurationComesBack DEF SameValue
    <2>5. ~(x.v < Month) => SameValue(x, got)
      BY <1>4, <2>1 DEF SameValue
    <2> QED
      BY <2>2, <2>3, <2>4, <2>5
  <1>5. CASE x.kind = "map"
    <2>1. Create(x) = [kind |-> "Json", v |-> Marshal(x.v)]
      BY <1>s, <1>5 DEF Create
    <2>2. got = ExtractJSONValue(Create(x))
      BY <2>1 DEF Extract
    <2>3. got # NoValue /\ got.kind # "nil" => got.v = Unmarshal(x.v)
      BY <2>1, <2>2 DEF ExtractJSONValue, Marshal
    <2> QED
      BY <1>5, <2>3 DEF SameValue
  <1>6. CASE x.kind \in DOMAIN TypeOfScalar
    <2>1. x.kind \in {"int", "string", "strings", "bytes", "bool", "float", "logLevel"}
      BY <1>s, <1>6
    <2>2. Create(x) = [kind |-> TypeOfScalar[x.kind], v |-> x.v]
      BY <1>s, <1>6, <2>1 DEF Create
    <2>3. GoTypeOf[TypeOfScalar[x.kind]] = x.kind /\ TypeOfScalar[x.kind] \notin {"Json", "Duration"}
      BY <2>1 DEF GoTypeOf, TypeOfScalar
    <2>4. got = [kind |-> x.kind, v |-> x.v]
      BY <2>2, <2>3 DEF Extract
    <2>5. got = x /\ got # NoValue
      BY <2>4 DEF IsGoValue
    <2> QED
      BY <2>1, <2>5 DEF SameValue
  <1>7. x.kind \in {"configValue", "slice", "duration", "map"} \cup DOMAIN TypeOfScalar
    BY DEF Create
  <1> QED
    BY <1>2, <1>3, <1>4, <1>5, <1>6, <1>7

\* "WithConfigs lets you provide a map of configs" (option_helpers.go:123): for
\* every map of configs a client that was made with them has exactly their keys,
\* asks the API for nothing, and its typed getters return the values that were
\* given - durations to the half second - and the default for any other type.
THEOREM GivenConfigsComeBack == Spec => []ConfigsComeBack
<1>1. NewClientInv => ConfigsComeBack
  <2> SUFFICES ASSUME NewClientInv, pc = "ready", HasConfigs
               PROVE  /\ Keys = DOMAIN options.Configs
                      /\ credentials["http"] = NoValue /\ credentials["sse"] = NoValue
                      /\ \A k \in DOMAIN options.Configs :
                            LET x == options.Configs[k]
                            IN  x.kind # "config" =>
                                  \A type \in Getter :
                                    IF type # Create(x).kind \/ GetValue(type, k) = NoValue
                                    THEN /\ GetValueWithDefault(type, k, Null) = Null
                                         /\ type = Create(x).kind => x.kind \in {"map", "configValue"}
                                    ELSE SameValue(x, GetValueWithDefault(type, k, Null))
    BY DEF ConfigsComeBack
  <2>1. /\ DOMAIN options.Sources = {1} /\ DOMAIN stores = {1}
        /\ options.Sources[1].store = "Memory"
    <3>1. Len(options.Sources) = 1 /\ options.Sources[1].raw = MemoryStoreKey /\ Len(stores) = 1
      BY DEF NewClientInv, StoresInv
    <3>2. DOMAIN options.Sources = {1} /\ DOMAIN stores = {1}
      BY <3>1, ListsAreSequences DEF NewClientInv, StoresInv, OptionsInv, GoodOptions
    <3> QED
      BY <3>1, <3>2 DEF NewClientInv, OptionsInv, GoodOptions
  <2>2. /\ stores[1].configMap = [k \in DOMAIN options.Configs |-> MemoryConfig(k, options.Configs[k])]
        /\ \A k \in DOMAIN options.Configs :
              options.Configs[k].kind # "config" => Create(options.Configs[k]) # NoValue
    <3>1. 1 \in 1 .. Len(stores)
      BY <2>1, ListsAreSequences DEF NewClientInv, StoresInv
    <3> QED
      BY <2>1, <3>1 DEF NewClientInv, StoresInv
  <2>3. Keys = DOMAIN options.Configs
    BY <2>1, <2>2 DEF Keys
  <2>4. credentials["http"] = NoValue /\ credentials["sse"] = NoValue
    BY <2>1 DEF NewClientInv, CredentialsInv, HasNoApi
  <2>5. ASSUME NEW k \in DOMAIN options.Configs, options.Configs[k].kind # "config",
               NEW type \in Getter
        PROVE  LET x == options.Configs[k]
               IN  IF type # Create(x).kind \/ GetValue(type, k) = NoValue
                   THEN /\ GetValueWithDefault(type, k, Null) = Null
                        /\ type = Create(x).kind => x.kind \in {"map", "configValue"}
                   ELSE SameValue(x, GetValueWithDefault(type, k, Null))
    <3> DEFINE x   == options.Configs[k]
               got == Extract(type, Create(x))
    <3>1. GetConfig(k) = MemoryConfig(k, x)
      <4>1. Holders(k) = {1}
        BY <2>1, <2>2 DEF Holders
      <4>2. Min({1}) = 1
        BY DEF Min
      <4> QED
        BY <2>2, <4>1, <4>2 DEF GetConfig
    <3>2. IsGoValue(x) /\ MemoryConfig(k, x) # NoValue /\ Create(x) # NoValue
      BY <2>2, <2>5 DEF NewClientInv, OptionsInv, GoodOptions
    <3>3. MemoryConfig(k, x).value = Create(x)
      BY <2>5 DEF MemoryConfig
    <3>4. fetchAndProcessValue(type, k) = got
      BY <3>1, <3>2, <3>3 DEF fetchAndProcessValue
    <3>5. GetValue(type, k) = IF got = NoValue \/ got.kind = "nil" THEN NoValue ELSE got
      BY <3>4 DEF GetValue
    <3>6. /\ type # Create(x).kind => got = NoValue
          /\ type = Create(x).kind /\ (got = NoValue \/ got.kind = "nil") =>
                x.kind \in {"map", "configValue"}
          /\ type = Create(x).kind /\ got # NoValue /\ got.kind # "nil" => SameValue(x, got)
      BY <2>5, <3>2, ConvertedValue
    <3> HIDE DEF got, x
    <3>7. CASE got = NoValue \/ got.kind = "nil"
      BY <3>5, <3>6, <3>7 DEF GetValueWithDefault, x
    <3>8. CASE ~(got = NoValue \/ got.kind = "nil")
      BY <3>5, <3>6, <3>8 DEF GetValueWithDefault, x
    <3> QED
      BY <3>7, <3>8
  <2> QED
    BY <2>3, <2>4, <2>5
<1> QED
  BY <1>1, NewClientInvariant, PTL

-----------------------------------------------------------------------------
\* Least and greatest numbers

LEMMA MinIsLeast ==
    ASSUME NEW S \in SUBSET Nat, S # {}
    PROVE  Min(S) \in S /\ \A y \in S : Min(S) <= y
  <1>1. PICK x \in S : \A y \in S : <<y, x>> \notin OpToRel(<, Nat)
    BY NatLessThanWellFounded, WFMin
  <1>2. \A y \in S : ~(y < x)
    BY <1>1, Zenon DEF OpToRel
  <1>3. \A y \in S : x <= y
    BY <1>2
  <1> QED
    BY <1>3 DEF Min

LEMMA MaxIsGreatest ==
    ASSUME NEW n \in Nat, NEW S \in SUBSET (1 .. n), S # {}
    PROVE  Max(S) \in S /\ \A y \in S : y <= Max(S)
  <1>1. PICK D : D = {k \in Nat : n - k \in S}
    OBVIOUS
  <1>2. D \in SUBSET Nat /\ D # {}
    <2>1. PICK y \in S : y \in 1 .. n
      OBVIOUS
    <2>2. n - y \in Nat /\ n - (n - y) = y
      BY <2>1
    <2> QED
      BY <1>1, <2>1, <2>2
  <1>3. PICK k : k \in D /\ \A j \in D : k <= j
    BY <1>2, MinIsLeast
  <1>4. ASSUME NEW y \in S PROVE y <= n - k
    <2>1. y \in 1 .. n /\ k \in Nat
      BY <1>2, <1>3
    <2>2. n - y \in Nat /\ n - (n - y) = y
      BY <2>1
    <2>3. k <= n - y
      BY <1>1, <1>3, <2>2
    <2> QED
      BY <2>1, <2>3
  <1>5. n - k \in S /\ \A y \in S : n - k >= y
    BY <1>1, <1>2, <1>3, <1>4
  <1>6. \E x \in S : \A y \in S : x >= y
    BY <1>5
  <1>7. Max(S) \in S /\ \A y \in S : Max(S) >= y
    BY <1>6 DEF Max
  <1> QED
    BY <1>7

\* Induction, up to n.
LEMMA CountingUp ==
    ASSUME NEW n \in Nat, NEW Good, 0 \in Good,
           \A i \in 1 .. n : i - 1 \in Good => i \in Good
    PROVE  0 .. n \subseteq Good
  <1> DEFINE Bad == (0 .. n) \ Good
  <1> SUFFICES ASSUME Bad # {}
               PROVE  FALSE
    OBVIOUS
  <1>1. PICK m : m = Min(Bad)
    OBVIOUS
  <1>2. m \in Bad /\ \A i \in Bad : m <= i
    <2>1. Bad \in SUBSET Nat
      OBVIOUS
    <2> HIDE DEF Bad
    <2> QED
      BY <1>1, <2>1, MinIsLeast
  <1>3. m \in 1 .. n /\ m - 1 \in 0 .. n /\ m - 1 < m
    BY <1>2
  <1>4. m - 1 \in Good
    BY <1>2, <1>3
  <1> QED
    BY <1>2, <1>3, <1>4

-----------------------------------------------------------------------------
\* The maps of a YAML file

LEMMA InnerMapsGrow ==
    ASSUME NEW S, NEW T, S \subseteq T
    PROVE  InnerMaps(S) \subseteq InnerMaps(T)
  BY DEF InnerMaps

IsLevels(at, tree, n) ==
    at = [depth \in 0 .. n |-> IF depth = 0 THEN {Outermost(tree)} ELSE InnerMaps(at[depth - 1])]

\* There are maps at every depth up to n, or none.
LEMMA LevelsExist ==
    ASSUME NEW tree, NEW n \in Nat
    PROVE  \E at : IsLevels(at, tree, n)
  <1> DEFINE Good == { m \in 0 .. n : \E at : IsLevels(at, tree, m) }
  <1>1. 0 \in Good
    <2>1. PICK at : at = [depth \in 0 .. 0 |-> {Outermost(tree)}]
      OBVIOUS
    <2>2. IsLevels(at, tree, 0)
      BY <2>1 DEF IsLevels
    <2> QED
      BY <2>2
  <1>2. ASSUME NEW m \in 1 .. n, m - 1 \in Good
        PROVE  m \in Good
    <2>1. PICK at : IsLevels(at, tree, m - 1)
      BY <1>2
    <2>2. PICK more : more = [depth \in 0 .. m |-> IF depth = m THEN InnerMaps(at[m - 1]) ELSE at[depth]]
      OBVIOUS
    <2>3. ASSUME NEW depth \in 0 .. m
          PROVE  more[depth] = IF depth = 0 THEN {Outermost(tree)} ELSE InnerMaps(more[depth - 1])
      <3>1. CASE depth = m
        <4>1. more[m] = InnerMaps(at[m - 1])
          BY <2>2
        <4>2. more[m - 1] = at[m - 1]
          BY <2>2
        <4> QED
          BY <3>1, <4>1, <4>2
      <3>2. CASE depth # m
        <4>1. depth \in 0 .. m - 1 /\ (depth # 0 => depth - 1 \in 0 .. m - 1)
          BY <3>2
        <4>2. at[depth] = IF depth = 0 THEN {Outermost(tree)} ELSE InnerMaps(at[depth - 1])
          BY <2>1, <4>1 DEF IsLevels
        <4>3. \A j \in 0 .. m - 1 : more[j] = at[j]
          BY <2>2
        <4> QED
          BY <4>1, <4>2, <4>3
      <3> QED
        BY <3>1, <3>2
    <2>4. IsLevels(more, tree, m)
      BY <2>2, <2>3 DEF IsLevels
    <2> QED
      BY <2>4
  <1>3. 0 .. n \subseteq Good
    <2> HIDE DEF Good
    <2> QED
      BY <1>1, <1>2, CountingUp
  <1> QED
    BY <1>3

\* The outermost is among the maps, and they are all in any set that has it and
\* the maps within its members.
LEMMA MapsAreReached ==
    ASSUME NEW tree
    PROVE  /\ Outermost(tree) \in Maps(tree)
           /\ \A V : Outermost(tree) \in V /\ InnerMaps(V) \subseteq V => Maps(tree) \subseteq V
  <1> DEFINE at == CHOOSE f : IsLevels(f, tree, MaxDepth)
  <1>1. MaxDepth \in Nat
    BY FilesAssumption
  <1>2. IsLevels(at, tree, MaxDepth)
    BY <1>1, LevelsExist
  <1>3. Maps(tree) = UNION {at[depth] : depth \in 0 .. MaxDepth}
    BY DEF Maps, IsLevels
  <1> HIDE DEF at
  <1>4. \A depth \in 0 .. MaxDepth :
           at[depth] = IF depth = 0 THEN {Outermost(tree)} ELSE InnerMaps(at[depth - 1])
    BY <1>2 DEF IsLevels
  <1>5. Outermost(tree) \in Maps(tree)
    <2>1. 0 \in 0 .. MaxDepth /\ at[0] = {Outermost(tree)}
      BY <1>1, <1>4
    <2> QED
      BY <1>3, <2>1
  <1>6. ASSUME NEW V, Outermost(tree) \in V, InnerMaps(V) \subseteq V
        PROVE  Maps(tree) \subseteq V
    <2> DEFINE Good == {depth \in 0 .. MaxDepth : at[depth] \subseteq V}
    <2>1. 0 \in Good
      BY <1>1, <1>4, <1>6
    <2>2. ASSUME NEW depth \in 1 .. MaxDepth, depth - 1 \in Good PROVE depth \in Good
      <3>1. /\ at[depth - 1] \subseteq V /\ at[depth] = InnerMaps(at[depth - 1])
            /\ depth \in 0 .. MaxDepth
        BY <1>1, <1>4, <2>2
      <3>2. InnerMaps(at[depth - 1]) \subseteq InnerMaps(V)
        BY <3>1, InnerMapsGrow
      <3> QED
        BY <1>6, <3>1, <3>2
    <2>3. 0 .. MaxDepth \subseteq Good
      <3> HIDE DEF Good
      <3> QED
        BY <1>1, <2>1, <2>2, CountingUp
    <2> QED
      BY <1>3, <2>3
  <1> QED
    BY <1>5, <1>6

\* A file that the parser reads as YAML.
IsYaml(file) == file # NoValue /\ file.content # NoValue /\ file.suffix \in {"yaml", "yml"}

LEMMA YamlMaps ==
    ASSUME NEW path, IsYaml(ReadFile(path)), NEW tree, tree = ReadFile(path).content
    PROVE  /\ Outermost(tree) \in Maps(tree)
           /\ InnerMaps(Maps(tree)) \subseteq Maps(tree)
           /\ \A m \in Maps(tree) :
                 /\ m.path \in Seq(STRING)
                 /\ \A name \in DOMAIN m.map : name \in Seq(STRING) \ {<<>>}
  <1>1. path \in DOMAIN File /\ ReadFile(path) = File[path]
    BY DEF IsYaml, ReadFile
  <1>2. /\ InnerMaps(Maps(tree)) \subseteq Maps(tree)
        /\ \A m \in Maps(tree) : \A name \in DOMAIN m.map : name \in Seq(STRING) \ {<<>>}
    BY <1>1, FilesAssumption DEF IsYaml
  <1>3. Outermost(tree) \in Maps(tree)
    BY MapsAreReached
  <1>4. PICK V : V = {m \in Maps(tree) : m.path \in Seq(STRING)}
    OBVIOUS
  <1>5. Outermost(tree) \in V
    <2>1. Outermost(tree).path = <<>> /\ <<>> \in Seq(STRING)
      BY DEF Outermost
    <2> QED
      BY <1>3, <1>4, <2>1
  <1>6. ASSUME NEW m \in V, NEW name \in DOMAIN m.map, IsNested(m, name)
        PROVE  Inner(m, name) \in V
    <2>1. m \in Maps(tree) /\ m.path \in Seq(STRING) /\ name \in Seq(STRING)
      BY <1>2, <1>4
    <2>2. Inner(m, name) \in InnerMaps(Maps(tree))
      BY <1>6, <2>1 DEF InnerMaps
    <2>3. Inner(m, name).path \in Seq(STRING)
      BY <2>1 DEF Inner
    <2> QED
      BY <1>2, <1>4, <2>2, <2>3
  <1>7. InnerMaps(V) \subseteq V
    BY <1>6 DEF InnerMaps
  <1>8. Maps(tree) \subseteq V
    BY <1>5, <1>7, MapsAreReached
  <1> QED
    BY <1>2, <1>3, <1>4, <1>8

-----------------------------------------------------------------------------
\* Of configs with the same key, the last

LEMMA LastIsTaken ==
    ASSUME NEW configs, IsList(configs), NEW kept \in SUBSET DOMAIN configs, NEW k
    PROVE  /\ k \in DOMAIN MapOf(configs, kept) <=> \E i \in kept : configs[i].key = k
           /\ k \in DOMAIN MapOf(configs, kept) =>
                 \E i \in kept : /\ configs[i].key = k /\ MapOf(configs, kept)[k] = configs[i]
                                 /\ \A j \in kept : configs[j].key = k => j <= i
  <1>1. PICK same : same = {i \in kept : configs[i].key = k}
    OBVIOUS
  <1>2. k \in DOMAIN MapOf(configs, kept) <=> \E i \in kept : configs[i].key = k
    BY DEF MapOf
  <1>3. ASSUME k \in DOMAIN MapOf(configs, kept)
        PROVE  \E i \in kept : /\ configs[i].key = k /\ MapOf(configs, kept)[k] = configs[i]
                               /\ \A j \in kept : configs[j].key = k => j <= i
    <2>1. PICK n \in Nat : DOMAIN configs = 1 .. n
      BY ListsAreSequences
    <2>2. same \in SUBSET (1 .. n) /\ same # {}
      BY <1>1, <1>2, <1>3, <2>1
    <2>3. Max(same) \in same /\ \A y \in same : y <= Max(same)
      BY <2>2, MaxIsGreatest
    <2>4. MapOf(configs, kept)[k] = configs[Max(same)]
      BY <1>1, <1>3 DEF MapOf
    <2> QED
      BY <1>1, <2>3, <2>4
  <1> QED
    BY <1>2, <1>3

\* A store has what its source declares.
Meant(s, configMap) ==
    \A k : /\ k \in DOMAIN configMap <=> Declared(s, k) # {}
           /\ k \in DOMAIN configMap => configMap[k].value \in Declared(s, k)

LEMMA ListIsMeant ==
    ASSUME NEW configs, IsList(configs), NEW kept \in SUBSET DOMAIN configs, NEW s,
           \A k : Declared(s, k) = LastOf(configs, kept, k)
    PROVE  Meant(s, MapOf(configs, kept))
  <1> SUFFICES ASSUME NEW k
               PROVE  /\ k \in DOMAIN MapOf(configs, kept) <=> LastOf(configs, kept, k) # {}
                      /\ k \in DOMAIN MapOf(configs, kept) =>
                            MapOf(configs, kept)[k].value \in LastOf(configs, kept, k)
    BY DEF Meant
  <1>1. \A i \in kept : /\ configs[i].key = k
                        /\ \A j \in kept : configs[j].key = k => j <= i
                        => configs[i].value \in LastOf(configs, kept, k)
    BY DEF LastOf
  <1>2. LastOf(configs, kept, k) # {} => \E i \in kept : configs[i].key = k
    BY DEF LastOf
  <1> QED
    BY <1>1, <1>2, LastIsTaken

-----------------------------------------------------------------------------
\* What handleMapKeyValue makes of a value

LEMMA CreatedIsMeant ==
    ASSUME NEW key, NEW x, NEW type, NEW c, c = createConfig(key, x, type), c # NoValue
    PROVE  c.key = key /\ c.value = ValueOf([key |-> key, x |-> x])
  BY DEF createConfig, ValueOf

LEMMA FlagIsMeant ==
    ASSUME NEW name, NEW node, FlagConfig(name, node) # NoValue
    PROVE  /\ <<"value">> \in DOMAIN node.v
           /\ FlagConfig(name, node).key = name
           /\ FlagConfig(name, node).value = ValueOf([key |-> name, x |-> node.v[<<"value">>]])
  <1> DEFINE value == IF <<"value">> \in DOMAIN node.v THEN node.v[<<"value">>] ELSE Nil
             made  == IF Create(value) = NoValue THEN Nil
                      ELSE [kind |-> "configValue", v |-> Create(value)]
  <1>1. PICK type : FlagConfig(name, node) = createConfig(name, made, type)
    BY DEF FlagConfig
  <1>2. made.kind # "string"
    BY DEF Nil
  <1>3. Create(Nil) = NoValue
    BY DEF Create, Nil, TypeOfScalar
  <1>4. Create(value) # NoValue => Create(made) = Create(value)
    <2>1. \A v : Create([kind |-> "configValue", v |-> v]) = v
      BY DEF Create, TypeOfScalar
    <2> QED
      BY <2>1
  <1> HIDE DEF made
  <1>5. name[1] # "log-level" /\ Create(made) # NoValue
    BY <1>1, <1>2 DEF createConfig
  <1>6. Create(value) # NoValue
    BY <1>3, <1>5 DEF made
  <1>7. <<"value">> \in DOMAIN node.v /\ value = node.v[<<"value">>]
    BY <1>3, <1>6
  <1> HIDE DEF value
  <1>8. /\ createConfig(name, made, type).key = name
        /\ createConfig(name, made, type).value = Create(made)
    BY <1>5 DEF createConfig
  <1>9. ValueOf([key |-> name, x |-> value]) = Create(value)
    BY <1>5 DEF ValueOf
  <1> QED
    BY <1>1, <1>4, <1>6, <1>7, <1>8, <1>9

LEMMA LeavesOfMaps ==
    ASSUME NEW tree, NEW m \in Maps(tree), NEW name \in DOMAIN m.map
    PROVE  LeafAt(m, name) \subseteq Leaves(tree)
  <1>1. LeafAt(m, name) \subseteq UNION {LeafAt(m, n) : n \in DOMAIN m.map}
    OBVIOUS
  <1> QED
    BY <1>1 DEF Leaves

LEMMA MapsOfMaps ==
    ASSUME NEW tree, NEW m \in Maps(tree), NEW name \in DOMAIN m.map, IsNested(m, name)
    PROVE  Inner(m, name) \in InnerMaps(Maps(tree))
  <1>1. Inner(m, name) \in {Inner(m, n) : n \in {n \in DOMAIN m.map : IsNested(m, n)}}
    OBVIOUS
  <1> QED
    BY <1>1 DEF InnerMaps

\* A name that an iteration comes to: "_" is not left for one within a map.
IsPlace(m, name) ==
    /\ m.path \in Seq(STRING) /\ name \in Seq(STRING) \ {<<>>}
    /\ name # <<"_">> \/ m.path = <<>>

LEMMA PathsAreNotEmpty ==
    ASSUME NEW m, NEW name, IsPlace(m, name)
    PROVE  m.path \o name # <<>>
  <1>1. PICK path \in Seq(STRING) : path = m.path
    BY Zenon DEF IsPlace
  <1>2. name \in Seq(STRING) /\ Len(name) # 0
    <2>1. name \in Seq(STRING) /\ name # <<>>
      BY Zenon DEF IsPlace
    <2> QED
      BY <2>1
  <1>3. Len(path \o name) = Len(path) + Len(name) /\ Len(path) \in Nat /\ Len(name) \in Nat
    BY <1>2
  <1> QED
    BY <1>1, <1>2, <1>3

\* The configs are all that a name has, but for the names of a map under it.
AreOwn(tree, m, name, configs) ==
    /\ \A c \in configs : \E leaf \in Leaves(tree) : c.key = leaf.key /\ c.value = ValueOf(leaf)
    /\ \A leaf \in LeafAt(m, name) : \E c \in configs : c.key = leaf.key
    /\ IsNested(m, name) =>
          /\ Inner(m, name) \in Maps(tree)
          /\ <<"_">> \in DOMAIN Inner(m, name).map =>
                \A leaf \in LeafAt(Inner(m, name), <<"_">>) : \E c \in configs : c.key = leaf.key

LEMMA OwnIsMeant ==
    ASSUME NEW tree, InnerMaps(Maps(tree)) \subseteq Maps(tree),
           NEW m \in Maps(tree), NEW name \in DOMAIN m.map, IsPlace(m, name),
           NEW path, path = m.path, NEW node, node = m.map[name],
           NEW own, own = OwnConfigs(path, name, node), NoValue \notin ToSet(own)
    PROVE  IsList(own) /\ AreOwn(tree, m, name, ToSet(own))
  <1>1. LeafAt(m, name) \subseteq Leaves(tree)
    BY LeavesOfMaps
  <1>2. ASSUME NEW c, own = <<c>>
        PROVE  IsList(own) /\ ToSet(own) = {c} /\ c # NoValue
    BY <1>2, OneElement
  <1>3. PICK key : key = path \o name
    OBVIOUS
  <1>4. CASE IsFlag(node)
    <2>1. PICK c : c = FlagConfig(name, node)
      OBVIOUS
    <2>2. own = <<c>>
      BY <1>4, <2>1 DEF OwnConfigs, IsFlag
    <2>3. c # NoValue
      BY <1>2, <2>2
    <2>4. PICK leaf : leaf = [key |-> name, x |-> node.v[<<"value">>]]
      OBVIOUS
    <2>5. /\ <<"value">> \in DOMAIN node.v
          /\ c.key = leaf.key /\ c.value = ValueOf(leaf)
      BY <2>1, <2>3, <2>4, FlagIsMeant
    <2>6. LeafAt(m, name) = {leaf}
      <3>1. LeafAt(m, name) = {[key |-> name, x |-> node.v[v]] : v \in {<<"value">>} \cap DOMAIN node.v}
        BY <1>4 DEF LeafAt, IsPlace, IsFlag
      <3> QED
        BY <2>4, <2>5, <3>1
    <2>7. ~IsNested(m, name)
      BY <1>4 DEF IsNested, IsPlace
    <2>8. leaf \in Leaves(tree)
      BY <1>1, <2>6
    <2> QED
      BY <1>2, <2>2, <2>5, <2>6, <2>7, <2>8 DEF AreOwn
  <1>5. CASE ~IsFlag(node) /\ node.kind # "map"
    <2>1. PICK c : c = createConfig(key, node, "CONFIG")
      OBVIOUS
    <2>2. own = <<c>>
      BY <1>3, <1>5, <2>1 DEF OwnConfigs
    <2>3. PICK leaf : leaf = [key |-> key, x |-> node]
      OBVIOUS
    <2>4. c # NoValue => c.key = leaf.key /\ c.value = ValueOf(leaf)
      BY <2>1, <2>3, CreatedIsMeant
    <2>5. LeafAt(m, name) = {leaf}
      BY <1>3, <1>5, <2>3 DEF LeafAt, IsPlace
    <2>6. ~IsNested(m, name)
      BY <1>5 DEF IsNested, IsPlace
    <2>7. leaf \in Leaves(tree)
      BY <1>1, <2>5
    <2> QED
      BY <1>2, <2>2, <2>4, <2>5, <2>6, <2>7 DEF AreOwn
  <1>6. CASE ~IsFlag(node) /\ node.kind = "map"
    <2>1. PICK inner : inner = Inner(m, name)
      OBVIOUS
    <2>2. inner.path = key /\ inner.map = node.v /\ inner.path # <<>>
      <3>1. inner.path = key /\ inner.map = node.v
        BY <1>3, <2>1 DEF Inner
      <3> QED
        BY <1>3, <3>1, PathsAreNotEmpty
    <2>3. IsNested(m, name)
      BY <1>6 DEF IsNested, IsPlace
    <2>4. inner \in Maps(tree)
      BY <2>1, <2>3, MapsOfMaps
    <2>5. LeafAt(m, name) = {}
      BY <1>6 DEF LeafAt, IsPlace
    <2>6. CASE <<"_">> \in DOMAIN node.v
      <3>1. PICK x : x = node.v[<<"_">>]
        OBVIOUS
      <3>2. PICK c : c = createConfig(key, x, "CONFIG")
        OBVIOUS
      <3>3. own = <<c>>
        BY <1>3, <1>6, <2>6, <3>1, <3>2 DEF OwnConfigs
      <3>4. PICK leaf : leaf = [key |-> key, x |-> x]
        OBVIOUS
      <3>5. c # NoValue => c.key = leaf.key /\ c.value = ValueOf(leaf)
        BY <3>2, <3>4, CreatedIsMeant
      <3>6. LeafAt(inner, <<"_">>) = {leaf}
        BY <2>2, <3>1, <3>4 DEF LeafAt, IsPlace
      <3>7. leaf \in Leaves(tree)
        BY <2>2, <2>4, <2>6, <3>6, LeavesOfMaps
      <3>8. IsList(own) /\ ToSet(own) = {c} /\ c.key = leaf.key /\ c.value = ValueOf(leaf)
        BY <1>2, <3>3, <3>5
      <3>9. AreOwn(tree, m, name, {c})
        BY <2>1, <2>4, <2>5, <3>6, <3>7, <3>8 DEF AreOwn
      <3> QED
        BY <3>8, <3>9
    <2>7. CASE <<"_">> \notin DOMAIN node.v
      <3>1. own = <<>>
        BY <1>6, <2>7 DEF OwnConfigs
      <3>2. IsList(own) /\ ToSet(own) = {}
        BY <3>1, NoElement DEF ToSet
      <3> QED
        BY <2>1, <2>2, <2>4, <2>5, <2>7, <3>2 DEF AreOwn
    <2> QED
      BY <2>6, <2>7
  <1> QED
    BY <1>4, <1>5, <1>6

-----------------------------------------------------------------------------
\* What is kept while a YAML file is parsed

Where(frame) == [path |-> frame.path, map |-> frame.map]

IsFrame(tree, frame) ==
    /\ frame = [path |-> frame.path, map |-> frame.map, left |-> frame.left]
    /\ Where(frame) \in Maps(tree)
    /\ frame.left \subseteq DOMAIN frame.map
    /\ <<"_">> \notin frame.left \/ frame.path = <<>>

\* An iteration has yet to come to the name.
IsLeft(frames_, m, name) == \E frame \in frames_ : Where(frame) = m /\ name \in frame.left

\* What the name has is parsed; a map is one of those that were entered.
IsDone(configs, entered, m, name) ==
    /\ \A leaf \in LeafAt(m, name) : \E c \in configs : c.key = leaf.key
    /\ IsNested(m, name) => Inner(m, name) \in entered

\* The configs are of the file, and so far complete.
Progress(tree, frames_, configs) ==
    /\ \A frame \in frames_ : IsFrame(tree, frame)
    /\ \A c \in configs : \E leaf \in Leaves(tree) : c.key = leaf.key /\ c.value = ValueOf(leaf)
    /\ \E entered \in SUBSET Maps(tree) :
          /\ Outermost(tree) \in entered
          /\ \A m \in entered : \A name \in DOMAIN m.map :
                IsLeft(frames_, m, name) \/ IsDone(configs, entered, m, name)

LEMMA ProgressStarts ==
    ASSUME NEW tree, NEW frame,
           frame = [path |-> <<>>, map |-> tree.v, left |-> DOMAIN tree.v]
    PROVE  Progress(tree, {frame}, {})
  <1>1. Where(frame) = Outermost(tree) /\ Outermost(tree) \in Maps(tree)
    BY MapsAreReached DEF Where, Outermost
  <1>2. IsFrame(tree, frame)
    BY <1>1 DEF IsFrame
  <1>3. \A name \in DOMAIN Outermost(tree).map : IsLeft({frame}, Outermost(tree), name)
    BY <1>1 DEF IsLeft, Outermost
  <1>4. {Outermost(tree)} \in SUBSET Maps(tree)
    BY <1>1
  <1> QED
    BY <1>2, <1>3, <1>4 DEF Progress

LEMMA FrameWithout ==
    ASSUME NEW tree, NEW frame, IsFrame(tree, frame), NEW name,
           NEW rest, rest = [frame EXCEPT !.left = @ \ {name}]
    PROVE  Where(rest) = Where(frame) /\ rest.left = frame.left \ {name} /\ IsFrame(tree, rest)
  <1>1. rest = [path |-> frame.path, map |-> frame.map, left |-> frame.left \ {name}]
    BY DEF IsFrame
  <1>2. Where(rest) = Where(frame) /\ rest.left = frame.left \ {name}
    BY <1>1 DEF Where
  <1>3. IsFrame(tree, rest)
    BY <1>1, <1>2 DEF IsFrame
  <1> QED
    BY <1>2, <1>3

\* The name is taken from the frame, and what it has is made a config of.
Takes(tree, frame, name, rest, own, inner) ==
    /\ name \in frame.left /\ IsPlace(Where(frame), name)
    /\ Where(rest) = Where(frame) /\ rest.left = frame.left \ {name} /\ IsFrame(tree, rest)
    /\ own = OwnConfigs(frame.path, name, frame.map[name]) /\ NoValue \notin ToSet(own)
    /\ inner = Descend(frame.path, name, frame.map[name])

\* handleMapKeyValue takes a name from the frame, and adds the map under it.
LEMMA ProgressGoesOn ==
    ASSUME NEW tree, InnerMaps(Maps(tree)) \subseteq Maps(tree),
           NEW frames_, NEW configs, NEW frame, Progress(tree, frames_ \cup {frame}, configs),
           NEW name, NEW rest, NEW own, NEW inner, Takes(tree, frame, name, rest, own, inner)
    PROVE  /\ Progress(tree, (frames_ \cup {rest}) \cup ToSet(inner), configs \cup ToSet(own))
           /\ IsList(own) /\ IsList(inner)
  <1>1. IsFrame(tree, frame)
    BY DEF Progress
  <1>2. PICK path : path = frame.path
    OBVIOUS
  <1>3. PICK node : node = frame.map[name]
    OBVIOUS
  <1>4. /\ name \in frame.left /\ IsPlace(Where(frame), name)
        /\ Where(rest) = Where(frame) /\ rest.left = frame.left \ {name} /\ IsFrame(tree, rest)
        /\ own = OwnConfigs(path, name, node) /\ NoValue \notin ToSet(own)
        /\ inner = Descend(path, name, node)
    BY <1>2, <1>3 DEF Takes
  <1>5. PICK m \in Maps(tree) : /\ m = Where(frame) /\ m.path = frame.path /\ m.map = frame.map
                                /\ name \in DOMAIN m.map /\ IsPlace(m, name)
    BY <1>1, <1>4 DEF IsFrame, Where
  <1>6. IsList(own) /\ AreOwn(tree, m, name, ToSet(own))
    <2>1. path = m.path /\ node = m.map[name]
      BY <1>5, <1>2, <1>3
    <2> QED
      BY <1>5, <1>4, <2>1, OwnIsMeant
  <1>7. /\ \A c \in ToSet(own) : \E leaf \in Leaves(tree) : c.key = leaf.key /\ c.value = ValueOf(leaf)
        /\ \A leaf \in LeafAt(m, name) : \E c \in ToSet(own) : c.key = leaf.key
        /\ IsNested(m, name) => Inner(m, name) \in Maps(tree)
        /\ IsNested(m, name) /\ <<"_">> \in DOMAIN Inner(m, name).map =>
              \A leaf \in LeafAt(Inner(m, name), <<"_">>) : \E c \in ToSet(own) : c.key = leaf.key
    BY <1>6 DEF AreOwn
  <1>8. /\ Where(rest) = m /\ rest.left = frame.left \ {name}
        /\ IsFrame(tree, rest)
    BY <1>5, <1>4
  <1>9. CASE IsNested(m, name)
    <2>1. PICK new : new = [path |-> frame.path \o name, map |-> frame.map[name].v,
                            left |-> DOMAIN frame.map[name].v \ {<<"_">>}]
      OBVIOUS
    <2>2. Where(new) = Inner(m, name)
          /\ new.left = DOMAIN Inner(m, name).map \ {<<"_">>}
      BY <1>5, <2>1 DEF Where, Inner
    <2>3. inner = <<new>>
      BY <1>5, <1>9, <1>2, <1>3, <1>4, <2>1 DEF Descend, IsNested
    <2>4. IsList(inner) /\ ToSet(inner) = {new}
      BY <2>3, OneElement DEF ToSet
    <2>5. IsFrame(tree, new)
      <3>1. Where(new) \in Maps(tree)
        BY <1>7, <1>9, <2>2
      <3>2. new.left \subseteq DOMAIN new.map /\ <<"_">> \notin new.left
        BY <2>1
      <3> QED
        BY <2>1, <3>1, <3>2 DEF IsFrame
    <2>6. Progress(tree, (frames_ \cup {rest}) \cup {new}, configs \cup ToSet(own))
      <3>1. PICK entered \in SUBSET Maps(tree) :
               /\ Outermost(tree) \in entered
               /\ \A m_ \in entered : \A n \in DOMAIN m_.map :
                     IsLeft(frames_ \cup {frame}, m_, n) \/ IsDone(configs, entered, m_, n)
        BY DEF Progress
      <3>2. PICK V : V = entered \cup {Inner(m, name)}
        OBVIOUS
      <3>3. V \in SUBSET Maps(tree) /\ Outermost(tree) \in V
        BY <1>7, <1>9, <3>1, <3>2
      <3>4. ASSUME NEW m_ \in V, NEW n \in DOMAIN m_.map
            PROVE  \/ IsLeft((frames_ \cup {rest}) \cup {new}, m_, n)
                   \/ IsDone(configs \cup ToSet(own), V, m_, n)
        <4>1. CASE m_ = m /\ n = name
          <5>1. IsDone(configs \cup ToSet(own), V, m, name)
            BY <1>7, <3>2 DEF IsDone
          <5> QED
            BY <4>1, <5>1
        <4>2. CASE m_ \in entered /\ ~(m_ = m /\ n = name)
          <5>1. IsLeft(frames_ \cup {frame}, m_, n) =>
                   IsLeft((frames_ \cup {rest}) \cup {new}, m_, n)
            BY <1>5, <1>8, <4>2 DEF IsLeft
          <5>2. IsDone(configs, entered, m_, n) => IsDone(configs \cup ToSet(own), V, m_, n)
            BY <3>2 DEF IsDone
          <5> QED
            BY <3>1, <3>4, <4>2, <5>1, <5>2
        <4>3. CASE m_ = Inner(m, name) /\ n # <<"_">>
          BY <2>2, <3>4, <4>3 DEF IsLeft
        <4>4. CASE m_ = Inner(m, name) /\ n = <<"_">>
          <5>1. m_.path = m.path \o name /\ m.path \o name # <<>>
            BY <1>5, <4>4, PathsAreNotEmpty DEF Inner
          <5>2. ~IsNested(m_, <<"_">>)
            BY <5>1 DEF IsNested
          <5>3. \A leaf \in LeafAt(m_, <<"_">>) : \E c \in ToSet(own) : c.key = leaf.key
            BY <1>7, <1>9, <3>4, <4>4
          <5> QED
            BY <4>4, <5>2, <5>3 DEF IsDone
        <4> QED
          BY <3>2, <4>1, <4>2, <4>3, <4>4
      <3>5. \A f \in (frames_ \cup {rest}) \cup {new} : IsFrame(tree, f)
        BY <1>8, <2>5 DEF Progress
      <3>6. \A c \in configs \cup ToSet(own) : \E leaf \in Leaves(tree) :
               c.key = leaf.key /\ c.value = ValueOf(leaf)
        BY <1>7 DEF Progress
      <3> QED
        BY <3>3, <3>4, <3>5, <3>6 DEF Progress
    <2> QED
      BY <1>6, <2>4, <2>6
  <1>10. CASE ~IsNested(m, name)
    <2>1. inner = <<>>
      BY <1>5, <1>10, <1>2, <1>3, <1>4 DEF Descend, IsNested, IsPlace
    <2>2. IsList(inner) /\ ToSet(inner) = {}
      BY <2>1, NoElement DEF ToSet
    <2>3. Progress(tree, frames_ \cup {rest}, configs \cup ToSet(own))
      <3>1. PICK entered \in SUBSET Maps(tree) :
               /\ Outermost(tree) \in entered
               /\ \A m_ \in entered : \A n \in DOMAIN m_.map :
                     IsLeft(frames_ \cup {frame}, m_, n) \/ IsDone(configs, entered, m_, n)
        BY DEF Progress
      <3>2. ASSUME NEW m_ \in entered, NEW n \in DOMAIN m_.map
            PROVE  IsLeft(frames_ \cup {rest}, m_, n) \/ IsDone(configs \cup ToSet(own), entered, m_, n)
        <4>1. CASE m_ = m /\ n = name
          <5>1. IsDone(configs \cup ToSet(own), entered, m, name)
            BY <1>7, <1>10 DEF IsDone
          <5> QED
            BY <4>1, <5>1
        <4>2. CASE ~(m_ = m /\ n = name)
          <5>1. IsLeft(frames_ \cup {frame}, m_, n) => IsLeft(frames_ \cup {rest}, m_, n)
            BY <1>5, <1>8, <4>2 DEF IsLeft
          <5>2. IsDone(configs, entered, m_, n) => IsDone(configs \cup ToSet(own), entered, m_, n)
            BY DEF IsDone
          <5> QED
            BY <3>1, <3>2, <5>1, <5>2
        <4> QED
          BY <4>1, <4>2
      <3>3. \A f \in frames_ \cup {rest} : IsFrame(tree, f)
        BY <1>8 DEF Progress
      <3>4. \A c \in configs \cup ToSet(own) : \E leaf \in Leaves(tree) :
               c.key = leaf.key /\ c.value = ValueOf(leaf)
        BY <1>7 DEF Progress
      <3> QED
        BY <3>1, <3>2, <3>3, <3>4 DEF Progress
    <2>4. (frames_ \cup {rest}) \cup ToSet(inner) = frames_ \cup {rest}
      BY <2>2
    <2> QED
      BY <1>6, <2>2, <2>3, <2>4
  <1> QED
    BY <1>9, <1>10

\* An iteration that has no name left may end.
LEMMA ProgressOfMapDone ==
    ASSUME NEW tree, NEW frames_, NEW configs, NEW frame,
           Progress(tree, frames_ \cup {frame}, configs), frame.left = {}
    PROVE  Progress(tree, frames_, configs)
  <1>1. \A m : \A n : IsLeft(frames_ \cup {frame}, m, n) <=> IsLeft(frames_, m, n)
    BY DEF IsLeft
  <1> QED
    BY <1>1 DEF Progress

\* When none goes on, every value of the file is parsed.
LEMMA ProgressEnds ==
    ASSUME NEW tree, NEW configs, Progress(tree, {}, configs)
    PROVE  \A leaf \in Leaves(tree) : \E c \in configs : c.key = leaf.key
  <1>1. PICK entered \in SUBSET Maps(tree) :
           /\ Outermost(tree) \in entered
           /\ \A m \in entered : \A n \in DOMAIN m.map :
                 IsLeft({}, m, n) \/ IsDone(configs, entered, m, n)
    BY DEF Progress
  <1>2. \A m \in entered : \A n \in DOMAIN m.map : IsDone(configs, entered, m, n)
    BY <1>1 DEF IsLeft
  <1>3. InnerMaps(entered) \subseteq entered
    BY <1>2 DEF InnerMaps, IsDone
  <1>4. Maps(tree) \subseteq entered
    BY <1>1, <1>3, MapsAreReached
  <1> SUFFICES ASSUME NEW leaf \in Leaves(tree)
               PROVE  \E c \in configs : c.key = leaf.key
    OBVIOUS
  <1>5. PICK m \in Maps(tree) : leaf \in UNION {LeafAt(m, n) : n \in DOMAIN m.map}
    BY DEF Leaves
  <1>6. PICK n \in DOMAIN m.map : leaf \in LeafAt(m, n)
    BY <1>5
  <1>7. IsDone(configs, entered, m, n)
    BY <1>2, <1>4
  <1> QED
    BY <1>6, <1>7 DEF IsDone

-----------------------------------------------------------------------------
\* Every store has what its source declares

StoresMeant ==
    \A i \in 1 .. Len(stores) :
        /\ "configMap" \in DOMAIN stores[i]
        /\ \A s, m : s = options.Sources[i] /\ m = stores[i].configMap =>
              IF s.store = "API" THEN m \in {<<>>, ServerConfigs} ELSE Meant(s, m)

ParsingInv ==
    /\ pc \in {"options", "stores"} => parsed = <<>>
    /\ pc = "yaml" =>
          /\ IsYaml(ReadFile(source.path))
          /\ IsList(frames) /\ frames # <<>> /\ IsList(parsed)
          /\ Progress(ReadFile(source.path).content, ToSet(frames), ToSet(parsed))

MeantInv == StoresMeant /\ ParsingInv /\ PanicsForKnownReasons

LEMMA MeantStays ==
    ASSUME UNCHANGED options
    PROVE  \A s, m : Meant(s, m) => Meant(s, m)'
  <1>1. \A s, k : Declared(s, k)' = Declared(s, k)
    BY DEF Declared
  <1> QED
    BY <1>1 DEF Meant

LEMMA StoresMeantStay ==
    ASSUME StoresMeant, UNCHANGED <<stores, options>>
    PROVE  StoresMeant'
  BY MeantStays DEF StoresMeant

LEMMA MeantStoreAdded ==
    ASSUME NewClientInv, StoresMeant, UNCHANGED options, Len(stores) < Len(options.Sources),
           NEW map, NEW id, AddStore(map, id),
           IF source.store = "API" THEN map = <<>> ELSE Meant(source, map)
    PROVE  StoresMeant'
  <1>1. PICK store : store = [configMap |-> map, projectEnvID |-> id]
    OBVIOUS
  <1>2. /\ Len(stores') = Len(stores) + 1
        /\ \A i \in 1 .. Len(stores) : stores'[i] = stores[i]
        /\ stores'[Len(stores) + 1] = store
    BY <1>1, ListSteps DEF AddStore, NewClientInv, StoresInv
  <1>3. Len(stores) \in Nat
    BY ListsAreSequences DEF NewClientInv, StoresInv
  <1>4. ASSUME NEW i \in 1 .. Len(stores'), NEW s, NEW m,
               s = options.Sources[i], m = stores'[i].configMap
        PROVE  /\ "configMap" \in DOMAIN stores'[i]
               /\ IF s.store = "API" THEN m \in {<<>>, ServerConfigs} ELSE Meant(s, m)
    <2>1. CASE i = Len(stores) + 1
      <3>1. s = source
        BY <1>4, <2>1 DEF source
      <3>2. stores'[i] = store /\ "configMap" \in DOMAIN store /\ m = map
        BY <1>1, <1>2, <1>4, <2>1
      <3> QED
        BY <3>1, <3>2
    <2>2. CASE i \in 1 .. Len(stores)
      <3>1. stores'[i] = stores[i]
        BY <1>2, <2>2
      <3> QED
        BY <1>4, <2>2, <3>1 DEF StoresMeant
    <2> QED
      BY <1>2, <1>3, <2>1, <2>2
  <1>5. \A s, m : Meant(s, m) => Meant(s, m)'
    BY MeantStays
  <1> QED
    BY <1>4, <1>5 DEF StoresMeant

LEMMA JsonIsMeant ==
    ASSUME NEW s, s.store = "DataFile", NEW file, file = ReadFile(s.path),
           file # NoValue, file.content # NoValue, file.suffix = "json"
    PROVE  Meant(s, MapOf(file.content.configs, DOMAIN file.content.configs))
  <1>1. PICK configs : configs = file.content.configs
    OBVIOUS
  <1>2. IsList(configs)
    BY <1>1, FilesAssumption DEF ReadFile
  <1>3. \A k : Declared(s, k) = LastOf(configs, DOMAIN configs, k)
    BY <1>1 DEF Declared
  <1> QED
    BY <1>1, <1>2, <1>3, ListIsMeant

LEMMA DumpIsMeant ==
    ASSUME NEW s, s.store = "ConfigDump", NEW file, file = ReadFile(s.path),
           file # NoValue, file.content # NoValue, "wrappers" \in DOMAIN file.content
    PROVE  Meant(s, MapOf(Unwrapped(file.content.wrappers), Kept(file.content.wrappers)))
  <1>1. PICK wrappers : wrappers = file.content.wrappers
    OBVIOUS
  <1>2. IsList(wrappers)
    BY <1>1, FilesAssumption DEF ReadFile
  <1>3. PICK configs : configs = Unwrapped(wrappers)
    OBVIOUS
  <1>4. IsList(configs) /\ DOMAIN configs = DOMAIN wrappers
    <2>1. PICK n \in Nat : DOMAIN wrappers = 1 .. n
      BY <1>2, ListsAreSequences
    <2>2. PICK S : S = {wrappers[i].config : i \in DOMAIN wrappers}
      OBVIOUS
    <2>3. configs \in [1 .. n -> S]
      BY <1>3, <2>1, <2>2 DEF Unwrapped
    <2>4. configs \in Seq(S)
      BY <2>3
    <2> QED
      BY <2>1, <2>3, <2>4, ListsAreSequences
  <1>5. PICK kept \in SUBSET DOMAIN configs : kept = Kept(wrappers)
    BY <1>4 DEF Kept
  <1>6. \A k : Declared(s, k) = LastOf(configs, kept, k)
    BY <1>1, <1>3, <1>5 DEF Declared
  <1>7. Meant(s, MapOf(configs, kept))
    BY <1>4, <1>6, ListIsMeant
  <1> QED
    BY <1>1, <1>3, <1>5, <1>7

LEMMA MemoryIsMeant ==
    ASSUME NEW s, s.store = "Memory"
    PROVE  Meant(s, [k \in DOMAIN options.Configs |-> MemoryConfig(k, options.Configs[k])])
  <1>1. \A k : Declared(s, k) = {MemoryConfig(k, options.Configs[j]).value : j \in {k} \cap DOMAIN options.Configs}
    BY DEF Declared
  <1> QED
    BY <1>1 DEF Meant

LEMMA YamlIsMeant ==
    ASSUME NEW s, s.store = "DataFile", NEW file, file = ReadFile(s.path), IsYaml(file),
           NEW configs, IsList(configs), Progress(file.content, {}, ToSet(configs))
    PROVE  Meant(s, MapOf(configs, DOMAIN configs))
  <1>1. PICK tree : tree = file.content
    OBVIOUS
  <1>2. \A k : Declared(s, k) = {ValueOf(leaf) : leaf \in {l \in Leaves(tree) : l.key = k}}
    BY <1>1 DEF Declared, IsYaml
  <1>3. \A leaf \in Leaves(tree) : \E c \in ToSet(configs) : c.key = leaf.key
    BY <1>1, ProgressEnds
  <1>4. \A c \in ToSet(configs) : \E leaf \in Leaves(tree) : c.key = leaf.key /\ c.value = ValueOf(leaf)
    BY <1>1 DEF Progress
  <1> SUFFICES ASSUME NEW k
               PROVE  /\ k \in DOMAIN MapOf(configs, DOMAIN configs) <=> Declared(s, k) # {}
                      /\ k \in DOMAIN MapOf(configs, DOMAIN configs) =>
                            MapOf(configs, DOMAIN configs)[k].value \in Declared(s, k)
    BY DEF Meant
  <1>5. /\ k \in DOMAIN MapOf(configs, DOMAIN configs) <=> \E c \in ToSet(configs) : c.key = k
        /\ k \in DOMAIN MapOf(configs, DOMAIN configs) =>
              \E c \in ToSet(configs) : c.key = k /\ MapOf(configs, DOMAIN configs)[k] = c
    BY LastIsTaken DEF ToSet
  <1>6. Declared(s, k) # {} => \E c \in ToSet(configs) : c.key = k
    BY <1>2, <1>3
  <1>7. \A c \in ToSet(configs) : c.key = k => c.value \in Declared(s, k)
    BY <1>2, <1>4
  <1> QED
    BY <1>5, <1>6, <1>7

LEMMA OptionsStepsMean ==
    ASSUME NewClientInv, MeantInv, ApplyOption \/ OptionsApplied
    PROVE  MeantInv'
  <1>1. /\ pc = "options" /\ pc' \in {"options", "stores", "failed"}
        /\ UNCHANGED <<stores, parsed>>
    BY DEF ApplyOption, OptionsApplied
  <1>2. stores = <<>> /\ parsed = <<>>
    BY <1>1 DEF NewClientInv, StoresInv, MeantInv, ParsingInv
  <1>3. StoresMeant'
    BY <1>1, <1>2 DEF StoresMeant
  <1>4. ParsingInv' /\ PanicsForKnownReasons'
    BY <1>1, <1>2 DEF ParsingInv, PanicsForKnownReasons
  <1> QED
    BY <1>3, <1>4 DEF MeantInv

\* Steps that leave the stores alone, or add one.
LEMMA BuildStepsMean ==
    ASSUME NewClientInv, MeantInv, UNCHANGED options, pc = "stores", Len(stores) < Len(options.Sources),
           UNCHANGED parsed, pc' \in {"stores", "failed", "panicked"},
           \/ UNCHANGED stores
           \/ \E map, id : /\ AddStore(map, id)
                           /\ IF source.store = "API" THEN map = <<>> ELSE Meant(source, map),
           PanicsForKnownReasons'
    PROVE  MeantInv'
  <1>1. StoresMeant'
    <2>1. CASE UNCHANGED stores
      BY <2>1, StoresMeantStay DEF MeantInv
    <2>2. ASSUME NEW map, NEW id, AddStore(map, id),
                 IF source.store = "API" THEN map = <<>> ELSE Meant(source, map)
          PROVE  StoresMeant'
      BY <2>2, MeantStoreAdded DEF MeantInv
    <2> QED
      BY <2>1, <2>2
  <1>2. ParsingInv'
    BY DEF MeantInv, ParsingInv
  <1> QED
    BY <1>1, <1>2 DEF MeantInv

LEMMA BuildAPIStoreMeans ==
    ASSUME NewClientInv, MeantInv, BuildAPIStore
    PROVE  MeantInv'
  <1>1. /\ pc = "stores" /\ Len(stores) < Len(options.Sources) /\ source.store = "API"
        /\ UNCHANGED <<options, env, parsed>>
    BY SourceOfStore DEF BuildAPIStore
  <1>2. \/ BuildSSEClient = {} /\ pc' = "panicked" /\ UNCHANGED stores
        \/ AddStore(<<>>, 0) /\ UNCHANGED pc
    BY DEF BuildAPIStore
  <1>3. PanicsForKnownReasons'
    <2>1. CASE BuildSSEClient = {} /\ pc' = "panicked" /\ UNCHANGED stores
      <3>1. PrefabAPIURLEnvVarOrSetting(options, env) \in {NoValue, <<>>}
        BY <2>1 DEF BuildSSEClient
      <3>2. source' = source
        BY <1>1, <2>1 DEF source
      <3>3. PrefabAPIURLEnvVarOrSetting(options, env)' \in {NoValue, <<>>}
        BY <1>1, <3>1
      <3> QED
        BY <1>1, <2>1, <3>2, <3>3 DEF PanicsForKnownReasons
    <2>2. CASE UNCHANGED pc
      BY <1>1, <2>2 DEF PanicsForKnownReasons
    <2> QED
      BY <1>2, <2>1, <2>2
  <1>4. pc' \in {"stores", "panicked"}
    BY <1>1, <1>2
  <1>5. \/ UNCHANGED stores
        \/ \E map, id : /\ AddStore(map, id)
                        /\ IF source.store = "API" THEN map = <<>> ELSE Meant(source, map)
    BY <1>1, <1>2
  <1> QED
    BY <1>1, <1>3, <1>4, <1>5, BuildStepsMean

LEMMA BuildLocalStoreMeans ==
    ASSUME NewClientInv, MeantInv, BuildLocalStore
    PROVE  MeantInv'
  <1>1. /\ pc = "stores" /\ Len(stores) < Len(options.Sources) /\ source.store = "DataFile"
        /\ UNCHANGED <<options, env, parsed>>
    BY SourceOfStore DEF BuildLocalStore
  <1>2. PICK file : file = ReadFile(source.path)
    OBVIOUS
  <1>3. \/ pc' = "failed" /\ UNCHANGED stores
        \/ /\ file.suffix = "json" /\ file.content.projectEnvID = NoValue
           /\ pc' = "panicked" /\ UNCHANGED stores
        \/ /\ file # NoValue /\ file.content # NoValue /\ file.suffix = "json"
           /\ AddStore(MapOf(file.content.configs, DOMAIN file.content.configs),
                       file.content.projectEnvID)
           /\ UNCHANGED pc
        \/ /\ IsYaml(file)
           /\ frames' = <<[path |-> <<>>, map |-> file.content.v, left |-> DOMAIN file.content.v]>>
           /\ pc' = "yaml" /\ UNCHANGED stores
    <2>1. CASE file = NoValue \/ file.suffix \notin {"json", "yaml", "yml"} \/ file.content = NoValue
      BY <1>2, <2>1 DEF BuildLocalStore
    <2>2. CASE /\ file # NoValue /\ file.content # NoValue /\ file.suffix = "json"
               /\ file.content.projectEnvID = NoValue
      BY <1>2, <2>2 DEF BuildLocalStore
    <2>3. CASE /\ file # NoValue /\ file.content # NoValue /\ file.suffix = "json"
               /\ file.content.projectEnvID # NoValue
      BY <1>2, <2>3 DEF BuildLocalStore
    <2>4. CASE IsYaml(file)
      BY <1>2, <2>4 DEF BuildLocalStore, IsYaml
    <2> QED
      BY <2>1, <2>2, <2>3, <2>4 DEF IsYaml
  <1>4. CASE pc' = "failed" /\ UNCHANGED stores
    <2>1. PanicsForKnownReasons'
      BY <1>4 DEF PanicsForKnownReasons
    <2> QED
      BY <1>1, <1>4, <2>1, BuildStepsMean
  <1>5. CASE /\ file.suffix = "json" /\ file.content.projectEnvID = NoValue
             /\ pc' = "panicked" /\ UNCHANGED stores
    <2>1. source' = source
      BY <1>1, <1>5 DEF source
    <2>2. PanicsForKnownReasons'
      BY <1>1, <1>2, <1>5, <2>1 DEF PanicsForKnownReasons
    <2> QED
      BY <1>1, <1>5, <2>2, BuildStepsMean
  <1>6. CASE /\ file # NoValue /\ file.content # NoValue /\ file.suffix = "json"
             /\ AddStore(MapOf(file.content.configs, DOMAIN file.content.configs),
                         file.content.projectEnvID)
             /\ UNCHANGED pc
    <2>1. Meant(source, MapOf(file.content.configs, DOMAIN file.content.configs))
      BY <1>1, <1>2, <1>6, JsonIsMeant
    <2>2. PanicsForKnownReasons'
      BY <1>1, <1>6 DEF PanicsForKnownReasons
    <2>3. \E map, id : /\ AddStore(map, id)
                      /\ IF source.store = "API" THEN map = <<>> ELSE Meant(source, map)
      BY <1>1, <1>6, <2>1
    <2> QED
      BY <1>1, <1>6, <2>2, <2>3, BuildStepsMean
  <1>7. CASE /\ IsYaml(file)
             /\ frames' = <<[path |-> <<>>, map |-> file.content.v, left |-> DOMAIN file.content.v]>>
             /\ pc' = "yaml" /\ UNCHANGED stores
    <2>1. PICK frame : frame = [path |-> <<>>, map |-> file.content.v, left |-> DOMAIN file.content.v]
      OBVIOUS
    <2>2. Len(frames') = 1 /\ IsList(frames') /\ ToSet(frames') = {frame}
      BY <1>7, <2>1, OneElement
    <2>3. parsed = <<>>
      BY <1>1 DEF MeantInv, ParsingInv
    <2>4. IsList(parsed') /\ ToSet(parsed') = {}
      BY <1>1, <2>3, NoElement DEF ToSet
    <2>5. source' = source
      BY <1>1, <1>7 DEF source
    <2>6. Progress(file.content, {frame}, {})
      BY <2>1, ProgressStarts
    <2>7. frames' # <<>>
      BY <2>2
    <2>8. ParsingInv'
      BY <1>2, <1>7, <2>2, <2>4, <2>5, <2>6, <2>7 DEF ParsingInv
    <2>9. StoresMeant'
      BY <1>1, <1>7, StoresMeantStay DEF MeantInv
    <2>10. PanicsForKnownReasons'
      BY <1>7 DEF PanicsForKnownReasons
    <2> QED
      BY <2>8, <2>9, <2>10 DEF MeantInv
  <1> QED
    BY <1>3, <1>4, <1>5, <1>6, <1>7

LEMMA BuildDumpStoreMeans ==
    ASSUME NewClientInv, MeantInv, BuildDumpStore
    PROVE  MeantInv'
  <1>1. /\ pc = "stores" /\ Len(stores) < Len(options.Sources) /\ source.store = "ConfigDump"
        /\ UNCHANGED <<options, parsed>>
    BY SourceOfStore DEF BuildDumpStore
  <1>2. PICK file : file = ReadFile(source.path)
    OBVIOUS
  <1>3. \/ pc' = "failed" /\ UNCHANGED stores
        \/ /\ file # NoValue /\ file.content # NoValue /\ "wrappers" \in DOMAIN file.content
           /\ AddStore(MapOf(Unwrapped(file.content.wrappers), Kept(file.content.wrappers)),
                       options.ProjectEnvID)
           /\ UNCHANGED pc
    BY <1>2 DEF BuildDumpStore
  <1>4. pc' \in {"stores", "failed"}
    BY <1>1, <1>3
  <1>5. \/ UNCHANGED stores
        \/ \E map, id : /\ AddStore(map, id)
                        /\ IF source.store = "API" THEN map = <<>> ELSE Meant(source, map)
    <2>1. CASE UNCHANGED stores
      BY <2>1
    <2>2. CASE /\ file # NoValue /\ file.content # NoValue /\ "wrappers" \in DOMAIN file.content
               /\ AddStore(MapOf(Unwrapped(file.content.wrappers), Kept(file.content.wrappers)),
                           options.ProjectEnvID)
      <3>1. Meant(source, MapOf(Unwrapped(file.content.wrappers), Kept(file.content.wrappers)))
        BY <1>1, <1>2, <2>2, DumpIsMeant
      <3> QED
        BY <1>1, <2>2, <3>1
    <2> QED
      BY <1>3, <2>1, <2>2
  <1>6. PanicsForKnownReasons'
    BY <1>4 DEF PanicsForKnownReasons
  <1> QED
    BY <1>1, <1>4, <1>5, <1>6, BuildStepsMean

LEMMA BuildMemoryStoreMeans ==
    ASSUME NewClientInv, MeantInv, BuildMemoryStore
    PROVE  MeantInv'
  <1> DEFINE map == [k \in DOMAIN options.Configs |-> MemoryConfig(k, options.Configs[k])]
  <1>1. /\ pc = "stores" /\ Len(stores) < Len(options.Sources) /\ source.store = "Memory"
        /\ UNCHANGED <<options, parsed>>
    BY SourceOfStore DEF BuildMemoryStore
  <1>2. \/ pc' = "failed" /\ UNCHANGED stores
        \/ pc' = "panicked" /\ UNCHANGED stores /\ \E k \in DOMAIN options.Configs : CreatePanics(options.Configs[k])
        \/ AddStore(map, options.ProjectEnvID) /\ UNCHANGED pc
    BY DEF BuildMemoryStore
  <1>3. pc' \in {"stores", "failed", "panicked"}
    BY <1>1, <1>2
  <1>4. \/ UNCHANGED stores
        \/ \E m, id : /\ AddStore(m, id)
                      /\ IF source.store = "API" THEN m = <<>> ELSE Meant(source, m)
    <2>1. Meant(source, map)
      BY <1>1, MemoryIsMeant
    <2> HIDE DEF map
    <2> QED
      BY <1>1, <1>2, <2>1
  <1>5. PanicsForKnownReasons'
    <2>1. CASE pc' # "panicked"
      BY <2>1 DEF PanicsForKnownReasons
    <2>2. CASE pc' = "panicked"
      <3>1. UNCHANGED stores
        BY <1>1, <1>2, <2>2
      <3>2. PICK k \in DOMAIN options.Configs : CreatePanics(options.Configs[k])
        BY <1>1, <1>2, <2>2
      <3>3. PICK x : x = options.Configs[k]
        OBVIOUS
      <3>4. IsNils(x)
        BY <3>2, <3>3 DEF CreatePanics, CanonicalizePanics, ToSet, IsNils
      <3>5. Len(stores') < Len(options'.Sources) /\ source'.store = "Memory" /\ k \in DOMAIN options'.Configs /\ options'.Configs[k] = x
        BY <1>1, <3>1, <3>3 DEF source
      <3> QED
        BY <3>4, <3>5 DEF PanicsForKnownReasons
    <2> QED
      BY <2>1, <2>2
  <1> HIDE DEF map
  <1> QED
    BY <1>1, <1>3, <1>4, <1>5, BuildStepsMean

\* What the parser is at, when it looks at the innermost map.
LEMMA ParserAt ==
    ASSUME NewClientInv, MeantInv, pc = "yaml", NEW tree, tree = ReadFile(source.path).content
    PROVE  /\ Len(stores) < Len(options.Sources) /\ source.store = "DataFile"
           /\ IsYaml(ReadFile(source.path))
           /\ InnerMaps(Maps(tree)) \subseteq Maps(tree)
           /\ IsList(frames) /\ frames # <<>> /\ IsList(parsed)
           /\ IsList(Front(frames)) /\ ToSet(frames) = ToSet(Front(frames)) \cup {Last(frames)}
           /\ IF Len(frames) > 1 THEN Front(frames) # <<>> ELSE ToSet(Front(frames)) = {}
           /\ Progress(tree, ToSet(Front(frames)) \cup {Last(frames)}, ToSet(parsed))
           /\ IsFrame(tree, Last(frames))
           /\ \A name \in Last(frames).left : IsPlace(Where(Last(frames)), name)
  <1>1. /\ IsYaml(ReadFile(source.path)) /\ IsList(frames) /\ frames # <<>> /\ IsList(parsed)
        /\ Progress(tree, ToSet(frames), ToSet(parsed))
    BY DEF MeantInv, ParsingInv
  <1>2. /\ IsList(Front(frames)) /\ ToSet(frames) = ToSet(Front(frames)) \cup {Last(frames)}
        /\ IF Len(frames) > 1 THEN Front(frames) # <<>> ELSE ToSet(Front(frames)) = {}
    BY <1>1, FrontAndLast
  <1>3. PICK path : path = source.path
    OBVIOUS
  <1>4. /\ InnerMaps(Maps(tree)) \subseteq Maps(tree)
        /\ \A m \in Maps(tree) :
              /\ m.path \in Seq(STRING)
              /\ \A name \in DOMAIN m.map : name \in Seq(STRING) \ {<<>>}
    BY <1>1, <1>3, YamlMaps
  <1>5. Progress(tree, ToSet(Front(frames)) \cup {Last(frames)}, ToSet(parsed))
    BY <1>1, <1>2
  <1>6. PICK frame : frame = Last(frames)
    OBVIOUS
  <1>7. IsFrame(tree, frame)
    BY <1>5, <1>6 DEF Progress
  <1>8. ASSUME NEW name \in frame.left PROVE IsPlace(Where(frame), name)
    <2>1. PICK m \in Maps(tree) : m = Where(frame) /\ m.path = frame.path /\ m.map = frame.map
      BY <1>7 DEF IsFrame, Where
    <2>2. name \in DOMAIN m.map
      BY <1>7, <1>8, <2>1 DEF IsFrame
    <2>3. name # <<"_">> \/ m.path = <<>>
      BY <1>7, <1>8, <2>1, Zenon DEF IsFrame
    <2>4. m.path \in Seq(STRING) /\ name \in Seq(STRING) \ {<<>>}
      BY <1>4, <2>2, Zenon
    <2> QED
      BY <2>1, <2>3, <2>4, Zenon DEF IsPlace
  <1>9. Len(stores) < Len(options.Sources) /\ source.store = "DataFile"
    BY DEF NewClientInv, StoresInv
  <1> QED
    BY <1>1, <1>2, <1>4, <1>5, <1>6, <1>7, <1>8, <1>9

\* A list of nils that makes the parser panic is one of the file's values.
LEMMA PanicsAreOfLeaves ==
    ASSUME NEW tree, InnerMaps(Maps(tree)) \subseteq Maps(tree),
           NEW m \in Maps(tree), NEW name \in DOMAIN m.map, IsPlace(m, name),
           NEW node, node = m.map[name], HasPanic(m.path, name, node)
    PROVE  ConvertsNils(tree)
  <1>0. \A x : CreatePanics(x) => IsNils(x)
    BY DEF CreatePanics, CanonicalizePanics, IsNils, ToSet
  <1>1. ASSUME NEW m_ \in Maps(tree), NEW n \in DOMAIN m_.map, NEW leaf \in LeafAt(m_, n),
               CreatePanics(leaf.x), IsFlag(m_.map[n]) \/ leaf.key[1] # "log-level"
        PROVE  ConvertsNils(tree)
    BY <1>0, <1>1 DEF ConvertsNils
  <1>2. CASE CreatePanics(node)
    <2>1. node.kind = "slice" /\ ~IsFlag(node)
      BY <1>2 DEF CreatePanics, IsFlag
    <2>2. LeafAt(m, name) = {[key |-> m.path \o name, x |-> node]}
      BY <2>1 DEF LeafAt, IsPlace
    <2>3. PICK leaf : leaf = [key |-> m.path \o name, x |-> node]
      OBVIOUS
    <2>4. leaf \in LeafAt(m, name) /\ leaf.x = node /\ leaf.key[1] # "log-level"
      BY <2>1, <2>2, <2>3 DEF HasPanic
    <2> QED
      BY <1>1, <1>2, <2>4
  <1>3. ASSUME NEW v \in OwnValues(name, node), CreatePanics(node.v[v])
        PROVE  ConvertsNils(tree)
    <2>1. CASE IsFlag(node)
      <3>1. v = <<"value">> /\ v \in DOMAIN node.v
        BY <1>3, <2>1 DEF OwnValues, IsFlag
      <3>2. LeafAt(m, name) = {[key |-> name, x |-> node.v[w]] : w \in {<<"value">>} \cap DOMAIN node.v}
        BY <2>1 DEF LeafAt, IsPlace, IsFlag
      <3>3. PICK leaf : leaf = [key |-> name, x |-> node.v[v]]
        OBVIOUS
      <3>4. leaf \in LeafAt(m, name) /\ leaf.x = node.v[v]
        BY <3>1, <3>2, <3>3
      <3> QED
        BY <1>1, <1>3, <2>1, <3>4
    <2>2. CASE ~IsFlag(node)
      <3>1. node.kind = "map" /\ v = <<"_">> /\ v \in DOMAIN node.v
        BY <1>3, <2>2 DEF OwnValues
      <3>2. IsNested(m, name)
        BY <2>2, <3>1 DEF IsNested, IsPlace
      <3>3. PICK inner \in Maps(tree) : inner = Inner(m, name)
        BY <3>2, MapsOfMaps
      <3>4. inner.path = m.path \o name /\ inner.map = node.v
        BY <3>3 DEF Inner
      <3>5. inner.path # <<>>
        BY <3>4, PathsAreNotEmpty
      <3>6. LeafAt(inner, v) = {[key |-> inner.path, x |-> inner.map[v]]}
        BY <3>1, <3>5 DEF LeafAt
      <3>7. PICK leaf : leaf = [key |-> inner.path, x |-> inner.map[v]]
        OBVIOUS
      <3>8. /\ leaf \in LeafAt(inner, v) /\ v \in DOMAIN inner.map
            /\ leaf.x = node.v[v] /\ leaf.key[1] # "log-level"
        BY <2>2, <3>1, <3>4, <3>6, <3>7 DEF HasPanic
      <3> QED
        BY <1>1, <1>3, <3>8
    <2> QED
      BY <2>1, <2>2
  <1> QED
    BY <1>2, <1>3 DEF HasPanic

LEMMA handleMapKeyValueMeans ==
    ASSUME NewClientInv, MeantInv, handleMapKeyValue
    PROVE  MeantInv'
  <1>1. pc = "yaml" /\ UNCHANGED <<options, stores>> /\ frames # <<>>
    BY DEF handleMapKeyValue
  <1>2. PICK frame : frame = Last(frames)
    OBVIOUS
  <1>3. PICK tree : tree = ReadFile(source.path).content
    OBVIOUS
  <1>4. PICK name, node, own :
           /\ name \in frame.left
           /\ node = frame.map[name] /\ own = OwnConfigs(frame.path, name, node)
           /\ \/ HasPanic(frame.path, name, node) /\ pc' = "panicked" /\ UNCHANGED <<frames, parsed>>
              \/ pc' = "failed" /\ UNCHANGED <<frames, parsed>>
              \/ /\ NoValue \notin ToSet(own)
                 /\ frames' = (Front(frames) \o <<[frame EXCEPT !.left = @ \ {name}]>>)
                                \o Descend(frame.path, name, node)
                 /\ parsed' = parsed \o own
                 /\ UNCHANGED pc
    <2>1. PICK name \in frame.left :
             LET node == frame.map[name]
                 own  == OwnConfigs(frame.path, name, node)
             IN  \/ HasPanic(frame.path, name, node) /\ pc' = "panicked" /\ UNCHANGED <<frames, parsed>>
                 \/ pc' = "failed" /\ UNCHANGED <<frames, parsed>>
                 \/ /\ NoValue \notin ToSet(own)
                    /\ frames' = (Front(frames) \o <<[frame EXCEPT !.left = @ \ {name}]>>)
                                   \o Descend(frame.path, name, node)
                    /\ parsed' = parsed \o own
                    /\ UNCHANGED pc
      BY <1>2 DEF handleMapKeyValue
    <2> QED
      BY <2>1
  <1>5. source' = source
    BY <1>1 DEF source
  <1>6. StoresMeant'
    BY <1>1, StoresMeantStay DEF MeantInv
  <1>7. /\ source.store = "DataFile" /\ IsYaml(ReadFile(source.path))
        /\ InnerMaps(Maps(tree)) \subseteq Maps(tree)
        /\ IsList(parsed) /\ IsList(Front(frames))
        /\ Progress(tree, ToSet(Front(frames)) \cup {frame}, ToSet(parsed))
        /\ IsFrame(tree, frame) /\ IsPlace(Where(frame), name)
        /\ Len(stores) < Len(options.Sources)
    BY <1>1, <1>2, <1>3, <1>4, ParserAt
  <1>8. CASE HasPanic(frame.path, name, node) /\ pc' = "panicked" /\ UNCHANGED <<frames, parsed>>
    <2>1. PICK m \in Maps(tree) : m = Where(frame) /\ m.map = frame.map /\ m.path = frame.path
      BY <1>7 DEF IsFrame, Where
    <2>2. name \in DOMAIN m.map /\ node = m.map[name]
      BY <1>4, <1>7, <2>1 DEF IsFrame
    <2>3. HasPanic(m.path, name, node) /\ IsPlace(m, name)
      BY <1>7, <1>8, <2>1
    <2>4. ConvertsNils(tree)
      BY <1>7, <2>2, <2>3, PanicsAreOfLeaves
    <2>5. /\ frames' # <<>> /\ source'.store = "DataFile" /\ ReadFile(source'.path).content = tree
          /\ Len(stores') < Len(options'.Sources)
      BY <1>1, <1>3, <1>5, <1>7, <1>8
    <2>6. PanicsForKnownReasons'
      BY <2>4, <2>5 DEF PanicsForKnownReasons
    <2>7. ParsingInv'
      BY <1>8 DEF ParsingInv
    <2> QED
      BY <1>6, <2>6, <2>7 DEF MeantInv
  <1>9. CASE pc' = "failed" /\ UNCHANGED <<frames, parsed>>
    <2>1. PanicsForKnownReasons' /\ ParsingInv'
      BY <1>9 DEF PanicsForKnownReasons, ParsingInv
    <2> QED
      BY <1>6, <2>1 DEF MeantInv
  <1>10. CASE /\ NoValue \notin ToSet(own)
              /\ frames' = (Front(frames) \o <<[frame EXCEPT !.left = @ \ {name}]>>)
                             \o Descend(frame.path, name, node)
              /\ parsed' = parsed \o own
              /\ UNCHANGED pc
    <2>1. PICK rest : rest = [frame EXCEPT !.left = @ \ {name}]
      OBVIOUS
    <2>2. PICK inner : inner = Descend(frame.path, name, node)
      OBVIOUS
    <2>3. PICK outer : outer = Front(frames)
      OBVIOUS
    <2>4. /\ Progress(tree, (ToSet(outer) \cup {rest}) \cup ToSet(inner), ToSet(parsed) \cup ToSet(own))
          /\ IsList(own) /\ IsList(inner)
      <3>1. Takes(tree, frame, name, rest, own, inner)
        <4>1. Where(rest) = Where(frame) /\ rest.left = frame.left \ {name} /\ IsFrame(tree, rest)
          BY <1>7, <2>1, FrameWithout
        <4> QED
          BY <1>4, <1>7, <1>10, <2>2, <4>1 DEF Takes
      <3>2. PICK frames_ : frames_ = ToSet(outer)
        OBVIOUS
      <3>3. PICK configs : configs = ToSet(parsed)
        OBVIOUS
      <3>4. Progress(tree, frames_ \cup {frame}, configs)
        BY <1>7, <2>3, <3>2, <3>3
      <3>5. /\ Progress(tree, (frames_ \cup {rest}) \cup ToSet(inner), configs \cup ToSet(own))
            /\ IsList(own) /\ IsList(inner)
        BY <1>7, <3>1, <3>4, ProgressGoesOn
      <3> QED
        BY <3>2, <3>3, <3>5
    <2>5. PICK middle : middle = <<rest>>
      OBVIOUS
    <2>6. IsList(middle) /\ ToSet(middle) = {rest}
      BY <2>5, OneElement
    <2>7. PICK both : both = outer \o middle
      OBVIOUS
    <2>8. IsList(both) /\ ToSet(both) = ToSet(outer) \cup {rest}
      <3>1. IsList(outer)
        BY <1>7, <2>3
      <3>2. IsList(both) /\ ToSet(both) = ToSet(outer) \cup ToSet(middle)
        BY <2>6, <2>7, <3>1, JoinedElements
      <3> QED
        BY <2>6, <3>2
    <2>9. frames' = both \o inner
      BY <1>10, <2>1, <2>2, <2>3, <2>5, <2>7
    <2>10. IsList(frames') /\ ToSet(frames') = (ToSet(outer) \cup {rest}) \cup ToSet(inner)
      <3>1. PICK all : all = both \o inner
        OBVIOUS
      <3>2. IsList(all) /\ ToSet(all) = ToSet(both) \cup ToSet(inner)
        <4>1. IsList(both) /\ IsList(inner)
          BY <2>4, <2>8
        <4> QED
          BY <3>1, <4>1, JoinedElements
      <3> QED
        BY <2>8, <2>9, <3>1, <3>2
    <2>11. IsList(parsed') /\ ToSet(parsed') = ToSet(parsed) \cup ToSet(own)
      <3>1. PICK all, configs : all = configs \o own /\ configs = parsed
        OBVIOUS
      <3>2. IsList(all) /\ ToSet(all) = ToSet(configs) \cup ToSet(own)
        BY <1>7, <2>4, <3>1, JoinedElements
      <3> QED
        BY <1>10, <3>1, <3>2
    <2>12. frames' # <<>>
      <3>1. rest \in ToSet(frames')
        BY <2>10
      <3>2. ToSet(<<>>) = {}
        BY NoElement DEF ToSet
      <3> QED
        BY <3>1, <3>2
    <2>13. Progress(tree, ToSet(frames'), ToSet(parsed'))
      BY <2>4, <2>10, <2>11
    <2>14. ParsingInv'
      BY <1>1, <1>3, <1>5, <1>7, <1>10, <2>10, <2>11, <2>12, <2>13 DEF ParsingInv
    <2>15. PanicsForKnownReasons'
      BY <1>1, <1>10 DEF PanicsForKnownReasons
    <2> QED
      BY <1>6, <2>14, <2>15 DEF MeantInv
  <1> QED
    BY <1>4, <1>8, <1>9, <1>10

LEMMA MapDoneMeans ==
    ASSUME NewClientInv, MeantInv, MapDone
    PROVE  MeantInv'
  <1>1. /\ pc = "yaml" /\ UNCHANGED options /\ Last(frames).left = {}
        /\ frames' = Front(frames)
        /\ IF Len(frames) > 1 THEN UNCHANGED <<pc, stores, parsed>>
           ELSE AddStore(MapOf(parsed, DOMAIN parsed), 0) /\ parsed' = <<>> /\ pc' = "stores"
    BY DEF MapDone
  <1>2. PICK tree : tree = ReadFile(source.path).content
    OBVIOUS
  <1>3. /\ Len(stores) < Len(options.Sources) /\ source.store = "DataFile"
        /\ IsYaml(ReadFile(source.path))
        /\ IsList(parsed) /\ IsList(Front(frames))
        /\ IF Len(frames) > 1 THEN Front(frames) # <<>> ELSE ToSet(Front(frames)) = {}
        /\ Progress(tree, ToSet(Front(frames)) \cup {Last(frames)}, ToSet(parsed))
    BY <1>1, <1>2, ParserAt
  <1>4. Progress(tree, ToSet(Front(frames)), ToSet(parsed))
    <2>1. PICK frame : frame = Last(frames)
      OBVIOUS
    <2>2. PICK frames_ : frames_ = ToSet(Front(frames))
      OBVIOUS
    <2> QED
      BY <1>1, <1>3, <2>1, <2>2, ProgressOfMapDone
  <1>5. PanicsForKnownReasons'
    BY <1>1 DEF PanicsForKnownReasons
  <1>6. CASE Len(frames) > 1
    <2>1. source' = source
      BY <1>1, <1>6 DEF source
    <2>2. StoresMeant'
      BY <1>1, <1>6, StoresMeantStay DEF MeantInv
    <2>3. ParsingInv'
      BY <1>1, <1>2, <1>3, <1>4, <1>6, <2>1 DEF ParsingInv
    <2> QED
      BY <1>5, <2>2, <2>3 DEF MeantInv
  <1>7. CASE ~(Len(frames) > 1)
    <2>1. PICK file : file = ReadFile(source.path)
      OBVIOUS
    <2>2. Progress(file.content, {}, ToSet(parsed))
      BY <1>2, <1>3, <1>4, <1>7, <2>1
    <2>3. PICK configs : configs = parsed
      OBVIOUS
    <2>4. Meant(source, MapOf(configs, DOMAIN configs))
      BY <1>3, <2>1, <2>2, <2>3, YamlIsMeant
    <2>5. PICK map : map = MapOf(configs, DOMAIN configs)
      OBVIOUS
    <2>6. AddStore(map, 0) /\ parsed' = <<>> /\ pc' = "stores"
      BY <1>1, <1>7, <2>3, <2>5
    <2>7. StoresMeant'
      BY <1>1, <1>3, <2>4, <2>5, <2>6, MeantStoreAdded DEF MeantInv
    <2>8. ParsingInv'
      BY <2>6 DEF ParsingInv
    <2> QED
      BY <1>5, <2>7, <2>8 DEF MeantInv
  <1> QED
    BY <1>6, <1>7

LEMMA MakeClientMeans ==
    ASSUME NewClientInv, MeantInv, MakeClient
    PROVE  MeantInv'
  <1>1. /\ UNCHANGED <<options, stores>> /\ pc' \in {"panicked", "failed", "ready"}
        /\ Len(stores) = Len(options.Sources)
        /\ pc' = "panicked" => \/ options.Sources = <<>>
                               \/ TelemetryEnabled(options) /\ options.TelemetrySyncInterval <= 0
    BY DEF MakeClient, TickerPanics
  <1>2. StoresMeant'
    BY <1>1, StoresMeantStay DEF MeantInv
  <1>3. ParsingInv'
    BY <1>1 DEF ParsingInv
  <1>4. PanicsForKnownReasons'
    BY <1>1 DEF PanicsForKnownReasons
  <1> QED
    BY <1>2, <1>3, <1>4 DEF MeantInv

LEMMA LoadMeans ==
    ASSUME NewClientInv, MeantInv, Load
    PROVE  MeantInv'
  <1>1. pc = "ready" /\ UNCHANGED <<options, pc>>
    BY DEF Load
  <1>2. PICK i \in DOMAIN options.Sources :
           /\ options.Sources[i].store = "API"
           /\ stores' = stores \/ stores' = [stores EXCEPT ![i].configMap = ServerConfigs]
    BY DEF Load
  <1>3. IsList(stores) /\ DOMAIN stores = 1 .. Len(stores)
    BY ListsAreSequences DEF NewClientInv, StoresInv
  <1>4. CASE stores' = stores
    BY <1>1, <1>4, StoresMeantStay DEF MeantInv, ParsingInv, PanicsForKnownReasons
  <1>5. CASE stores' = [stores EXCEPT ![i].configMap = ServerConfigs]
    <2>1. PICK store : store = [stores[i] EXCEPT !.configMap = ServerConfigs]
      OBVIOUS
    <2>2. stores' = [stores EXCEPT ![i] = store]
      BY <1>5, <2>1
    <2>3. Len(stores') = Len(stores)
          /\ \A j \in 1 .. Len(stores) : stores'[j] = IF j = i THEN store ELSE stores[j]
      BY <1>3, <2>2, ListSteps
    <2>4. ASSUME NEW j \in 1 .. Len(stores'), NEW s, NEW m,
                 s = options.Sources[j], m = stores'[j].configMap
          PROVE  /\ "configMap" \in DOMAIN stores'[j]
                 /\ IF s.store = "API" THEN m \in {<<>>, ServerConfigs} ELSE Meant(s, m)
      <3>1. "configMap" \in DOMAIN stores[j]
            /\ \A m_ : m_ = stores[j].configMap =>
                  IF s.store = "API" THEN m_ \in {<<>>, ServerConfigs} ELSE Meant(s, m_)
        BY <2>3, <2>4 DEF MeantInv, StoresMeant
      <3>2. CASE j = i
        <4>1. DOMAIN store = DOMAIN stores[i] /\ store.configMap = ServerConfigs
          BY <2>1, <3>1, <3>2
        <4> QED
          BY <1>2, <2>3, <2>4, <3>1, <3>2, <4>1
      <3>3. CASE j # i
        BY <2>3, <2>4, <3>1, <3>3
      <3> QED
        BY <3>2, <3>3
    <2>5. \A s, m : Meant(s, m) => Meant(s, m)'
      BY <1>1, MeantStays
    <2>6. StoresMeant'
      BY <1>1, <2>4, <2>5 DEF StoresMeant
    <2>7. ParsingInv' /\ PanicsForKnownReasons'
      BY <1>1 DEF ParsingInv, PanicsForKnownReasons
    <2> QED
      BY <2>6, <2>7 DEF MeantInv
  <1> QED
    BY <1>2, <1>4, <1>5

LEMMA MeantInvariant == Spec => [](NewClientInv /\ MeantInv)
<1>1. Init => MeantInv
  <2> SUFFICES ASSUME Init PROVE MeantInv
    OBVIOUS
  <2>1. pc = "options" /\ stores = <<>> /\ parsed = <<>>
    BY DEF Init
  <2>2. StoresMeant
    BY <2>1 DEF StoresMeant
  <2>3. ParsingInv /\ PanicsForKnownReasons
    BY <2>1 DEF ParsingInv, PanicsForKnownReasons
  <2> QED
    BY <2>2, <2>3 DEF MeantInv
<1>2. NewClientInv /\ MeantInv /\ [Next]_vars => MeantInv'
  <2> SUFFICES ASSUME NewClientInv, MeantInv, [Next]_vars PROVE MeantInv'
    OBVIOUS
  <2>1. CASE UNCHANGED vars
    <3>1. UNCHANGED <<env, options, pc, stores, frames, parsed>>
      BY <2>1 DEF vars
    <3>2. StoresMeant'
      BY <3>1, StoresMeantStay DEF MeantInv
    <3>3. source' = source
      BY <3>1 DEF source
    <3>4. ParsingInv'
      BY <3>1, <3>3 DEF MeantInv, ParsingInv
    <3>5. PanicsForKnownReasons'
      BY <3>1, <3>3 DEF MeantInv, PanicsForKnownReasons
    <3> QED
      BY <3>2, <3>4, <3>5 DEF MeantInv
  <2> QED
    BY <2>1, OptionsStepsMean, BuildAPIStoreMeans, BuildLocalStoreMeans, BuildDumpStoreMeans,
       BuildMemoryStoreMeans, handleMapKeyValueMeans, MapDoneMeans, MakeClientMeans, LoadMeans DEF Next
<1> QED
  BY <1>1, <1>2, NewClientInvariant, PTL DEF Spec

-----------------------------------------------------------------------------
\* NewClient panics when no source is left (client.go:124), when a list of nils
\* is to be converted (helpers.go:47), when a JSON file has no config service
\* pointer (local_config_json_parser.go:19) and when there is no URL
\* (apiconfigstore.go:32-38), and never otherwise: whatever the options, the
\* environment and the files are.
THEOREM PanicsAreKnown == Spec => []PanicsForKnownReasons
<1>1. MeantInv => PanicsForKnownReasons
  BY DEF MeantInv
<1> QED
  BY <1>1, MeantInvariant, PTL

\* A client serves every key that some source declares, with a value that the
\* first such source gives it (composite_config_store.go:8-12), and no other
\* key: whatever the files are, and in whatever order the maps of YAML in them
\* are iterated.
THEOREM FirstSourceIsServed == Spec => []FirstSourceWins
<1>1. NewClientInv /\ MeantInv => FirstSourceWins
  <2> SUFFICES ASSUME NewClientInv, MeantInv, Served, NEW k, NEW declaring,
                      declaring = {i \in DOMAIN options.Sources : Declared(options.Sources[i], k) # {}}
               PROVE  /\ k \in Keys <=> declaring # {}
                      /\ k \in Keys =>
                            GetConfig(k).value \in Declared(options.Sources[Min(declaring)], k)
    BY DEF FirstSourceWins
  <2>1. /\ pc = "ready" /\ Len(stores) \in Nat /\ DOMAIN stores = 1 .. Len(stores)
        /\ DOMAIN options.Sources = 1 .. Len(stores)
    BY ListsAreSequences DEF Served, NewClientInv, StoresInv, OptionsInv, GoodOptions
  <2>2. ASSUME NEW i \in DOMAIN stores
        PROVE  Meant(options.Sources[i], stores[i].configMap)
    <3>1. CASE options.Sources[i].store = "API"
      <4>1. stores[i].configMap = ServerConfigs
        BY <2>1, <2>2, <3>1 DEF Served, MeantInv, StoresMeant
      <4>2. \A k_ : Declared(options.Sources[i], k_) = {ServerConfigs[j].value : j \in {k_} \cap DOMAIN ServerConfigs}
        BY <3>1 DEF Declared
      <4> QED
        BY <4>1, <4>2 DEF Meant
    <3>2. CASE options.Sources[i].store # "API"
      BY <2>1, <2>2, <3>2 DEF MeantInv, StoresMeant
    <3> QED
      BY <3>1, <3>2
  <2>3. \A i \in DOMAIN stores :
           /\ k \in DOMAIN stores[i].configMap <=> Declared(options.Sources[i], k) # {}
           /\ k \in DOMAIN stores[i].configMap =>
                 stores[i].configMap[k].value \in Declared(options.Sources[i], k)
    BY <2>2 DEF Meant
  <2>4. Holders(k) = declaring
    BY <2>1, <2>3 DEF Holders
  <2>5. k \in Keys <=> Holders(k) # {}
    BY DEF Keys, Holders
  <2>6. ASSUME k \in Keys
        PROVE  GetConfig(k).value \in Declared(options.Sources[Min(declaring)], k)
    <3>1. PICK first : first = Min(Holders(k))
      OBVIOUS
    <3>2. first \in Holders(k)
      <4>1. PICK S \in SUBSET Nat : S = Holders(k)
        <5>1. Holders(k) \subseteq DOMAIN stores
          BY DEF Holders
        <5>2. Holders(k) \subseteq Nat
          BY <2>1, <5>1
        <5> QED
          BY <5>2
      <4>2. S # {}
        BY <2>5, <2>6, <4>1
      <4> QED
        BY <3>1, <4>1, <4>2, MinIsLeast
    <3>3. GetConfig(k) = stores[first].configMap[k]
      BY <2>5, <2>6, <3>1 DEF GetConfig
    <3>4. first \in DOMAIN stores /\ k \in DOMAIN stores[first].configMap
      BY <3>2 DEF Holders
    <3> QED
      BY <2>3, <2>4, <3>1, <3>3, <3>4
  <2> QED
    BY <2>4, <2>5, <2>6
<1> QED
  BY <1>1, MeantInvariant, PTL
=============================================================================
