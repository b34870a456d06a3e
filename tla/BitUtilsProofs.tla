--------------------------- MODULE BitUtilsProofs ---------------------------
(***************************************************************************)
(* BitUtils implements BitField, for words of every width: what masks and  *)
(* shifts of numbers do to the digits of a number.                         *)
(***************************************************************************)
EXTENDS BitUtils, WellFoundedInduction, TLAPS

-----------------------------------------------------------------------------
(* Induction, as a fact about a set.                                       *)

\* A set that holds 0, and with each number the next, holds every number.
LEMMA Induction ==
    ASSUME NEW T, 0 \in T, \A n \in Nat : n \in T => n + 1 \in T
    PROVE  \A n \in Nat : n \in T
<1> DEFINE Missing == {n \in Nat : n \notin T}
<1>1. ASSUME Missing # {} PROVE FALSE
  <2>1. PICK m \in Missing : \A k \in Missing : ~ (<<k, m>> \in OpToRel(<, Nat))
    <3>1. Missing \in SUBSET Nat
      OBVIOUS
    <3> HIDE DEF Missing
    <3>2. QED
      BY <1>1, <3>1, WFMin, NatLessThanWellFounded
  <2>2. \A k \in Missing : k \in Nat /\ ~ (k < m)
    BY <2>1 DEF OpToRel
  <2>3. m \in Nat /\ m \notin T
    BY <2>1
  <2>4. m # 0
    BY <2>3
  <2>5. m - 1 \in Nat /\ m - 1 < m /\ (m - 1) + 1 = m
    BY <2>3, <2>4
  <2>6. m - 1 \in T
    BY <2>2, <2>5
  <2>7. QED
    BY <2>3, <2>5, <2>6
<1>2. QED
  BY <1>1

-----------------------------------------------------------------------------
(* Powers of two.                                                          *)

\* The first powers of two, as the equation of their recursive function.
ArePowers(h, last) == h = [n \in 0 .. last |-> IF n = 0 THEN 1 ELSE 2 * h[n - 1]]

Powers(last) == CHOOSE h : ArePowers(h, last)

LEMMA PowersExist == \A last \in Nat : ArePowers(Powers(last), last)
<1> DEFINE T == {last \in Nat : \E h : ArePowers(h, last)}
<1>1. 0 \in T
  <2>1. ArePowers([n \in 0 .. 0 |-> 1], 0)
    BY DEF ArePowers
  <2>2. QED
    BY <2>1
<1>2. ASSUME NEW last \in Nat, last \in T PROVE last + 1 \in T
  <2>1. PICK h : ArePowers(h, last)
    BY <1>2
  <2> DEFINE g == [n \in 0 .. last + 1 |-> IF n \in 0 .. last THEN h[n] ELSE 2 * h[last]]
  <2>2. ASSUME NEW n \in 0 .. last + 1
        PROVE  g[n] = IF n = 0 THEN 1 ELSE 2 * g[n - 1]
    <3>1. CASE n \in 0 .. last
      <4>1. h[n] = IF n = 0 THEN 1 ELSE 2 * h[n - 1]
        BY <2>1, <3>1 DEF ArePowers
      <4>2. n # 0 => n - 1 \in 0 .. last
        BY <3>1
      <4>3. QED
        BY <3>1, <4>1, <4>2
    <3>2. CASE n = last + 1
      BY <3>2
    <3>3. QED
      BY <3>1, <3>2
  <2>3. ArePowers(g, last + 1)
    BY <2>2 DEF ArePowers
  <2>4. QED
    BY <2>3
<1>3. \A last \in Nat : last \in T
  <2> HIDE DEF T
  <2>1. QED
    BY <1>1, <1>2, Induction
<1>4. QED
  BY <1>3 DEF Powers

\* All tables of powers agree.
LEMMA PowersAgree ==
    \A k \in Nat : \A m, n \in Nat : k <= m /\ k <= n => Powers(m)[k] = Powers(n)[k]
<1> DEFINE T == {k \in Nat : \A m, n \in Nat :
                    k <= m /\ k <= n => Powers(m)[k] = Powers(n)[k]}
<1>1. \A m \in Nat : \A k \in 0 .. m : Powers(m)[k] = IF k = 0 THEN 1 ELSE 2 * Powers(m)[k - 1]
  BY PowersExist DEF ArePowers
<1>2. 0 \in T
  BY <1>1
<1>3. ASSUME NEW k \in Nat, k \in T PROVE k + 1 \in T
  <2> SUFFICES ASSUME NEW m \in Nat, NEW n \in Nat, k + 1 <= m, k + 1 <= n
               PROVE  Powers(m)[k + 1] = Powers(n)[k + 1]
    OBVIOUS
  <2>1. Powers(m)[k] = Powers(n)[k]
    BY <1>3
  <2>2. k + 1 \in 0 .. m /\ k + 1 \in 0 .. n /\ k + 1 # 0 /\ (k + 1) - 1 = k
    OBVIOUS
  <2>3. Powers(m)[k + 1] = 2 * Powers(m)[k] /\ Powers(n)[k + 1] = 2 * Powers(n)[k]
    BY <1>1, <2>2
  <2>4. QED
    BY <2>1, <2>3
<1>4. \A k \in Nat : k \in T
  <2> HIDE DEF T
  <2>1. QED
    BY <1>2, <1>3, Induction
<1>5. QED
  BY <1>4

\* The equations of TwoTo have a solution, hence they hold of it.
LEMMA TwoToValue ==
    /\ TwoTo[0] = 1
    /\ \A n \in Nat : TwoTo[n + 1] = 2 * TwoTo[n]
    /\ \A n \in Nat : TwoTo[n] \in Nat \ {0}
<1> DEFINE f == [n \in Nat |-> Powers(n)[n]]
<1>1. \A m \in Nat : \A k \in 0 .. m : Powers(m)[k] = IF k = 0 THEN 1 ELSE 2 * Powers(m)[k - 1]
  BY PowersExist DEF ArePowers
<1>2. ASSUME NEW n \in Nat PROVE f[n] = IF n = 0 THEN 1 ELSE 2 * f[n - 1]
  <2>1. CASE n = 0
    BY <1>1, <2>1
  <2>2. CASE n # 0
    <3>1. n - 1 \in Nat /\ n - 1 <= n /\ n \in 0 .. n
      BY <2>2
    <3>2. Powers(n)[n] = 2 * Powers(n)[n - 1]
      BY <1>1, <2>2, <3>1
    <3>3. Powers(n)[n - 1] = Powers(n - 1)[n - 1]
      BY <3>1, PowersAgree
    <3>4. QED
      BY <2>2, <3>1, <3>2, <3>3
  <2>3. QED
    BY <2>1, <2>2
<1>3. f = [n \in Nat |-> IF n = 0 THEN 1 ELSE 2 * f[n - 1]]
  BY <1>2
<1> HIDE DEF f
<1>4. TwoTo = [n \in Nat |-> IF n = 0 THEN 1 ELSE 2 * TwoTo[n - 1]]
  BY <1>3 DEF TwoTo
<1>5. TwoTo[0] = 1 /\ \A n \in Nat : TwoTo[n + 1] = 2 * TwoTo[n]
  <2>1. \A n \in Nat : TwoTo[n] = IF n = 0 THEN 1 ELSE 2 * TwoTo[n - 1]
    BY <1>4
  <2>2. \A n \in Nat : n + 1 \in Nat /\ n + 1 # 0 /\ (n + 1) - 1 = n
    OBVIOUS
  <2> HIDE DEF f
  <2>3. QED
    BY <2>1, <2>2
<1> DEFINE T == {n \in Nat : TwoTo[n] \in Nat \ {0}}
<1>6. 0 \in T /\ \A n \in Nat : n \in T => n + 1 \in T
  BY <1>5
<1>7. \A n \in Nat : n \in T
  <2> HIDE DEF T
  <2>1. QED
    BY <1>6, Induction
<1>8. QED
  BY <1>5, <1>7

\* Powers multiply.
LEMMA TwoToSum == \A m, n \in Nat : TwoTo[m + n] = TwoTo[m] * TwoTo[n]
<1> SUFFICES ASSUME NEW m \in Nat PROVE \A n \in Nat : TwoTo[m + n] = TwoTo[m] * TwoTo[n]
  OBVIOUS
<1> DEFINE T == {n \in Nat : TwoTo[m + n] = TwoTo[m] * TwoTo[n]}
<1>1. TwoTo[m] \in Nat
  BY TwoToValue
<1>2. 0 \in T
  <2>1. TwoTo[m + 0] = TwoTo[m] * 1
    BY <1>1
  <2>2. QED
    BY <2>1, TwoToValue
<1>3. ASSUME NEW n \in Nat, n \in T PROVE n + 1 \in T
  <2>1. TwoTo[m + (n + 1)] = 2 * TwoTo[m + n]
    <3>1. m + n \in Nat /\ m + (n + 1) = (m + n) + 1
      OBVIOUS
    <3>2. QED
      BY <3>1, TwoToValue
  <2>2. TwoTo[n + 1] = 2 * TwoTo[n] /\ TwoTo[n] \in Nat
    BY TwoToValue
  <2>3. TwoTo[m + n] = TwoTo[m] * TwoTo[n]
    BY <1>3
  <2>4. TwoTo[m + (n + 1)] = TwoTo[m] * TwoTo[n + 1]
    BY <1>1, <2>1, <2>2, <2>3
  <2>5. QED
    BY <2>4
<1>4. \A n \in Nat : n \in T
  <2> HIDE DEF T
  <2>1. QED
    BY <1>2, <1>3, Induction
<1>5. QED
  BY <1>4

\* A power splits at every place into a power below it and the rest.
LEMMA TwoToSplit ==
    ASSUME NEW m \in Nat, NEW n \in Nat, m <= n
    PROVE  /\ TwoTo[n] = TwoTo[m] * TwoTo[n - m]
           /\ TwoTo[m] <= TwoTo[n]
           /\ m < n => TwoTo[n - m] = 2 * TwoTo[n - m - 1]
<1>1. n - m \in Nat /\ m + (n - m) = n
  OBVIOUS
<1>2. TwoTo[n] = TwoTo[m] * TwoTo[n - m]
  BY <1>1, TwoToSum
<1>3. TwoTo[m] \in Nat \ {0} /\ TwoTo[n - m] \in Nat \ {0}
  BY <1>1, TwoToValue
<1>4. TwoTo[m] * (TwoTo[n - m] - 1) >= 0
  BY <1>3
<1>5. TwoTo[m] <= TwoTo[n]
  BY <1>2, <1>3, <1>4
<1>6. ASSUME m < n PROVE TwoTo[n - m] = 2 * TwoTo[n - m - 1]
  <2>1. n - m - 1 \in Nat /\ (n - m - 1) + 1 = n - m
    BY <1>6
  <2>2. QED
    BY <2>1, TwoToValue
<1>7. QED
  BY <1>2, <1>5, <1>6

-----------------------------------------------------------------------------
(* Division with remainder.                                                *)

LEMMA Division ==
    ASSUME NEW d \in Nat \ {0}, NEW a \in Nat
    PROVE  /\ a \div d \in Nat
           /\ a % d \in 0 .. d - 1
           /\ a = d * (a \div d) + (a % d)
<1>1. a \div d \in Nat
  OBVIOUS
<1>2. a % d \in 0 .. d - 1
  OBVIOUS
<1>3. a = d * (a \div d) + (a % d)
  OBVIOUS
<1>4. QED
  BY <1>1, <1>2, <1>3

\* Quotient and remainder are the only ones.
LEMMA DivisionUnique ==
    ASSUME NEW d \in Nat \ {0}, NEW q \in Nat, NEW r \in 0 .. d - 1
    PROVE  (d * q + r) \div d = q /\ (d * q + r) % d = r
OBVIOUS

\* Division by one number and then another is division by their product.
LEMMA DivisionTwice ==
    ASSUME NEW a \in Nat, NEW d \in Nat \ {0}, NEW e \in Nat \ {0}
    PROVE  (a \div d) \div e = a \div (d * e)
<1> DEFINE x == a \div d
           r == a % d
           y == x \div e
           s == x % e
<1>1. x \in Nat /\ r \in 0 .. d - 1 /\ a = d * x + r
  BY Division
<1>2. y \in Nat /\ s \in 0 .. e - 1 /\ x = e * y + s
  BY <1>1, Division
<1> HIDE DEF x, r, y, s
<1>3. d * e \in Nat \ {0}
  OBVIOUS
<1>4. d * s + r \in 0 .. d * e - 1
  <2>1. d * (e - 1 - s) >= 0 /\ d * s >= 0
    BY <1>2
  <2>2. d * (e - 1 - s) = d * e - d - d * s
    BY <1>2
  <2>3. d * s \in Int /\ d * e \in Int
    BY <1>2
  <2>4. QED
    BY <1>1, <2>1, <2>2, <2>3
<1>5. a = (d * e) * y + (d * s + r)
  <2>1. d * (e * y + s) = (d * e) * y + d * s
    BY <1>2
  <2>2. QED
    BY <1>1, <1>2, <2>1
<1>6. a \div (d * e) = y
  BY <1>2, <1>3, <1>4, <1>5, DivisionUnique
<1>7. QED
  BY <1>6 DEF x, y

\* A multiple of the divisor passes through a division.
LEMMA DivisionOfSum ==
    ASSUME NEW d \in Nat \ {0}, NEW q \in Nat, NEW a \in Nat
    PROVE  (d * q + a) \div d = q + (a \div d)
<1> DEFINE x == a \div d
           r == a % d
<1>1. x \in Nat /\ r \in 0 .. d - 1 /\ a = d * x + r
  BY Division
<1> HIDE DEF x, r
<1>2. d * q + a = d * (q + x) + r
  <2>1. d * (q + x) = d * q + d * x
    BY <1>1
  <2>2. QED
    BY <1>1, <2>1
<1>3. (d * (q + x) + r) \div d = q + x
  BY <1>1, DivisionUnique
<1>4. QED
  BY <1>2, <1>3 DEF x

-----------------------------------------------------------------------------
(* Digits.                                                                 *)

LEMMA DigitType ==
    ASSUME NEW a \in Nat, NEW i \in Nat
    PROVE  Digit(a, i) \in {0, 1}
<1>1. a \div TwoTo[i] \in Nat
  BY TwoToValue, Division
<1>2. QED
  BY <1>1 DEF Digit

\* The digits of a number without its lowest ones.
LEMMA DigitOfQuotient ==
    ASSUME NEW a \in Nat, NEW m \in Nat, NEW i \in Nat
    PROVE  Digit(a \div TwoTo[m], i) = Digit(a, m + i)
<1>1. TwoTo[m] \in Nat \ {0} /\ TwoTo[i] \in Nat \ {0} /\ TwoTo[m + i] = TwoTo[m] * TwoTo[i]
  BY TwoToValue, TwoToSum
<1>2. (a \div TwoTo[m]) \div TwoTo[i] = a \div TwoTo[m + i]
  BY <1>1, DivisionTwice
<1>3. QED
  BY <1>2 DEF Digit

\* The lowest digits of a number.
LEMMA DigitOfLow ==
    ASSUME NEW m \in Nat, NEW hi \in Nat, NEW lo \in Nat, NEW i \in 0 .. m - 1
    PROVE  Digit(TwoTo[m] * hi + lo, i) = Digit(lo, i)
<1> DEFINE p == TwoTo[i]
           c == TwoTo[m - i - 1]
           x == lo \div p
<1>1. p \in Nat \ {0} /\ c \in Nat \ {0} /\ m - i - 1 \in Nat
  BY TwoToValue
<1>2. TwoTo[m] = p * (2 * c)
  <2>1. i \in Nat /\ i <= m /\ i < m
    OBVIOUS
  <2>2. QED
    BY <2>1, TwoToSplit
<1>3. x \in Nat
  BY <1>1, Division
<1> HIDE DEF p, c
<1>4. TwoTo[m] * hi + lo = p * (2 * (c * hi)) + lo
  BY <1>1, <1>2
<1>5. c * hi \in Nat /\ 2 * (c * hi) \in Nat
  BY <1>1
<1>6. (p * (2 * (c * hi)) + lo) \div p = 2 * (c * hi) + x
  BY <1>1, <1>5, DivisionOfSum
<1> HIDE DEF x
<1>7. (2 * (c * hi) + x) % 2 = x % 2
  <2>1. \A y \in Nat : (2 * y + x) % 2 = x % 2
    BY <1>3
  <2>2. QED
    BY <1>5, <2>1
<1>8. QED
  BY <1>4, <1>6, <1>7 DEF Digit, p, x

\* Digits are those of the part of the number they stand in.
LEMMA DigitsOfParts ==
    ASSUME NEW m \in Nat, NEW hi \in Nat, NEW lo \in 0 .. TwoTo[m] - 1, NEW i \in Nat
    PROVE  Digit(TwoTo[m] * hi + lo, i) = IF i < m THEN Digit(lo, i) ELSE Digit(hi, i - m)
<1> DEFINE a == TwoTo[m] * hi + lo
<1>1. TwoTo[m] \in Nat \ {0} /\ lo \in Nat
  BY TwoToValue
<1>2. CASE i < m
  BY <1>1, <1>2, DigitOfLow
<1>3. CASE ~(i < m)
  <2>1. i - m \in Nat /\ m + (i - m) = i
    BY <1>3
  <2>2. a \div TwoTo[m] = hi
    BY <1>1, DivisionUnique
  <2>3. a \in Nat
    BY <1>1
  <2> HIDE DEF a
  <2>4. Digit(a \div TwoTo[m], i - m) = Digit(a, m + (i - m))
    BY <2>1, <2>3, DigitOfQuotient
  <2>5. Digit(a, i) = Digit(hi, i - m)
    BY <2>1, <2>2, <2>4
  <2>6. QED
    BY <1>3, <2>5 DEF a
<1>4. QED
  BY <1>2, <1>3

LEMMA DigitOfZero == \A i \in Nat : Digit(0, i) = 0
<1>1. ASSUME NEW i \in Nat PROVE Digit(0, i) = 0
  <2>1. TwoTo[i] \in Nat \ {0}
    BY TwoToValue
  <2>2. 0 \div TwoTo[i] = 0
    BY <2>1
  <2>3. QED
    BY <2>2 DEF Digit
<1>2. QED
  BY <1>1

\* All of the ones, or none of them, beyond the number's size.
LEMMA DigitBeyond ==
    ASSUME NEW m \in Nat, NEW a \in 0 .. TwoTo[m] - 1, NEW i \in Nat, m <= i
    PROVE  Digit(a, i) = 0
<1>1. TwoTo[m] \in Nat \ {0} /\ a \in Nat /\ i - m \in Nat
  BY TwoToValue
<1>2. TwoTo[m] * 0 + a = a
  BY <1>1
<1>3. Digit(TwoTo[m] * 0 + a, i) = Digit(0, i - m)
  BY <1>1, DigitsOfParts
<1>4. QED
  BY <1>1, <1>2, <1>3, DigitOfZero

\* The digits of the largest number less another one.
LEMMA DigitOfComplement ==
    ASSUME NEW n \in Nat, NEW a \in 0 .. TwoTo[n] - 1, NEW i \in 0 .. n - 1
    PROVE  Digit(TwoTo[n] - 1 - a, i) = 1 - Digit(a, i)
<1> DEFINE p == TwoTo[i]
           c == TwoTo[n - i - 1]
           x == a \div p
           r == a % p
<1>1. p \in Nat \ {0} /\ c \in Nat \ {0} /\ n - i - 1 \in Nat /\ TwoTo[n] \in Nat \ {0}
  BY TwoToValue
<1>2. TwoTo[n] = p * (2 * c)
  <2>1. i \in Nat /\ i <= n /\ i < n
    OBVIOUS
  <2>2. QED
    BY <2>1, TwoToSplit
<1> HIDE DEF p, c
<1>3. x \in Nat /\ r \in 0 .. p - 1 /\ a = p * x + r
  <2>1. a \in Nat
    BY <1>1
  <2>2. QED
    BY <1>1, <2>1, Division
<1> HIDE DEF x, r
<1>4. x < 2 * c
  <2>1. ASSUME x >= 2 * c PROVE FALSE
    <3>1. p * (x - 2 * c) >= 0
      BY <1>1, <1>3, <2>1
    <3>2. p * (x - 2 * c) = p * x - p * (2 * c)
      BY <1>1, <1>3
    <3>3. p * x \in Int /\ p * (2 * c) \in Int
      BY <1>1, <1>3
    <3>4. QED
      BY <1>1, <1>2, <1>3, <3>1, <3>2, <3>3
  <2>2. QED
    BY <1>1, <1>3, <2>1
<1> DEFINE y == 2 * c - 1 - x
           s == p - 1 - r
<1>5. y \in Nat /\ s \in 0 .. p - 1
  BY <1>1, <1>3, <1>4
<1>6. TwoTo[n] - 1 - a = p * y + s
  <2>1. p * y = p * (2 * c) - p - p * x
    BY <1>1, <1>3
  <2>2. p * x \in Int /\ p * (2 * c) \in Int
    BY <1>1, <1>3
  <2>3. QED
    BY <1>1, <1>2, <1>3, <2>1, <2>2
<1>7. (p * y + s) \div p = y
  <2> HIDE DEF y, s
  <2>1. QED
    BY <1>1, <1>5, DivisionUnique
<1>8. y % 2 = 1 - (x % 2)
  BY <1>1, <1>3, <1>5
<1> HIDE DEF y, s
<1>9. Digit(TwoTo[n] - 1 - a, i) = y % 2
  BY <1>6, <1>7 DEF Digit, p
<1>10. Digit(a, i) = x % 2
  BY DEF Digit, p, x
<1>11. QED
  BY <1>3, <1>5, <1>8, <1>9, <1>10

-----------------------------------------------------------------------------
(* Numbers are known by their ones.                                        *)

LEMMA OnesDigits ==
    ASSUME NEW n \in Nat, NEW a \in Nat
    PROVE  /\ Ones(a, n) \in SUBSET (0 .. n - 1)
           /\ \A i \in 0 .. n - 1 : Digit(a, i) = IF i \in Ones(a, n) THEN 1 ELSE 0
<1>1. \A i \in 0 .. n - 1 : Digit(a, i) \in {0, 1}
  BY DigitType
<1>2. QED
  BY <1>1 DEF Ones

\* A number is its top digit and the number that the others make.
LEMMA TopDigit ==
    ASSUME NEW n \in Nat, NEW a \in 0 .. TwoTo[n + 1] - 1
    PROVE  \E lo \in 0 .. TwoTo[n] - 1 :
              /\ a = TwoTo[n] * Digit(a, n) + lo
              /\ Ones(lo, n) = Ones(a, n + 1) \cap (0 .. n - 1)
<1> DEFINE p == TwoTo[n]
           hi == a \div p
           lo == a % p
<1>1. p \in Nat \ {0} /\ TwoTo[n + 1] = 2 * p /\ a \in Nat
  BY TwoToValue
<1>2. hi \in Nat /\ lo \in 0 .. p - 1 /\ a = p * hi + lo
  BY <1>1, Division
<1> HIDE DEF hi, lo
<1>3. hi < 2
  <2>1. ASSUME hi >= 2 PROVE FALSE
    <3>1. p * (hi - 2) >= 0
      BY <1>1, <1>2, <2>1
    <3>2. p * (hi - 2) = p * hi - 2 * p /\ p * hi \in Int
      BY <1>1, <1>2
    <3>3. QED
      BY <1>1, <1>2, <3>1, <3>2
  <2>2. QED
    BY <1>2, <2>1
<1>4. Digit(a, n) = hi
  BY <1>2, <1>3 DEF Digit, hi
<1>5. \A i \in 0 .. n - 1 : Digit(a, i) = Digit(lo, i)
  BY <1>1, <1>2, DigitOfLow
<1>6. Ones(lo, n) = Ones(a, n + 1) \cap (0 .. n - 1)
  BY <1>5 DEF Ones
<1>7. QED
  BY <1>2, <1>4, <1>6

\* No two numbers have the same ones.
LEMMA OnesDetermine ==
    ASSUME NEW n \in Nat, NEW a \in 0 .. TwoTo[n] - 1, NEW b \in 0 .. TwoTo[n] - 1,
           Ones(a, n) = Ones(b, n)
    PROVE  a = b
<1> DEFINE T == {m \in Nat : \A v, w \in 0 .. TwoTo[m] - 1 : Ones(v, m) = Ones(w, m) => v = w}
<1>1. 0 \in T
  BY TwoToValue
<1>2. ASSUME NEW m \in Nat, m \in T PROVE m + 1 \in T
  <2> SUFFICES ASSUME NEW v \in 0 .. TwoTo[m + 1] - 1, NEW w \in 0 .. TwoTo[m + 1] - 1,
                      Ones(v, m + 1) = Ones(w, m + 1)
               PROVE  v = w
    OBVIOUS
  <2>1. PICK x \in 0 .. TwoTo[m] - 1 :
           v = TwoTo[m] * Digit(v, m) + x /\ Ones(x, m) = Ones(v, m + 1) \cap (0 .. m - 1)
    BY TopDigit
  <2>2. PICK y \in 0 .. TwoTo[m] - 1 :
           w = TwoTo[m] * Digit(w, m) + y /\ Ones(y, m) = Ones(w, m + 1) \cap (0 .. m - 1)
    BY TopDigit
  <2>3. x = y
    BY <1>2, <2>1, <2>2
  <2>4. Digit(v, m) = Digit(w, m)
    <3>1. v \in Nat /\ w \in Nat /\ m + 1 \in Nat /\ m \in 0 .. (m + 1) - 1
      BY TwoToValue
    <3>2. QED
      BY <3>1, OnesDigits
  <2>5. QED
    BY <2>1, <2>2, <2>3, <2>4
<1>3. \A m \in Nat : m \in T
  <2> HIDE DEF T
  <2>1. QED
    BY <1>1, <1>2, Induction
<1>4. QED
  BY <1>3

\* Every set of places is the ones of a number.
LEMMA OnesExist ==
    ASSUME NEW n \in Nat, NEW S \in SUBSET (0 .. n - 1)
    PROVE  \E a \in 0 .. TwoTo[n] - 1 : Ones(a, n) = S
<1> DEFINE T == {m \in Nat : \A R \in SUBSET (0 .. m - 1) :
                    \E a \in 0 .. TwoTo[m] - 1 : Ones(a, m) = R}
<1>1. 0 \in T
  <2>1. 0 \in 0 .. TwoTo[0] - 1 /\ 0 .. 0 - 1 = {}
    BY TwoToValue
  <2>2. Ones(0, 0) = {}
    BY <2>1 DEF Ones
  <2>3. QED
    BY <2>1, <2>2
<1>2. ASSUME NEW m \in Nat, m \in T PROVE m + 1 \in T
  <2> SUFFICES ASSUME NEW R \in SUBSET (0 .. (m + 1) - 1)
               PROVE  \E a \in 0 .. TwoTo[m + 1] - 1 : Ones(a, m + 1) = R
    OBVIOUS
  <2>1. PICK lo \in 0 .. TwoTo[m] - 1 : Ones(lo, m) = R \cap (0 .. m - 1)
    BY <1>2
  <2> DEFINE hi == IF m \in R THEN 1 ELSE 0
             a == TwoTo[m] * hi + lo
  <2>2. TwoTo[m] \in Nat \ {0} /\ TwoTo[m + 1] = 2 * TwoTo[m]
    BY TwoToValue
  <2>3. hi \in {0, 1} /\ (hi = 1 <=> m \in R)
    OBVIOUS
  <2> HIDE DEF hi
  <2>4. a \in 0 .. TwoTo[m + 1] - 1
    BY <2>2, <2>3
  <2>5. \A i \in 0 .. m - 1 : Digit(a, i) = Digit(lo, i)
    BY <2>2, <2>3, DigitOfLow
  <2>6. Digit(a, m) = hi
    <3>1. a \div TwoTo[m] = hi
      BY <2>2, <2>3, DivisionUnique
    <3>2. QED
      BY <2>3, <3>1 DEF Digit
  <2> HIDE DEF a
  <2>7. \A i \in 0 .. (m + 1) - 1 : Digit(a, i) = 1 <=> i \in R
    <3>1. \A i \in 0 .. m - 1 : Digit(lo, i) = 1 <=> i \in R
      BY <2>1 DEF Ones
    <3>2. \A i \in 0 .. (m + 1) - 1 : i \in 0 .. m - 1 \/ i = m
      OBVIOUS
    <3>3. QED
      BY <2>3, <2>5, <2>6, <3>1, <3>2
  <2>8. Ones(a, m + 1) = R
    BY <2>7 DEF Ones
  <2>9. QED
    BY <2>4, <2>8
<1>3. \A m \in Nat : m \in T
  <2> HIDE DEF T
  <2>1. QED
    BY <1>1, <1>2, Induction
<1>4. QED
  BY <1>3

LEMMA NumberOnes ==
    ASSUME NEW n \in Nat, NEW S \in SUBSET (0 .. n - 1)
    PROVE  Number(S, n) \in 0 .. TwoTo[n] - 1 /\ Ones(Number(S, n), n) = S
BY OnesExist DEF Number

\* A number is below a power of two if it has no ones from there on.
LEMMA BelowPower ==
    ASSUME NEW n \in Nat, NEW m \in 0 .. n, NEW a \in 0 .. TwoTo[n] - 1,
           \A i \in m .. n - 1 : i \notin Ones(a, n)
    PROVE  a < TwoTo[m]
<1>1. /\ m \in Nat /\ m <= n /\ Ones(a, n) \cap (0 .. m - 1) \in SUBSET (0 .. m - 1)
      /\ TwoTo[m] \in Nat \ {0} /\ TwoTo[n] \in Nat \ {0} /\ TwoTo[m] <= TwoTo[n]
  <2>1. m \in Nat /\ m <= n
    OBVIOUS
  <2>2. QED
    BY <2>1, TwoToValue, TwoToSplit
<1>2. PICK b \in 0 .. TwoTo[m] - 1 : Ones(b, m) = Ones(a, n) \cap (0 .. m - 1)
  BY <1>1, OnesExist
<1>3. b \in 0 .. TwoTo[n] - 1 /\ b \in Nat
  BY <1>1
<1>4. ASSUME NEW i \in 0 .. n - 1 PROVE i \in Ones(b, n) <=> i \in Ones(a, n)
  <2>1. CASE i < m
    <3>1. i \in 0 .. m - 1
      BY <2>1
    <3>2. QED
      BY <1>2, <3>1 DEF Ones
  <2>2. CASE m <= i
    <3>1. Digit(b, i) = 0
      BY <2>2, DigitBeyond
    <3>2. i \in m .. n - 1
      BY <2>2
    <3>3. QED
      BY <3>1, <3>2 DEF Ones
  <2>3. QED
    BY <2>1, <2>2
<1>5. Ones(b, n) = Ones(a, n)
  BY <1>4 DEF Ones
<1>6. b = a
  BY <1>3, <1>5, OnesDetermine
<1>7. QED
  BY <1>1, <1>6

-----------------------------------------------------------------------------
(* The words of the code, and the operators of C on them.                  *)

Positions == 0 .. BIT_UTILS_WORD_SIZE_BITS - 1

LEMMA WordsAre ==
    /\ BIT_UTILS_WORD_SIZE_BITS \in Nat \ {0}
    /\ TwoTo[BIT_UTILS_WORD_SIZE_BITS] \in Nat \ {0}
    /\ Words = 0 .. TwoTo[BIT_UTILS_WORD_SIZE_BITS] - 1
    /\ UINT32_MAX = TwoTo[BIT_UTILS_WORD_SIZE_BITS] - 1
BY WidthAssumption, TwoToValue DEF Words, UINT32_MAX

LEMMA OnesOfWord ==
    ASSUME NEW a \in Words
    PROVE  /\ OnesOf(a) \in SUBSET Positions
           /\ \A i \in Positions : Digit(a, i) = IF i \in OnesOf(a) THEN 1 ELSE 0
BY WordsAre, OnesDigits DEF OnesOf, Positions

\* &, | and ^ are the operations on sets that they are called after.
LEMMA LogicOnes ==
    ASSUME NEW a \in Words, NEW b \in Words
    PROVE  /\ And(a, b) \in Words /\ OnesOf(And(a, b)) = OnesOf(a) \cap OnesOf(b)
           /\ Or(a, b) \in Words /\ OnesOf(Or(a, b)) = OnesOf(a) \cup OnesOf(b)
           /\ Xor(a, b) \in Words
           /\ OnesOf(Xor(a, b)) = (OnesOf(a) \ OnesOf(b)) \cup (OnesOf(b) \ OnesOf(a))
<1>1. \A S \in SUBSET Positions : WordOf(S) \in Words /\ OnesOf(WordOf(S)) = S
  BY WordsAre, NumberOnes DEF OnesOf, WordOf, Positions
<1>2. OnesOf(a) \in SUBSET Positions /\ OnesOf(b) \in SUBSET Positions
  BY OnesOfWord
<1>3. /\ OnesOf(a) \cap OnesOf(b) \in SUBSET Positions
      /\ OnesOf(a) \cup OnesOf(b) \in SUBSET Positions
      /\ (OnesOf(a) \ OnesOf(b)) \cup (OnesOf(b) \ OnesOf(a)) \in SUBSET Positions
  BY <1>2
<1>4. QED
  BY <1>1, <1>3 DEF And, Or, Xor

LEMMA ComplementOnes ==
    ASSUME NEW a \in Words
    PROVE  Complement(a) \in Words /\ OnesOf(Complement(a)) = Positions \ OnesOf(a)
<1>1. Complement(a) \in Words /\ Complement(a) = TwoTo[BIT_UTILS_WORD_SIZE_BITS] - 1 - a
  BY WordsAre DEF Complement
<1>2. \A i \in Positions : Digit(Complement(a), i) = 1 - Digit(a, i)
  BY <1>1, WordsAre, DigitOfComplement DEF Positions
<1>3. \A i \in Positions : i \in OnesOf(Complement(a)) <=> i \notin OnesOf(a)
  BY <1>1, <1>2, OnesOfWord
<1>4. OnesOf(Complement(a)) \in SUBSET Positions
  BY <1>1, OnesOfWord
<1>5. QED
  BY <1>1, <1>3, <1>4

LEMMA ShiftRightOnes ==
    ASSUME NEW a \in Words, NEW k \in Positions
    PROVE  /\ ShiftRight(a, k) \in Words
           /\ \A i \in Positions : i \in OnesOf(ShiftRight(a, k)) <=> i + k \in OnesOf(a)
<1>1. k \in Nat /\ k % BIT_UTILS_WORD_SIZE_BITS = k /\ a \in Nat /\ TwoTo[k] \in Nat \ {0}
  <2>1. k \in Nat /\ k < BIT_UTILS_WORD_SIZE_BITS /\ BIT_UTILS_WORD_SIZE_BITS \in Nat
    BY WordsAre DEF Positions
  <2>2. k % BIT_UTILS_WORD_SIZE_BITS = k
    BY <2>1
  <2>3. a \in Nat
    BY WordsAre
  <2>4. QED
    BY <2>1, <2>2, <2>3, TwoToValue
<1>2. ShiftRight(a, k) = a \div TwoTo[k]
  BY <1>1 DEF ShiftRight
<1>3. a \div TwoTo[k] \in Nat /\ a \div TwoTo[k] <= a
  <2> DEFINE p == TwoTo[k]
             q == a \div p
             r == a % p
  <2>1. p \in Nat \ {0}
    BY <1>1
  <2> HIDE DEF p
  <2>2. q \in Nat /\ r \in 0 .. p - 1 /\ a = p * q + r
    BY <1>1, <2>1, Division
  <2> HIDE DEF q, r
  <2>3. (p - 1) * q >= 0 /\ (p - 1) * q = p * q - q /\ p * q \in Int
    BY <2>1, <2>2
  <2>4. q \in Nat /\ q <= a
    BY <2>1, <2>2, <2>3
  <2>5. QED
    BY <2>4 DEF p, q
<1>4. ShiftRight(a, k) \in Words
  BY <1>1, <1>2, <1>3, WordsAre
<1>5. ASSUME NEW i \in Positions
      PROVE  i \in OnesOf(ShiftRight(a, k)) <=> i + k \in OnesOf(a)
  <2>1. i \in Nat /\ k + i = i + k /\ i + k \in Nat
    BY <1>1, WordsAre DEF Positions
  <2>2. Digit(ShiftRight(a, k), i) = Digit(a, i + k)
    BY <1>1, <1>2, <2>1, DigitOfQuotient
  <2>3. i \in OnesOf(ShiftRight(a, k)) <=> Digit(a, i + k) = 1
    BY <1>4, <2>2, OnesOfWord
  <2>4. CASE i + k \in Positions
    BY <2>3, <2>4, OnesOfWord
  <2>5. CASE i + k \notin Positions
    <3>1. BIT_UTILS_WORD_SIZE_BITS <= i + k
      BY <2>1, <2>5, WordsAre DEF Positions
    <3>2. Digit(a, i + k) = 0
      BY <2>1, <3>1, WordsAre, DigitBeyond
    <3>3. i + k \notin OnesOf(a)
      BY <2>5, OnesOfWord
    <3>4. QED
      BY <2>3, <3>2, <3>3
  <2>6. QED
    BY <2>4, <2>5
<1>6. QED
  BY <1>4, <1>5

\* A shift to the left drops what leaves the word.
LEMMA ShiftLeftOnes ==
    ASSUME NEW a \in Words, NEW k \in Positions
    PROVE  /\ ShiftLeft(a, k) \in Words
           /\ \A i \in Positions : i \in OnesOf(ShiftLeft(a, k)) <=> i - k \in OnesOf(a)
<1> DEFINE w == BIT_UTILS_WORD_SIZE_BITS
           m == w - k
           p == TwoTo[k]
           d == TwoTo[m]
           hi == a \div d
           lo == a % d
<1>1. w \in Nat /\ k \in Nat /\ m \in Nat /\ k <= w /\ k + m = w /\ k % w = k /\ a \in Nat
  BY WordsAre DEF Positions
<1>2. p \in Nat \ {0} /\ d \in Nat \ {0} /\ TwoTo[w] = p * d
  <2> HIDE DEF m
  <2>1. QED
    BY <1>1, TwoToValue, TwoToSum
<1>3. ShiftLeft(a, k) = (a * p) % TwoTo[w]
  BY <1>1 DEF ShiftLeft
<1> HIDE DEF w, m, p, d
<1>4. hi \in Nat /\ lo \in 0 .. d - 1 /\ a = d * hi + lo
  BY <1>1, <1>2, Division
<1> HIDE DEF hi, lo
<1>5. a * p = TwoTo[w] * hi + p * lo
  <2>1. a * p = p * (d * hi) + p * lo
    BY <1>2, <1>4
  <2>2. p * (d * hi) = (p * d) * hi
    BY <1>2, <1>4
  <2>3. QED
    BY <1>2, <2>1, <2>2
<1>6. p * lo \in 0 .. TwoTo[w] - 1
  <2>1. p * (d - 1 - lo) >= 0 /\ p * lo >= 0 /\ p * lo \in Int /\ p * d \in Int
    BY <1>2, <1>4
  <2>2. p * (d - 1 - lo) = p * d - p - p * lo
    BY <1>2, <1>4
  <2>3. QED
    BY <1>2, <2>1, <2>2
<1>7. TwoTo[w] \in Nat \ {0}
  BY WordsAre DEF w
<1>8. ShiftLeft(a, k) = p * lo
  BY <1>3, <1>4, <1>5, <1>6, <1>7, DivisionUnique
<1>9. ShiftLeft(a, k) \in Words
  BY <1>6, <1>8, WordsAre DEF w
<1>10. ASSUME NEW i \in Positions
       PROVE  i \in OnesOf(ShiftLeft(a, k)) <=> i - k \in OnesOf(a)
  <2>1. i \in Nat /\ i < w
    BY WordsAre DEF Positions, w
  <2>2. Digit(p * lo, i) = IF i < k THEN 0 ELSE Digit(lo, i - k)
    <3>1. 0 \in 0 .. p - 1 /\ p * lo + 0 = p * lo /\ lo \in Nat
      BY <1>2, <1>4, <1>6
    <3>2. Digit(p * lo + 0, i) = IF i < k THEN Digit(0, i) ELSE Digit(lo, i - k)
      BY <1>1, <1>4, <2>1, <3>1, DigitsOfParts DEF p
    <3>3. QED
      BY <2>1, <3>1, <3>2, DigitOfZero
  <2>3. i \in OnesOf(ShiftLeft(a, k)) <=> Digit(p * lo, i) = 1
    BY <1>8, <1>9, OnesOfWord
  <2>4. CASE i < k
    <3>1. i - k \notin Positions
      BY <1>1, <2>1, <2>4 DEF Positions
    <3>2. QED
      BY <2>2, <2>3, <2>4, <3>1, OnesOfWord
  <2>5. CASE ~(i < k)
    <3>1. i - k \in 0 .. m - 1 /\ i - k \in Positions
      BY <1>1, <2>1, <2>5 DEF Positions, w
    <3>2. Digit(a, i - k) = Digit(lo, i - k)
      BY <1>1, <1>4, <3>1, DigitOfLow DEF d
    <3>3. QED
      BY <2>2, <2>3, <2>5, <3>1, <3>2, OnesOfWord
  <2>6. QED
    BY <2>4, <2>5
<1>11. QED
  BY <1>9, <1>10

-----------------------------------------------------------------------------
(* The masks of the code.                                                  *)

LEMMA SmallWords == 0 \in Words /\ 1 \in Words /\ OnesOf(0) = {} /\ OnesOf(1) = {0}
<1>1. TwoTo[1] = 2 /\ TwoTo[1] <= TwoTo[BIT_UTILS_WORD_SIZE_BITS]
  <2>1. TwoTo[0 + 1] = 2 * TwoTo[0] /\ TwoTo[0] = 1
    BY TwoToValue
  <2>2. 1 \in Nat /\ 1 <= BIT_UTILS_WORD_SIZE_BITS /\ BIT_UTILS_WORD_SIZE_BITS \in Nat
    BY WordsAre
  <2>3. QED
    BY <2>1, <2>2, TwoToSplit
<1>2. 0 \in Words /\ 1 \in Words
  BY <1>1, WordsAre
<1>3. Digit(1, 0) = 1
  BY TwoToValue DEF Digit
<1>4. \A i \in Positions : i # 0 => Digit(1, i) = 0
  <2>1. 1 \in 0 .. TwoTo[1] - 1
    BY <1>1
  <2>2. QED
    BY <2>1, DigitBeyond DEF Positions
<1>5. \A i \in Positions : Digit(0, i) = 0
  BY DigitOfZero DEF Positions
<1>6. 0 \in Positions
  BY WordsAre DEF Positions
<1>7. QED
  BY <1>2, <1>3, <1>4, <1>5, <1>6, OnesOfWord

\* 1U << bitPosition.
LEMMA OneBit ==
    ASSUME NEW k \in Positions
    PROVE  ShiftLeft(1, k) \in Words /\ OnesOf(ShiftLeft(1, k)) = {k}
<1>1. ShiftLeft(1, k) \in Words
  BY SmallWords, ShiftLeftOnes
<1>2. \A i \in Positions : i \in OnesOf(ShiftLeft(1, k)) <=> i - k = 0
  BY SmallWords, ShiftLeftOnes
<1>3. \A i \in Positions : i - k = 0 <=> i = k
  BY DEF Positions
<1>4. QED
  BY <1>1, <1>2, <1>3, OnesOfWord

\* generateMask, for fields up to the whole word.
LEMMA MaskOnes ==
    ASSUME NEW n \in 1 .. BIT_UTILS_WORD_SIZE_BITS
    PROVE  /\ generateMask(n) = TwoTo[n] - 1
           /\ generateMask(n) \in Words
           /\ OnesOf(generateMask(n)) = 0 .. n - 1
<1> DEFINE w == BIT_UTILS_WORD_SIZE_BITS
           mask == TwoTo[n] - 1
<1>1. n \in Nat /\ w \in Nat /\ n <= w /\ TwoTo[n] \in Nat \ {0} /\ TwoTo[w] \in Nat \ {0}
  BY WordsAre, TwoToValue
<1>2. TwoTo[n] <= TwoTo[w]
  BY <1>1, TwoToSplit
<1>3. generateMask(n) = mask
  <2>1. CASE n = w
    BY <2>1, WordsAre DEF generateMask
  <2>2. CASE n # w
    <3>1. n + 1 \in Nat /\ n + 1 <= w /\ TwoTo[n + 1] = 2 * TwoTo[n]
      BY <1>1, <2>2, TwoToValue
    <3>2. TwoTo[n + 1] <= TwoTo[w]
      BY <1>1, <3>1, TwoToSplit
    <3>3. TwoTo[n] < TwoTo[w]
      BY <1>1, <3>1, <3>2
    <3>4. n % w = n
      BY <1>1, <2>2
    <3>5. (1 * TwoTo[n]) % TwoTo[w] = TwoTo[n]
      BY <1>1, <3>3
    <3>6. ShiftLeft(1, n) = TwoTo[n]
      BY <3>4, <3>5 DEF ShiftLeft
    <3>7. QED
      BY <2>2, <3>6 DEF generateMask
  <2>3. QED
    BY <2>1, <2>2
<1>4. mask \in Words
  BY <1>1, <1>2, WordsAre
<1>5. \A i \in 0 .. n - 1 : Digit(mask, i) = 1
  <2>1. 0 \in 0 .. TwoTo[n] - 1 /\ TwoTo[n] - 1 - 0 = mask
    BY <1>1
  <2>2. \A i \in 0 .. n - 1 : Digit(TwoTo[n] - 1 - 0, i) = 1 - Digit(0, i)
    BY <1>1, <2>1, DigitOfComplement
  <2> HIDE DEF mask
  <2>3. QED
    BY <2>1, <2>2, DigitOfZero
<1>6. \A i \in Positions : ~(i < n) => Digit(mask, i) = 0
  <2>1. mask \in 0 .. TwoTo[n] - 1
    BY <1>1
  <2>2. \A i \in Positions : i \in Nat
    BY DEF Positions
  <2> HIDE DEF mask
  <2>3. QED
    BY <1>1, <2>1, <2>2, DigitBeyond
<1>7. \A i \in Positions : i \in OnesOf(mask) <=> i \in 0 .. n - 1
  <2> HIDE DEF mask
  <2>1. \A i \in Positions : i \in 0 .. n - 1 <=> i < n
    BY <1>1 DEF Positions
  <2>2. QED
    BY <1>4, <1>5, <1>6, <2>1, OnesOfWord
<1>8. 0 .. n - 1 \in SUBSET Positions
  BY <1>1 DEF Positions
<1>9. QED
  <2> HIDE DEF mask
  <2>1. OnesOf(mask) \in SUBSET Positions
    BY <1>4, OnesOfWord
  <2>2. OnesOf(mask) = 0 .. n - 1
    BY <1>7, <1>8, <2>1
  <2>3. QED
    BY <1>3, <1>4, <2>2 DEF mask

\* The mask of a field in its place, whole word included.
LEMMA FieldMask ==
    ASSUME NEW start \in Positions, NEW n \in 1 .. BIT_UTILS_WORD_SIZE_BITS - start
    PROVE  /\ ShiftLeft(generateMask(n), start) \in Words
           /\ \A i \in Positions :
                 i \in OnesOf(ShiftLeft(generateMask(n), start)) <=> i \in start .. start + n - 1
<1>1. n \in 1 .. BIT_UTILS_WORD_SIZE_BITS
  BY WordsAre DEF Positions
<1>2. generateMask(n) \in Words /\ OnesOf(generateMask(n)) = 0 .. n - 1
  BY <1>1, MaskOnes
<1>3. \A i \in Positions : i - start \in 0 .. n - 1 <=> i \in start .. start + n - 1
  BY <1>1, WordsAre DEF Positions
<1>4. QED
  BY <1>2, <1>3, ShiftLeftOnes

-----------------------------------------------------------------------------
(* The register as a row of bits.                                          *)

Row(a) == [i \in 0 .. BIT_UTILS_WORD_SIZE_BITS - 1 |-> Digit(a, i)]

LEMMA RowBits ==
    ASSUME NEW a \in Words
    PROVE  /\ Row(a) \in [Positions -> {0, 1}]
           /\ \A i \in Positions : Row(a)[i] = Digit(a, i)
           /\ \A i \in Positions : Row(a)[i] = IF i \in OnesOf(a) THEN 1 ELSE 0
<1>1. \A i \in Positions : Digit(a, i) \in {0, 1}
  BY OnesOfWord
<1>2. QED
  BY <1>1, OnesOfWord DEF Row, Positions

\* The parts of BitField that are those of BitUtils.
LEMMA SameNumbers ==
    /\ Register!TwoTo = TwoTo
    /\ \A a, i : Register!Digit(a, i) = Digit(a, i)
    /\ Register!Positions = Positions
<1>1. Register!TwoTo = TwoTo
  BY DEF Register!TwoTo, TwoTo
<1>2. QED
  BY <1>1 DEF Register!Digit, Digit, Register!Positions, Positions

\* What each operation of the register means for its row of bits.
LEMMA WriteIs ==
    ASSUME value \in Words, value' \in Words, NEW p \in Positions,
           NEW operation \in {"SetBit", "ClearBit", "ToggleBit"},
           operation = "SetBit" => OnesOf(value') = OnesOf(value) \cup {p},
           operation = "ClearBit" => OnesOf(value') = OnesOf(value) \ {p},
           operation = "ToggleBit" =>
              OnesOf(value') = (OnesOf(value) \ {p}) \cup ({p} \ OnesOf(value)),
           status' = "SUCCESS", UNCHANGED <<extractedBits, isSet>>
    PROVE  Register!WriteBit(operation, p)
<1> DEFINE new == CASE operation = "SetBit" -> 1
                    [] operation = "ClearBit" -> 0
                    [] operation = "ToggleBit" -> 1 - Row(value)[p]
<1>1. Row(value) \in [Positions -> {0, 1}] /\ Row(value') \in [Positions -> {0, 1}]
  BY RowBits
<1>2. /\ \A i \in Positions : Row(value)[i] = IF i \in OnesOf(value) THEN 1 ELSE 0
      /\ \A i \in Positions : Row(value')[i] = IF i \in OnesOf(value') THEN 1 ELSE 0
  BY RowBits
<1>3. \A i \in Positions : Row(value')[i] = IF i = p THEN new ELSE Row(value)[i]
  <2>1. CASE operation = "SetBit"
    BY <1>2, <2>1
  <2>2. CASE operation = "ClearBit"
    BY <1>2, <2>2
  <2>3. CASE operation = "ToggleBit"
    BY <1>2, <2>3
  <2>4. QED
    BY <2>1, <2>2, <2>3
<1>4. Row(value') = [Row(value) EXCEPT ![p] = new]
  BY <1>1, <1>3
<1>5. QED
  BY <1>4, SameNumbers DEF Register!WriteBit, Row

\* The row of bits that a field is inserted into, bit by bit.
LEMMA InsertIs ==
    ASSUME value \in Words, value' \in Words,
           NEW start \in Positions, NEW n \in 1 .. BIT_UTILS_WORD_SIZE_BITS - start,
           NEW number \in Words, number < TwoTo[n],
           \A p \in Positions : p \in OnesOf(value') <=>
              IF p \in start .. start + n - 1 THEN p - start \in OnesOf(number)
                                              ELSE p \in OnesOf(value),
           status' = "SUCCESS", UNCHANGED <<extractedBits, isSet>>
    PROVE  Register!Insert(number, start, n)
<1>1. ASSUME NEW p \in Positions
      PROVE  Row(value')[p] = IF p \in start .. start + n - 1 THEN Digit(number, p - start)
                                                              ELSE Row(value)[p]
  <2>1. CASE p \in start .. start + n - 1
    <3>1. p - start \in Positions
      BY <2>1, WordsAre DEF Positions
    <3>2. Digit(number, p - start) = IF p - start \in OnesOf(number) THEN 1 ELSE 0
      BY <3>1, OnesOfWord
    <3>3. QED
      BY <2>1, <3>2, RowBits
  <2>2. CASE p \notin start .. start + n - 1
    BY <2>2, RowBits
  <2>3. QED
    BY <2>1, <2>2
<1>2. Register!IsField(start, n)
  BY SameNumbers DEF Register!IsField
<1>3. number < Register!TwoTo[n]
  BY SameNumbers
<1>4. \A p \in Register!Positions :
         Row(value')[p] = IF p \in start .. start + n - 1
                          THEN Register!Digit(number, p - start) ELSE Row(value)[p]
  BY <1>1, SameNumbers
<1>5. QED
  BY <1>2, <1>3, <1>4 DEF Register!Insert, Row

\* What is extracted is the number that the bits of the field make.
LEMMA ExtractIs ==
    ASSUME value \in Words, UNCHANGED <<value, isSet>>, status' = "SUCCESS",
           NEW start \in Positions, NEW n \in 1 .. BIT_UTILS_WORD_SIZE_BITS - start,
           extractedBits' \in Words,
           \A i \in Positions : i \in OnesOf(extractedBits') <=>
              i < n /\ start + i \in OnesOf(value)
    PROVE  Register!Extract(start, n)
<1>1. n \in 0 .. BIT_UTILS_WORD_SIZE_BITS /\ extractedBits' \in Nat
  BY WordsAre DEF Positions
<1>2. extractedBits' < TwoTo[n]
  <2>1. \A i \in n .. BIT_UTILS_WORD_SIZE_BITS - 1 : i \notin OnesOf(extractedBits')
    BY <1>1, WordsAre DEF Positions
  <2>2. QED
    BY <1>1, <2>1, WordsAre, BelowPower DEF OnesOf
<1>3. ASSUME NEW i \in 0 .. n - 1
      PROVE  Digit(extractedBits', i) = Row(value)[start + i]
  <2>1. i \in Positions /\ start + i \in Positions /\ i < n
    BY WordsAre DEF Positions
  <2>2. Digit(extractedBits', i) = IF i \in OnesOf(extractedBits') THEN 1 ELSE 0
    BY <2>1, OnesOfWord
  <2>3. Row(value)[start + i] = IF start + i \in OnesOf(value) THEN 1 ELSE 0
    BY <2>1, RowBits
  <2>4. QED
    BY <2>1, <2>2, <2>3
<1>4. Register!IsField(start, n)
  BY SameNumbers DEF Register!IsField
<1>5. Register!Makes(extractedBits', start, n)
  BY <1>2, <1>3, SameNumbers DEF Register!Makes, Row
<1>6. QED
  BY <1>1, <1>4, <1>5 DEF Register!Extract

LEMMA RefuseIs ==
    ASSUME NEW reason, status' = reason, UNCHANGED <<value, extractedBits, isSet>>
    PROVE  Register!Refuse(reason)
BY DEF Register!Refuse

-----------------------------------------------------------------------------
(* The steps.                                                              *)

\* validateBitPosition and validateBitRange draw the line where BitField does.
LEMMA ChecksAre ==
    ASSUME NEW p \in Counts, NEW n \in Counts
    PROVE  /\ IF p \in Positions
              THEN validateBitPosition(p) = "SUCCESS"
              ELSE validateBitPosition(p) = "INVALID_BIT_POSITION"
           /\ IF p \notin Positions
              THEN validateBitRange(p, n) = "INVALID_START_BIT"
              ELSE IF n \in 1 .. BIT_UTILS_WORD_SIZE_BITS - p
                   THEN validateBitRange(p, n) = "SUCCESS"
                   ELSE validateBitRange(p, n) = "INVALID_NUM_BITS"
<1>1. p \in Nat /\ n \in Nat /\ BIT_UTILS_WORD_SIZE_BITS \in Nat
  BY ArgumentAssumption, WidthAssumption
<1>2. QED
  BY <1>1 DEF validateBitPosition, validateBitRange, Positions

LEMMA RefusedBit ==
    ASSUME NEW request, NEW p \in Counts, Refused(request, validateBitPosition(p))
    PROVE  value' = value /\ call' = request /\ Register!RefuseBit(p)
<1>1. p \notin Positions /\ validateBitPosition(p) = "INVALID_BIT_POSITION"
  BY ChecksAre DEF Refused
<1>2. /\ status' = "INVALID_BIT_POSITION" /\ call' = request
      /\ UNCHANGED <<value, extractedBits, isSet>>
  BY <1>1 DEF Refused, Refuse, Answer
<1>3. Register!Refuse("INVALID_BIT_POSITION")
  BY <1>2, RefuseIs
<1>4. QED
  BY <1>1, <1>2, <1>3, SameNumbers DEF Register!RefuseBit

LEMMA RefusedField ==
    ASSUME NEW request, NEW start \in Counts, NEW n \in Counts,
           Refused(request, validateBitRange(start, n))
    PROVE  value' = value /\ call' = request /\ Register!RefuseField(start, n)
<1>1. \/ start \notin Positions /\ status' = "INVALID_START_BIT"
      \/ /\ start \in Positions /\ n \notin 1 .. BIT_UTILS_WORD_SIZE_BITS - start
         /\ status' = "INVALID_NUM_BITS"
  BY ChecksAre DEF Refused, Refuse, Answer
<1>2. call' = request /\ UNCHANGED <<value, extractedBits, isSet>>
  BY DEF Refused, Refuse, Answer
<1>3. Register!Refuse(status')
  BY <1>2, RefuseIs
<1>4. QED
  BY <1>1, <1>2, <1>3, SameNumbers DEF Register!RefuseField, Register!IsField

\* The call names the position, and the step is one that BitField allows there.
OneBitStep(p) ==
    \E operation \in Register!OnBit :
        call' = <<operation, p>> /\ Register!Single(operation, p)

LEMMA BitSteps ==
    ASSUME value \in Words, NEW p \in Counts,
           bitUtilsSetBit(p) \/ bitUtilsClearBit(p) \/ bitUtilsToggleBit(p) \/ bitUtilsIsBitSet(p)
    PROVE  value' \in Words /\ OneBitStep(p)
<1> DEFINE one == ShiftLeft(1, p)
<1>1. ASSUME NEW name \in {"SetBit", "ClearBit", "ToggleBit", "IsBitSet"},
             Refused(<<name, p>>, validateBitPosition(p))
      PROVE  value' \in Words /\ OneBitStep(p)
  BY <1>1, RefusedBit DEF OneBitStep, Register!OnBit, Register!Single
<1>2. p \in Positions => one \in Words /\ OnesOf(one) = {p}
  BY OneBit
<1> HIDE DEF one
<1>3. ASSUME NEW name \in {"SetBit", "ClearBit", "ToggleBit"}, NEW new \in Words,
             p \in Positions /\ name = "SetBit" => OnesOf(new) = OnesOf(value) \cup {p},
             p \in Positions /\ name = "ClearBit" => OnesOf(new) = OnesOf(value) \ {p},
             p \in Positions /\ name = "ToggleBit" =>
                OnesOf(new) = (OnesOf(value) \ {p}) \cup ({p} \ OnesOf(value)),
             Accepted(<<name, p>>, validateBitPosition(p)),
             value' = new, UNCHANGED <<extractedBits, isSet>>
      PROVE  value' \in Words /\ OneBitStep(p)
  <2>1. p \in Positions /\ call' = <<name, p>> /\ status' = "SUCCESS"
    BY <1>3, ChecksAre DEF Accepted, Answer
  <2>2. Register!WriteBit(name, p)
    BY <1>3, <2>1, WriteIs
  <2>3. QED
    BY <1>3, <2>1, <2>2 DEF OneBitStep, Register!OnBit, Register!Single
<1>4. CASE bitUtilsSetBit(p)
  <2>1. CASE Refused(<<"SetBit", p>>, validateBitPosition(p))
    BY <1>1, <2>1
  <2>2. CASE Accepted(<<"SetBit", p>>, validateBitPosition(p))
    <3>1. p \in Positions
      BY <2>2, ChecksAre DEF Accepted
    <3>2. Or(value, one) \in Words /\ OnesOf(Or(value, one)) = OnesOf(value) \cup {p}
      BY <1>2, <3>1, LogicOnes
    <3>3. value' = Or(value, one) /\ UNCHANGED <<extractedBits, isSet>>
      BY <1>4, <2>2 DEF bitUtilsSetBit, Writes, Refused, Accepted, one
    <3>4. QED
      BY <1>3, <2>2, <3>2, <3>3
  <2>3. QED
    BY <1>4, <2>1, <2>2 DEF bitUtilsSetBit, Writes
<1>5. CASE bitUtilsClearBit(p)
  <2>1. CASE Refused(<<"ClearBit", p>>, validateBitPosition(p))
    BY <1>1, <2>1
  <2>2. CASE Accepted(<<"ClearBit", p>>, validateBitPosition(p))
    <3>1. p \in Positions
      BY <2>2, ChecksAre DEF Accepted
    <3>2. Complement(one) \in Words /\ OnesOf(Complement(one)) = Positions \ {p}
      BY <1>2, <3>1, ComplementOnes
    <3>3. /\ And(value, Complement(one)) \in Words
          /\ OnesOf(And(value, Complement(one))) = OnesOf(value) \cap (Positions \ {p})
      BY <3>2, LogicOnes
    <3>4. OnesOf(value) \cap (Positions \ {p}) = OnesOf(value) \ {p}
      BY OnesOfWord
    <3>5. value' = And(value, Complement(one)) /\ UNCHANGED <<extractedBits, isSet>>
      BY <1>5, <2>2 DEF bitUtilsClearBit, Writes, Refused, Accepted, one
    <3>6. QED
      BY <1>3, <2>2, <3>3, <3>4, <3>5
  <2>3. QED
    BY <1>5, <2>1, <2>2 DEF bitUtilsClearBit, Writes
<1>6. CASE bitUtilsToggleBit(p)
  <2>1. CASE Refused(<<"ToggleBit", p>>, validateBitPosition(p))
    BY <1>1, <2>1
  <2>2. CASE Accepted(<<"ToggleBit", p>>, validateBitPosition(p))
    <3>1. p \in Positions
      BY <2>2, ChecksAre DEF Accepted
    <3>2. /\ Xor(value, one) \in Words
          /\ OnesOf(Xor(value, one)) = (OnesOf(value) \ {p}) \cup ({p} \ OnesOf(value))
      BY <1>2, <3>1, LogicOnes
    <3>3. value' = Xor(value, one) /\ UNCHANGED <<extractedBits, isSet>>
      BY <1>6, <2>2 DEF bitUtilsToggleBit, Writes, Refused, Accepted, one
    <3>4. QED
      BY <1>3, <2>2, <3>2, <3>3
  <2>3. QED
    BY <1>6, <2>1, <2>2 DEF bitUtilsToggleBit, Writes
<1>7. CASE bitUtilsIsBitSet(p)
  <2>1. CASE Refused(<<"IsBitSet", p>>, validateBitPosition(p))
    BY <1>1, <2>1
  <2>2. CASE Accepted(<<"IsBitSet", p>>, validateBitPosition(p))
    <3>1. p \in Positions
      BY <2>2, ChecksAre DEF Accepted
    <3>2. And(value, one) \in Words /\ OnesOf(And(value, one)) = OnesOf(value) \cap {p}
      BY <1>2, <3>1, LogicOnes
    <3>3. And(value, one) = 0 <=> p \notin OnesOf(value)
      <4>1. And(value, one) = 0 => OnesOf(value) \cap {p} = {}
        BY <3>2, SmallWords
      <4>2. OnesOf(value) \cap {p} = {} => And(value, one) = 0
        BY <3>2, SmallWords, WordsAre, OnesDetermine DEF OnesOf
      <4>3. QED
        BY <4>1, <4>2
    <3>4. /\ isSet' = (And(value, one) # 0) /\ UNCHANGED <<value, extractedBits>>
          /\ call' = <<"IsBitSet", p>> /\ status' = "SUCCESS"
      BY <1>7, <2>2 DEF bitUtilsIsBitSet, Refused, Accepted, Answer, one
    <3>5. isSet' = (Row(value)[p] = 1)
      <4>1. Row(value)[p] = 1 <=> p \in OnesOf(value)
        BY <3>1, RowBits
      <4>2. QED
        BY <3>3, <3>4, <4>1
    <3>6. Register!ReadBit(p)
      BY <3>1, <3>4, <3>5, SameNumbers DEF Register!ReadBit, Row
    <3>7. QED
      BY <3>4, <3>6 DEF OneBitStep, Register!OnBit, Register!Single
  <2>3. QED
    BY <1>7, <2>1, <2>2 DEF bitUtilsIsBitSet
<1>8. QED
  BY <1>4, <1>5, <1>6, <1>7

LEMMA ExtractStep ==
    ASSUME value \in Words, NEW start \in Counts, NEW n \in Counts, bitUtilsExtractBits(start, n)
    PROVE  /\ value' \in Words
           /\ call' = <<"ExtractBits", start, n>> /\ Register!Extraction(start, n)
<1> DEFINE mask == ShiftLeft(generateMask(n), start)
           range == validateBitRange(start, n)
           request == <<"ExtractBits", start, n>>
<1>1. CASE Refused(request, range)
  BY <1>1, RefusedField DEF Register!Extraction
<1>2. CASE Accepted(request, range)
  <2>1. start \in Positions /\ n \in 1 .. BIT_UTILS_WORD_SIZE_BITS - start
    BY <1>2, ChecksAre DEF Accepted
  <2>2. /\ mask \in Words
        /\ \A i \in Positions : i \in OnesOf(mask) <=> i \in start .. start + n - 1
    BY <2>1, FieldMask
  <2>3. /\ extractedBits' = ShiftRight(And(value, mask), start)
        /\ UNCHANGED <<value, isSet>>
        /\ call' = request /\ status' = "SUCCESS"
    BY <1>2 DEF bitUtilsExtractBits, Refused, Accepted, Answer
  <2> HIDE DEF mask
  <2>4. And(value, mask) \in Words /\ OnesOf(And(value, mask)) = OnesOf(value) \cap OnesOf(mask)
    BY <2>2, LogicOnes
  <2>5. /\ extractedBits' \in Words
        /\ \A i \in Positions :
              i \in OnesOf(extractedBits') <=> i + start \in OnesOf(value) \cap OnesOf(mask)
    BY <2>1, <2>3, <2>4, ShiftRightOnes
  <2>6. ASSUME NEW i \in Positions
        PROVE  i \in OnesOf(extractedBits') <=> i < n /\ start + i \in OnesOf(value)
    <3>1. i + start = start + i /\ (start + i \in start .. start + n - 1 <=> i < n)
      BY <2>1, WordsAre DEF Positions
    <3>2. start + i \in OnesOf(value) => start + i \in Positions
      BY OnesOfWord
    <3>3. QED
      BY <2>2, <2>5, <3>1, <3>2
  <2>7. Register!Extract(start, n)
    BY <2>1, <2>3, <2>5, <2>6, ExtractIs
  <2>8. QED
    BY <2>3, <2>7 DEF Register!Extraction
<1>3. QED
  BY <1>1, <1>2 DEF bitUtilsExtractBits

LEMMA InsertStep ==
    ASSUME value \in Words, NEW start \in Counts, NEW n \in Counts, NEW number \in Numbers,
           bitUtilsInsertBits(number, start, n)
    PROVE  /\ value' \in Words
           /\ call' = <<"InsertBits", number, start, n>> /\ Register!Insertion(number, start, n)
<1> DEFINE max == generateMask(n)
           mask == ShiftLeft(max, start)
           range == validateBitRange(start, n)
           request == <<"InsertBits", number, start, n>>
           new == Or(And(value, Complement(mask)), And(ShiftLeft(number, start), mask))
           check == IF range = "SUCCESS" /\ number > max THEN "INVALID_VALUE" ELSE range
<1>1. Writes(request, check, new)
  BY DEF bitUtilsInsertBits
<1>2. number \in Words /\ number \in Nat
  BY ArgumentAssumption, WordsAre
<1>3. CASE range # "SUCCESS"
  <2>1. Refused(request, range)
    BY <1>1, <1>3 DEF Writes, Refused, Accepted
  <2>2. QED
    BY <2>1, RefusedField DEF Register!Insertion
<1>4. CASE range = "SUCCESS"
  <2>1. start \in Positions /\ n \in 1 .. BIT_UTILS_WORD_SIZE_BITS - start
    BY <1>4, ChecksAre
  <2>2. n \in 1 .. BIT_UTILS_WORD_SIZE_BITS /\ n \in Nat
    BY <2>1, WordsAre DEF Positions
  <2>3. max = TwoTo[n] - 1 /\ TwoTo[n] \in Nat
    BY <2>2, MaskOnes, TwoToValue
  <2>4. CASE number > max
    <3>1. number >= TwoTo[n]
      BY <1>2, <2>3, <2>4
    <3>2. /\ status' = "INVALID_VALUE" /\ call' = request
          /\ UNCHANGED <<value, extractedBits, isSet>>
      BY <1>1, <1>4, <2>4 DEF Writes, Refused, Accepted, Refuse, Answer
    <3>3. Register!Refuse("INVALID_VALUE")
      BY <3>2, RefuseIs
    <3>4. Register!RefuseNumber(number, start, n)
      BY <2>1, <3>1, <3>3, SameNumbers DEF Register!RefuseNumber, Register!IsField
    <3>5. QED
      BY <3>2, <3>4 DEF Register!Insertion
  <2>5. CASE ~(number > max)
    <3>1. number < TwoTo[n]
      BY <1>2, <2>3, <2>5
    <3>2. /\ value' = new /\ UNCHANGED <<extractedBits, isSet>>
          /\ call' = request /\ status' = "SUCCESS"
      BY <1>1, <1>4, <2>5 DEF Writes, Refused, Accepted, Answer
    <3>3. /\ mask \in Words
          /\ \A i \in Positions : i \in OnesOf(mask) <=> i \in start .. start + n - 1
      BY <2>1, FieldMask
    <3> DEFINE kept == And(value, Complement(mask))
               put == And(ShiftLeft(number, start), mask)
    <3> HIDE DEF mask
    <3>4. kept \in Words /\ OnesOf(kept) = OnesOf(value) \cap (Positions \ OnesOf(mask))
      BY <3>3, ComplementOnes, LogicOnes
    <3>5. /\ put \in Words
          /\ \A i \in Positions : i \in OnesOf(put) <=> i - start \in OnesOf(number) /\ i \in OnesOf(mask)
      <4>1. /\ ShiftLeft(number, start) \in Words
            /\ \A i \in Positions : i \in OnesOf(ShiftLeft(number, start)) <=> i - start \in OnesOf(number)
        BY <1>2, <2>1, ShiftLeftOnes
      <4>2. QED
        BY <3>3, <4>1, LogicOnes
    <3>6. new = Or(kept, put)
      OBVIOUS
    <3> HIDE DEF kept, put, new
    <3>7. new \in Words /\ OnesOf(new) = OnesOf(kept) \cup OnesOf(put)
      BY <3>4, <3>5, <3>6, LogicOnes
    <3>8. ASSUME NEW p \in Positions
          PROVE  p \in OnesOf(value') <=>
                    IF p \in start .. start + n - 1 THEN p - start \in OnesOf(number)
                                                    ELSE p \in OnesOf(value)
      BY <3>2, <3>3, <3>4, <3>5, <3>7
    <3>9. Register!Insert(number, start, n)
      BY <1>2, <2>1, <3>1, <3>2, <3>7, <3>8, InsertIs
    <3>10. QED
      BY <3>2, <3>7, <3>9 DEF Register!Insertion
  <2>6. QED
    BY <2>4, <2>5
<1>5. QED
  BY <1>3, <1>4

-----------------------------------------------------------------------------
(* The register implements the row of bits.                                *)

LEMMA RegisterStep ==
    ASSUME value \in Words, [Next]_vars
    PROVE  value' \in Words /\ [Register!Next]_(Register!vars)
<1>1. ASSUME NEW name \in Calls, Refuse(<<name>>, "NULL_POINTER")
      PROVE  value' \in Words /\ Register!Next
  <2>1. /\ call' = <<name>> /\ status' = "NULL_POINTER"
        /\ UNCHANGED <<value, extractedBits, isSet>>
    BY <1>1 DEF Refuse, Answer
  <2>2. Register!Refuse("NULL_POINTER")
    BY <2>1, RefuseIs
  <2>3. name \in Register!OnBit \cup Register!OnField
    BY DEF Calls, Register!OnBit, Register!OnField
  <2>4. QED
    BY <2>1, <2>2, <2>3 DEF Register!Next
<1>2. ASSUME NEW p \in Counts,
             bitUtilsSetBit(p) \/ bitUtilsClearBit(p) \/ bitUtilsToggleBit(p) \/ bitUtilsIsBitSet(p)
      PROVE  value' \in Words /\ Register!Next
  BY <1>2, BitSteps DEF OneBitStep, Register!Next
<1>3. ASSUME NEW start \in Counts, NEW n \in Counts, bitUtilsExtractBits(start, n)
      PROVE  value' \in Words /\ Register!Next
  BY <1>3, ExtractStep DEF Register!Next
<1>4. ASSUME NEW start \in Counts, NEW n \in Counts, NEW number \in Numbers,
             bitUtilsInsertBits(number, start, n)
      PROVE  value' \in Words /\ Register!Next
  BY <1>4, InsertStep DEF Register!Next
<1>5. CASE UNCHANGED vars
  BY <1>5 DEF vars, Register!vars
<1>6. QED
  BY <1>1, <1>2, <1>3, <1>4, <1>5 DEF Next

\* The masks and shifts of bitUtils.c do to the row of bits what the call asks
\* for: at the position, or in the field, with the number and for the reason
\* that its own arguments give, for words of every width and whatever is passed.
THEOREM Refinement == Spec => ImplementsBitField
<1>1. Init => value \in Words /\ Register!Init
  <2> SUFFICES ASSUME Init PROVE value \in Words /\ Register!Init
    OBVIOUS
  <2>1. value \in Words /\ Row(value) \in [Positions -> {0, 1}]
    BY RowBits DEF Init
  <2>2. QED
    BY <2>1, SameNumbers DEF Init, Register!Init, Row
<1>2. value \in Words /\ [Next]_vars => (value \in Words)' /\ [Register!Next]_(Register!vars)
  <2>1. Words' = Words
    BY DEF Words, UINT32_MAX
  <2>2. QED
    BY <2>1, RegisterStep
<1>3. QED
  BY <1>1, <1>2, PTL DEF Spec, ImplementsBitField, Register!Spec
=============================================================================
