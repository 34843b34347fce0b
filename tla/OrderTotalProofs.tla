-------------------------- MODULE OrderTotalProofs --------------------------
(***************************************************************************)
(* What PlaceOrder charges, for orders of any size: that the total is      *)
(* exact, that whole prices never make it panic, and that the shop's pages *)
(* show the amount that was charged.                                       *)
(***************************************************************************)
EXTENDS OrderTotal, PageTotals, FiniteSetTheorems, TLAPS

-----------------------------------------------------------------------------
(***************************************************************************)
(* What money.Sum returns for amounts that are not negative, whatever the  *)
(* number of nanos to a unit and the widths of the integers.               *)
(***************************************************************************)
\* A number within the bounds of its type does not wrap around.
LEMMA WrapFits ==
    ASSUME NEW bound \in Nat \ {0}, NEW k \in -bound..(bound - 1)
    PROVE  Wrap(k, bound) = k
<1>1. /\ 2 * bound \in Int /\ 2 * bound > 0
      /\ k + bound \in Int /\ 0 <= k + bound /\ k + bound < 2 * bound
  OBVIOUS
<1>2. \A a, b \in Int : b > 0 /\ 0 <= a /\ a < b => a % b = a
  OBVIOUS
<1>3. (k + bound) % (2 * bound) = k + bound
  BY <1>1, <1>2
<1>. QED
  BY <1>3 DEF Wrap

LEMMA QuotientBelow ==
    ASSUME NEW b \in Nat \ {0}, NEW a \in Nat, a < b
    PROVE  Quotient(a, b) = 0 /\ Remainder(a, b) = a
<1>1. a \div b = 0
  OBVIOUS
<1>. QED
  BY <1>1 DEF Quotient, Remainder

LEMMA QuotientOnce ==
    ASSUME NEW b \in Nat \ {0}, NEW a \in Nat, b <= a, a < 2 * b
    PROVE  Quotient(a, b) = 1 /\ Remainder(a, b) = a - b
<1>1. a \div b = 1
  OBVIOUS
<1>. QED
  BY <1>1 DEF Quotient, Remainder

-----------------------------------------------------------------------------
\* The two amounts of a sum that cannot overflow.
NonNegative(m) == m \in Amounts /\ m.units >= 0 /\ m.nanos >= 0

Fits(l, r) == l.units + r.units + 1 < Int64Bound

Plain(units, nanos, currency) == [units |-> units, nanos |-> nanos, currency |-> currency]

LEMMA AmountFits ==
    ASSUME NEW units \in Int64, NEW nanos \in Int32, NEW currency
    PROVE  Amount(units, nanos, currency) = Plain(units, nanos, currency)
<1>1. Wrap(units, Int64Bound) = units
  BY NanosAssumption, WrapFits DEF Int64
<1>2. Wrap(nanos, Int32Bound) = nanos
  <2>1. Int32Bound \in Nat \ {0}
    BY NanosAssumption
  <2>. QED
    BY <2>1, WrapFits DEF Int32
<1>. QED
  BY <1>1, <1>2 DEF Amount, Plain

\* The four amounts Sum can return.
LEMMA SumCases ==
    ASSUME NEW l, NEW r, NonNegative(l), NonNegative(r), Summable(l, r), Fits(l, r),
           NEW units, units = l.units + r.units,
           NEW nanos, nanos = l.nanos + r.nanos
    PROVE  /\ units \in Nat /\ nanos \in Nat /\ nanos <= 2 * (NanosMod - 1)
           /\ Sum(l, r) =
                IF units = 0 /\ nanos > 0 THEN Plain(1, nanos - NanosMod, l.currency)
                ELSE IF nanos < NanosMod THEN Plain(units, nanos, l.currency)
                ELSE Plain(units + 1, nanos - NanosMod, l.currency)
<1>1. /\ units \in Nat /\ nanos \in Nat /\ nanos <= 2 * (NanosMod - 1)
      /\ units + 1 < Int64Bound /\ nanos < Int32Bound
  BY NanosAssumption DEF NonNegative, Amounts, Int32, Int64, Summable, IsValid, ValidNanos, Fits
<1>2. Wrap(l.units + r.units, Int64Bound) = units
  BY <1>1, NanosAssumption, WrapFits
<1>3. Wrap(l.nanos + r.nanos, Int32Bound) = nanos
  <2>1. Int32Bound \in Nat \ {0} /\ nanos \in -Int32Bound..(Int32Bound - 1)
    BY <1>1, NanosAssumption
  <2>. QED
    BY <2>1, WrapFits
<1>4. CASE units = 0 /\ nanos > 0
  <2>1. Sum(l, r) = Amount(units + 1, nanos - NanosMod, l.currency)
    BY <1>1, <1>2, <1>3, <1>4 DEF Sum, Borrow
  <2>2. units + 1 \in Int64 /\ nanos - NanosMod \in Int32
    BY <1>1, NanosAssumption DEF Int64, Int32
  <2>. QED
    BY <1>1, <1>4, <2>1, <2>2, AmountFits
<1>5. CASE ~(units = 0 /\ nanos > 0)
  <2>1. Sum(l, r) = Carry(units, nanos, l.currency)
    BY <1>1, <1>2, <1>3, <1>5 DEF Sum
  <2>2. CASE nanos < NanosMod
    <3>1. Quotient(nanos, NanosMod) = 0 /\ Remainder(nanos, NanosMod) = nanos
      BY <1>1, <2>2, NanosAssumption, QuotientBelow
    <3>2. units \in Int64 /\ nanos \in Int32
      BY <1>1, NanosAssumption DEF Int64, Int32
    <3>3. Carry(units, nanos, l.currency) = Amount(units, nanos, l.currency)
      BY <1>1, <3>1 DEF Carry
    <3>. QED
      BY <1>1, <1>5, <2>1, <2>2, <3>2, <3>3, AmountFits
  <2>3. CASE nanos >= NanosMod
    <3>1. Quotient(nanos, NanosMod) = 1 /\ Remainder(nanos, NanosMod) = nanos - NanosMod
      BY <1>1, <2>3, NanosAssumption, QuotientOnce
    <3>2. units + 1 \in Int64 /\ nanos - NanosMod \in Int32
      BY <1>1, <2>3, NanosAssumption DEF Int64, Int32
    <3>3. Carry(units, nanos, l.currency) = Amount(units + 1, nanos - NanosMod, l.currency)
      BY <3>1 DEF Carry
    <3>. QED
      BY <1>1, <1>5, <2>1, <2>3, <3>2, <3>3, NanosAssumption, AmountFits
  <2>. QED
    BY <1>1, <2>2, <2>3, NanosAssumption
<1>. QED
  BY <1>4, <1>5

\* A sum that no integer wraps around in: its units stay inside an int64, one
\* carried unit included, and the nanos a unit is taken from inside an int32.
InRange(l, r) ==
    /\ l.units + r.units + 1 < Int64Bound
    /\ l.units + r.units - 1 >= -Int64Bound
    /\ l.units + r.units = 0 => l.nanos + r.nanos - NanosMod >= -Int32Bound

\* The nanos of two valid amounts carry at most one unit.
LEMMA CarriesAtMostOne ==
    ASSUME NEW k \in Int, -(2 * NanosMod) < k, k < 2 * NanosMod
    PROVE  /\ Quotient(k, NanosMod) \in -1..1
           /\ Remainder(k, NanosMod) = k - NanosMod * Quotient(k, NanosMod)
           /\ Remainder(k, NanosMod) \in -(NanosMod - 1)..(NanosMod - 1)
<1>1. NanosMod \in Nat \ {0}
  BY NanosAssumption
<1>2. CASE 0 <= k /\ k < NanosMod
  BY <1>1, <1>2, QuotientBelow DEF Remainder
<1>3. CASE NanosMod <= k
  BY <1>1, <1>3, QuotientOnce DEF Remainder
<1>4. CASE k < 0 /\ -k < NanosMod
  <2>1. (-k) \div NanosMod = 0
    BY <1>1, <1>4, QuotientBelow DEF Quotient
  <2>. QED
    BY <1>1, <1>4, <2>1 DEF Quotient, Remainder
<1>5. CASE k < 0 /\ NanosMod <= -k
  <2>1. (-k) \div NanosMod = 1
    BY <1>1, <1>5, QuotientOnce DEF Quotient
  <2>. QED
    BY <1>1, <1>5, <2>1 DEF Quotient, Remainder
<1>. QED
  BY <1>1, <1>2, <1>3, <1>4, <1>5

(* No value is lost or made when two amounts are added, whatever their      *)
(* signs, even when the result is not a valid amount; and the units are     *)
(* those of the two amounts, or one more or one less.                       *)
THEOREM SumIsExact ==
    ASSUME NEW l \in Amounts, NEW r \in Amounts, Summable(l, r), InRange(l, r)
    PROVE  /\ Value(Sum(l, r)) = Value(l) + Value(r)
           /\ Sum(l, r).currency = l.currency
           /\ Sum(l, r).units - (l.units + r.units) \in -1..1
<1>. DEFINE units == l.units + r.units
            nanos == l.nanos + r.nanos
<1>1. /\ units \in Int /\ nanos \in Int
      /\ units + 1 < Int64Bound /\ units - 1 >= -Int64Bound
      /\ -(2 * NanosMod) < nanos /\ nanos < 2 * NanosMod
      /\ units = 0 => nanos - NanosMod >= -Int32Bound
  BY NanosAssumption DEF Amounts, Int32, Int64, Summable, IsValid, ValidNanos, InRange
<1>2. Value(l) + Value(r) = units * NanosMod + nanos
  BY NanosAssumption DEF Value, Amounts, Int32, Int64
<1>3. Wrap(units, Int64Bound) = units
  BY <1>1, NanosAssumption, WrapFits
<1>4. Wrap(nanos, Int32Bound) = nanos
  <2>1. Int32Bound \in Nat \ {0} /\ nanos \in -Int32Bound..(Int32Bound - 1)
    BY <1>1, NanosAssumption
  <2>. QED
    BY <2>1, WrapFits
<1>. HIDE DEF units, nanos
<1>5. \E d \in -1..1 :
        /\ Sum(l, r) = Amount(units + d, nanos - NanosMod * d, l.currency)
        /\ nanos - NanosMod * d \in -Int32Bound..(Int32Bound - 1)
  <2>1. CASE Sum(l, r) = Carry(units, nanos, l.currency)
    <3>. DEFINE q == Quotient(nanos, NanosMod)
    <3>1. /\ q \in -1..1
          /\ Remainder(nanos, NanosMod) = nanos - NanosMod * q
          /\ Remainder(nanos, NanosMod) \in -(NanosMod - 1)..(NanosMod - 1)
      BY <1>1, CarriesAtMostOne
    <3>2. Sum(l, r) = Amount(units + q, nanos - NanosMod * q, l.currency)
      BY <2>1, <3>1 DEF Carry
    <3>. HIDE DEF q
    <3>. QED
      BY <3>1, <3>2, NanosAssumption
  <2>2. CASE Sum(l, r) = Borrow(units, nanos, l.currency) /\ units > 0 /\ nanos < 0
    <3>1. Sum(l, r) = Amount(units + (-1), nanos - NanosMod * (-1), l.currency)
      BY <1>1, <2>2, NanosAssumption DEF Borrow
    <3>. QED
      BY <1>1, <2>2, <3>1, NanosAssumption
  <2>3. CASE Sum(l, r) = Borrow(units, nanos, l.currency) /\ ~(units > 0) /\ nanos > 0
    <3>1. Sum(l, r) = Amount(units + 1, nanos - NanosMod * 1, l.currency)
      BY <1>1, <2>3, NanosAssumption DEF Borrow
    <3>. QED
      BY <1>1, <2>3, <3>1, NanosAssumption
  <2>4. CASE Sum(l, r) = Borrow(units, nanos, l.currency) /\ units = 0 /\ nanos < 0
    <3>1. Sum(l, r) = Amount(units + 1, nanos - NanosMod * 1, l.currency)
      BY <1>1, <2>4, NanosAssumption DEF Borrow
    <3>. QED
      BY <1>1, <2>4, <3>1, NanosAssumption
  <2>. QED
    BY <1>1, <1>3, <1>4, <2>1, <2>2, <2>3, <2>4 DEF Sum, units, nanos
<1>6. PICK d \in -1..1 :
        /\ Sum(l, r) = Amount(units + d, nanos - NanosMod * d, l.currency)
        /\ nanos - NanosMod * d \in -Int32Bound..(Int32Bound - 1)
  BY <1>5
<1>7. units + d \in Int64 /\ nanos - NanosMod * d \in Int32
  BY <1>1, <1>6, NanosAssumption DEF Int64, Int32
<1>8. Sum(l, r) = Plain(units + d, nanos - NanosMod * d, l.currency)
  BY <1>6, <1>7, AmountFits
<1>9. (units + d) * NanosMod + (nanos - NanosMod * d) = units * NanosMod + nanos
  BY <1>1, NanosAssumption
<1>. QED
  BY <1>1, <1>2, <1>8, <1>9 DEF Value, Plain, units

(* Where the condition on the nanos fails, which takes two negative amounts *)
(* without units: the nanos wrap around to a positive number, and the sum   *)
(* is worth 2^32 nanos too much.                                            *)
THEOREM NegativeFractionsWrap ==
    ASSUME NEW l \in Amounts, NEW r \in Amounts, Summable(l, r),
           l.units + r.units = 0, l.nanos + r.nanos - NanosMod < -Int32Bound,
           Int64Bound > 1
    PROVE  Value(Sum(l, r)) = Value(l) + Value(r) + 2 * Int32Bound
<1>. DEFINE nanos == l.nanos + r.nanos
            wrapped == nanos - NanosMod + 2 * Int32Bound
<1>1. /\ nanos \in Int /\ -(2 * NanosMod) < nanos
      /\ nanos < 0 /\ nanos - NanosMod < -Int32Bound
  BY NanosAssumption DEF Amounts, Int32, Int64, Summable, IsValid, ValidNanos
<1>2. Value(l) + Value(r) = nanos
  <2>1. Value(l) + Value(r) = (l.units + r.units) * NanosMod + (l.nanos + r.nanos)
    BY NanosAssumption DEF Value, Amounts, Int32, Int64
  <2>2. (l.units + r.units) * NanosMod = 0 /\ nanos \in Int
    BY <1>1, NanosAssumption
  <2>. QED
    BY <2>1, <2>2
<1>3. Wrap(nanos, Int32Bound) = nanos /\ Wrap(0, Int64Bound) = 0
  <2>1. /\ Int32Bound \in Nat \ {0} /\ nanos \in -Int32Bound..(Int32Bound - 1)
        /\ 0 \in -Int64Bound..(Int64Bound - 1)
    BY <1>1, NanosAssumption
  <2>. QED
    BY <2>1, NanosAssumption, WrapFits
<1>. HIDE DEF nanos
<1>4. Sum(l, r) = Amount(1, nanos - NanosMod, l.currency)
  BY <1>1, <1>3 DEF Sum, Borrow, nanos
<1>5. Wrap(nanos - NanosMod, Int32Bound) = wrapped
  <2>1. /\ nanos - NanosMod + Int32Bound \in -(2 * Int32Bound)..(-1)
        /\ 2 * Int32Bound \in Nat \ {0}
    BY <1>1, NanosAssumption
  <2>2. \A b \in Nat \ {0} : \A a \in -b..(-1) : a % b = a + b
    OBVIOUS
  <2>. QED
    BY <1>1, <2>1, <2>2, NanosAssumption DEF Wrap
<1>6. Value(Sum(l, r)) = Wrap(1, Int64Bound) * NanosMod + wrapped
  BY <1>4, <1>5 DEF Amount, Value
<1>7. Wrap(1, Int64Bound) = 1
  BY NanosAssumption, WrapFits
<1>. QED
  BY <1>1, <1>2, <1>6, <1>7, NanosAssumption

(* Two valid amounts make a valid one when they hold a unit between them,   *)
(* or no nanos at all.                                                      *)
THEOREM SumIsValid ==
    ASSUME NEW l, NEW r, NonNegative(l), NonNegative(r), Summable(l, r), Fits(l, r),
           l.units + r.units > 0 \/ l.nanos + r.nanos = 0
    PROVE  IsValid(Sum(l, r)) /\ NonNegative(Sum(l, r))
<1>. DEFINE units == l.units + r.units
            nanos == l.nanos + r.nanos
<1>1. /\ units \in Nat /\ nanos \in Nat /\ nanos <= 2 * (NanosMod - 1)
      /\ Sum(l, r) = IF nanos < NanosMod THEN Plain(units, nanos, l.currency)
                     ELSE Plain(units + 1, nanos - NanosMod, l.currency)
  BY SumCases
<1>2. units + 1 < Int64Bound /\ l.currency \in Currencies
  BY DEF Fits, NonNegative, Amounts
<1>. HIDE DEF units, nanos
<1>. QED
  BY <1>1, <1>2, NanosAssumption
  DEF Plain, IsValid, SignMatches, ValidNanos, NonNegative, Amounts, Int64, Int32

(* Two amounts below one unit whose sum is below one unit, and not zero,    *)
(* make an amount that IsValid rejects: the branch for different signs      *)
(* takes zero units for negative ones.                                      *)
THEOREM SumOfFractionsIsInvalid ==
    ASSUME NEW l, NEW r, NonNegative(l), NonNegative(r), Summable(l, r), Fits(l, r),
           l.units = 0, r.units = 0, 0 < l.nanos + r.nanos, l.nanos + r.nanos < NanosMod
    PROVE  ~IsValid(Sum(l, r))
<1>. DEFINE nanos == l.nanos + r.nanos
<1>1. nanos \in Nat /\ Sum(l, r) = Plain(1, nanos - NanosMod, l.currency)
  BY SumCases
<1>. HIDE DEF nanos
<1>2. nanos - NanosMod < 0
  BY <1>1, NanosAssumption DEF nanos
<1>. QED
  BY <1>1, <1>2, NanosAssumption DEF Plain, IsValid, SignMatches

-----------------------------------------------------------------------------
\* Carrying once is division with remainder.
LEMMA CarriedDivides ==
    ASSUME NEW units \in Int, NEW nanos \in Nat
    PROVE  \E q \in Nat, r \in 0..(NanosMod - 1) :
              /\ nanos = q * NanosMod + r
              /\ Carried(units, nanos) = [units |-> units + q, nanos |-> r]
<1>. DEFINE q == nanos \div NanosMod
            r == nanos % NanosMod
<1>1. NanosMod \in Nat \ {0}
  BY NanosAssumption
<1>2. /\ q \in Nat /\ r \in 0..(NanosMod - 1)
      /\ nanos = NanosMod * q + r
  BY <1>1
<1>3. Quotient(nanos, NanosMod) = q
  BY DEF Quotient
<1>. HIDE DEF q, r
<1>4. NanosMod * q = q * NanosMod
  BY <1>1, <1>2
<1>5. Remainder(nanos, NanosMod) = r
  BY <1>1, <1>2, <1>3 DEF Remainder
<1>6. Carried(units, nanos) = [units |-> units + q, nanos |-> r]
  BY <1>5 DEF Carried, q
<1>. QED
  BY <1>2, <1>4, <1>6

(* What a page adds up and carries once reads exactly like the amount that  *)
(* was charged, if that is valid, not negative and worth the same: an order *)
(* page cannot show another total than the one TotalIsExact is about.       *)
THEOREM PageReadsLikeTheCharge ==
    ASSUME NEW units \in Int, NEW nanos \in Nat,
           NEW m, NonNegative(m), IsValid(m),
           units * NanosMod + nanos = Value(m)
    PROVE  Carried(units, nanos) = [units |-> m.units, nanos |-> m.nanos]
<1>1. PICK q \in Nat, r \in 0..(NanosMod - 1) :
        /\ nanos = q * NanosMod + r
        /\ Carried(units, nanos) = [units |-> units + q, nanos |-> r]
  BY CarriedDivides
<1>2. /\ NanosMod \in Nat \ {0}
      /\ m.units \in Int /\ m.nanos \in 0..(NanosMod - 1)
  BY NanosAssumption DEF NonNegative, Amounts, Int64, Int32, IsValid, ValidNanos
<1>. DEFINE d == units + q - m.units
<1>3. d \in Int
  BY <1>1, <1>2
<1>4. d * NanosMod = m.nanos - r
  <2>1. (units + q - m.units) * NanosMod
          = units * NanosMod + q * NanosMod - m.units * NanosMod
    BY <1>2
  <2>2. units * NanosMod + (q * NanosMod + r) = m.units * NanosMod + m.nanos
    BY <1>1 DEF Value
  <2>3. /\ units * NanosMod \in Int /\ q * NanosMod \in Int
        /\ m.units * NanosMod \in Int /\ r \in Int /\ m.nanos \in Int
    BY <1>1, <1>2
  <2>. HIDE DEF d
  <2>. QED
    BY <2>1, <2>2, <2>3 DEF d
<1>5. m.nanos - r < NanosMod /\ m.nanos - r > -NanosMod
  BY <1>1, <1>2
<1>. HIDE DEF d
<1>6. d = 0
  <2>1. CASE d >= 1
    <3>1. d * NanosMod >= NanosMod
      BY <1>2, <1>3, <2>1
    <3>. QED
      BY <1>4, <1>5, <3>1, <1>2, <1>1
  <2>2. CASE d <= -1
    <3>1. d * NanosMod <= -NanosMod
      BY <1>2, <1>3, <2>2
    <3>. QED
      BY <1>4, <1>5, <3>1, <1>2, <1>1
  <2>. QED
    BY <1>3, <2>1, <2>2
<1>7. r = m.nanos
  BY <1>1, <1>2, <1>4, <1>6
<1>8. units + q = m.units
  BY <1>1, <1>2, <1>6 DEF d
<1>. QED
  BY <1>1, <1>7, <1>8

-----------------------------------------------------------------------------
(* Induction, by the pigeonhole principle: if m were the missing number,    *)
(* the successor would map the numbers up to m that are in S one to one to  *)
(* those of them that are not 0.                                            *)
LEMMA NatSetInduction ==
    ASSUME NEW S, 0 \in S, \A k \in Nat : k \in S => k + 1 \in S
    PROVE  \A k \in Nat : k \in S
<1>1. SUFFICES ASSUME NEW m \in Nat, m \notin S
               PROVE  FALSE
  OBVIOUS
<1>. DEFINE F == S \cap (0..m)
            T == F \ {0}
            f == [x \in F |-> x + 1]
<1>2. IsFiniteSet(F) /\ IsFiniteSet(T)
  <2>1. IsFiniteSet(0..m)
    BY FS_Interval
  <2>. QED
    BY <2>1, FS_Subset
<1>3. 0 \in F /\ Cardinality(T) = Cardinality(F) - 1
  <2>1. 0 \in F
    OBVIOUS
  <2>. QED
    BY <1>2, <2>1, FS_RemoveElement
<1>4. Cardinality(F) \in Nat /\ Cardinality(T) \in Nat
  BY <1>2, FS_CardinalityType
<1>5. f \in [F -> T]
  <2>1. SUFFICES ASSUME NEW x \in F
                 PROVE  x + 1 \in T
    OBVIOUS
  <2>2. x # m /\ x \in Nat /\ x <= m
    BY <1>1
  <2>. QED
    BY <2>2
<1>6. \A x, y \in F : x # y => f[x] # f[y]
  OBVIOUS
<1>. HIDE DEF F, T, f
<1>7. PICK x, y \in F : x # y /\ f[x] = f[y]
  BY <1>2, <1>3, <1>4, <1>5, FS_PigeonHole
<1>. QED
  BY <1>6, <1>7

-----------------------------------------------------------------------------
(* Sums.  SumTo is a recursive function: that there is such a function has  *)
(* to be shown before its equation can be used.                             *)
Sums(term, domain, f) ==
    f = [i \in domain |-> IF i = 0 THEN 0 ELSE f[i - 1] + term[i]]

LEMMA FiniteSumsAgree ==
    ASSUME NEW term, NEW k \in Nat, NEW m \in Nat, k <= m,
           NEW f, Sums(term, 0..k, f), NEW g, Sums(term, 0..m, g)
    PROVE  \A i \in 0..k : f[i] = g[i]
<1>. DEFINE S == {i \in Nat : i <= k => f[i] = g[i]}
<1>1. 0 \in S
  BY DEF Sums
<1>2. ASSUME NEW i \in Nat, i \in S
      PROVE  i + 1 \in S
  <2>1. SUFFICES ASSUME i + 1 <= k
                 PROVE  f[i + 1] = g[i + 1]
    OBVIOUS
  <2>2. /\ i + 1 \in 0..k /\ i + 1 \in 0..m /\ i + 1 # 0 /\ (i + 1) - 1 = i
    BY <2>1
  <2>3. f[i + 1] = f[i] + term[i + 1] /\ g[i + 1] = g[i] + term[i + 1]
    BY <2>2 DEF Sums
  <2>. QED
    BY <1>2, <2>1, <2>3
<1>. HIDE DEF S
<1>3. \A i \in Nat : i \in S
  BY <1>1, <1>2, NatSetInduction
<1>. QED
  BY <1>3 DEF S

LEMMA FiniteSumsExist ==
    ASSUME NEW term
    PROVE  \A k \in Nat : \E f : Sums(term, 0..k, f)
<1>. DEFINE S == {k \in Nat : \E f : Sums(term, 0..k, f)}
<1>1. 0 \in S
  <2>. DEFINE f == [i \in 0..0 |-> 0]
  <2>1. Sums(term, 0..0, f)
    BY DEF Sums
  <2>. QED
    BY <2>1
<1>2. ASSUME NEW k \in Nat, k \in S
      PROVE  k + 1 \in S
  <2>1. PICK f : Sums(term, 0..k, f)
    BY <1>2
  <2>. DEFINE g == [i \in 0..(k + 1) |-> IF i = k + 1 THEN f[k] + term[k + 1] ELSE f[i]]
  <2>2. ASSUME NEW i \in 0..(k + 1)
        PROVE  g[i] = IF i = 0 THEN 0 ELSE g[i - 1] + term[i]
    <3>1. CASE i = k + 1
      BY <3>1
    <3>2. CASE i # k + 1
      <4>1. i \in 0..k /\ g[i] = f[i]
        BY <2>2, <3>2
      <4>2. f[i] = IF i = 0 THEN 0 ELSE f[i - 1] + term[i]
        BY <2>1, <4>1 DEF Sums
      <4>3. i # 0 => i - 1 \in 0..(k + 1) /\ i - 1 # k + 1
        BY <4>1
      <4>. QED
        BY <4>1, <4>2, <4>3
    <3>. QED
      BY <3>1, <3>2
  <2>3. Sums(term, 0..(k + 1), g)
    <3>1. g = [i \in 0..(k + 1) |-> g[i]]
      OBVIOUS
    <3>. HIDE DEF g
    <3>. QED
      BY <2>2, <3>1 DEF Sums
  <2>. HIDE DEF g
  <2>. QED
    BY <2>3
<1>. HIDE DEF S
<1>3. \A k \in Nat : k \in S
  BY <1>1, <1>2, NatSetInduction
<1>. QED
  BY <1>3 DEF S

LEMMA SumsExist ==
    ASSUME NEW term
    PROVE  \E f : Sums(term, Nat, f)
<1>. DEFINE upTo(k) == CHOOSE g : Sums(term, 0..k, g)
            f == [i \in Nat |-> upTo(i)[i]]
<1>1. \A k \in Nat : Sums(term, 0..k, upTo(k))
  BY FiniteSumsExist
<1>. HIDE DEF upTo
<1>2. ASSUME NEW i \in Nat
      PROVE  f[i] = IF i = 0 THEN 0 ELSE f[i - 1] + term[i]
  <2>1. i \in 0..i /\ Sums(term, 0..i, upTo(i))
    BY <1>1
  <2>2. upTo(i)[i] = IF i = 0 THEN 0 ELSE upTo(i)[i - 1] + term[i]
    BY <2>1 DEF Sums
  <2>3. CASE i # 0
    <3>1. i - 1 \in Nat /\ i - 1 <= i /\ i - 1 \in 0..(i - 1)
      BY <2>3
    <3>2. Sums(term, 0..(i - 1), upTo(i - 1))
      BY <1>1, <3>1
    <3>3. upTo(i - 1)[i - 1] = upTo(i)[i - 1]
      BY <2>1, <3>1, <3>2, FiniteSumsAgree
    <3>. QED
      BY <2>2, <2>3, <3>1, <3>3
  <2>. QED
    BY <2>2, <2>3
<1>3. f = [i \in Nat |-> f[i]]
  OBVIOUS
<1>. HIDE DEF f
<1>4. Sums(term, Nat, f)
  BY <1>2, <1>3 DEF Sums
<1>. QED
  BY <1>4

\* The sum of no terms, and of one more.
LEMMA SumToStep ==
    ASSUME NEW term
    PROVE  /\ SumTo(0, term) = 0
           /\ \A k \in Nat : SumTo(k + 1, term) = SumTo(k, term) + term[k + 1]
<1>. DEFINE sum == CHOOSE f : Sums(term, Nat, f)
<1>1. Sums(term, Nat, sum)
  BY SumsExist
<1>2. \A k : SumTo(k, term) = sum[k]
  BY DEF SumTo, Sums
<1>. HIDE DEF sum
<1>3. \A k \in Nat : k + 1 \in Nat /\ k + 1 # 0 /\ (k + 1) - 1 = k
  OBVIOUS
<1>4. sum[0] = 0 /\ \A k \in Nat : sum[k + 1] = sum[k] + term[k + 1]
  BY <1>1, <1>3 DEF Sums
<1>. QED
  BY <1>2, <1>4

\* A sum of integers is one, and of numbers that are not negative is not.
LEMMA SumToType ==
    ASSUME NEW term, NEW k \in Nat, \A i \in 1..k : term[i] \in Int
    PROVE  /\ SumTo(k, term) \in Int
           /\ (\A i \in 1..k : term[i] >= 0) => SumTo(k, term) >= 0
<1>. DEFINE S == {j \in Nat : j <= k =>
                     /\ SumTo(j, term) \in Int
                     /\ (\A i \in 1..k : term[i] >= 0) => SumTo(j, term) >= 0}
<1>1. 0 \in S
  BY SumToStep
<1>2. ASSUME NEW j \in Nat, j \in S
      PROVE  j + 1 \in S
  <2>1. SumTo(j + 1, term) = SumTo(j, term) + term[j + 1]
    BY SumToStep
  <2>2. j + 1 <= k => j + 1 \in 1..k
    OBVIOUS
  <2>. QED
    BY <1>2, <2>1, <2>2
<1>. HIDE DEF S
<1>3. \A j \in Nat : j \in S
  BY <1>1, <1>2, NatSetInduction
<1>. QED
  BY <1>3 DEF S

\* Sums of units and of nanos are a sum of amounts.
LEMMA SumToCombined ==
    ASSUME NEW a, NEW b, NEW c, NEW k \in Nat,
           \A i \in 1..k : /\ a[i] \in Int /\ b[i] \in Int
                           /\ c[i] = a[i] * NanosMod + b[i]
    PROVE  SumTo(k, c) = SumTo(k, a) * NanosMod + SumTo(k, b)
<1>. DEFINE S == {j \in Nat : j <= k =>
                     SumTo(j, c) = SumTo(j, a) * NanosMod + SumTo(j, b)}
<1>1. 0 \in S
  BY SumToStep, NanosAssumption
<1>2. ASSUME NEW j \in Nat, j \in S
      PROVE  j + 1 \in S
  <2>1. SUFFICES ASSUME j + 1 <= k
                 PROVE  SumTo(j + 1, c) = SumTo(j + 1, a) * NanosMod + SumTo(j + 1, b)
    OBVIOUS
  <2>2. /\ j + 1 \in 1..k /\ j <= k /\ \A i \in 1..j : i \in 1..k
    BY <2>1
  <2>. DEFINE x == SumTo(j, a)
              y == SumTo(j, b)
              u == a[j + 1]
              v == b[j + 1]
  <2>3. x \in Int /\ y \in Int /\ u \in Int /\ v \in Int
    BY <2>2, SumToType
  <2>4. /\ SumTo(j + 1, a) = x + u /\ SumTo(j + 1, b) = y + v
        /\ SumTo(j + 1, c) = (x * NanosMod + y) + (u * NanosMod + v)
    BY <1>2, <2>2, SumToStep
  <2>. HIDE DEF x, y, u, v
  <2>5. (x * NanosMod + y) + (u * NanosMod + v) = (x + u) * NanosMod + (y + v)
    BY <2>3, NanosAssumption
  <2>. QED
    BY <2>4, <2>5
<1>. HIDE DEF S
<1>3. \A j \in Nat : j \in S
  BY <1>1, <1>2, NatSetInduction
<1>. QED
  BY <1>3 DEF S

\* Sums of equal terms are equal.
LEMMA SumToAgree ==
    ASSUME NEW a, NEW b, NEW k \in Nat, \A i \in 1..k : a[i] = b[i]
    PROVE  SumTo(k, a) = SumTo(k, b)
<1>. DEFINE S == {j \in Nat : j <= k => SumTo(j, a) = SumTo(j, b)}
<1>1. 0 \in S
  BY SumToStep
<1>2. ASSUME NEW j \in Nat, j \in S
      PROVE  j + 1 \in S
  <2>1. j + 1 <= k => j + 1 \in 1..k
    OBVIOUS
  <2>. QED
    BY <1>2, <2>1, SumToStep
<1>. HIDE DEF S
<1>3. \A j \in Nat : j \in S
  BY <1>1, <1>2, NatSetInduction
<1>. QED
  BY <1>3 DEF S

-----------------------------------------------------------------------------
(* Types.  Go's integers wrap, so a sum stays an amount.                    *)
LEMMA WrapType ==
    ASSUME NEW bound \in Nat \ {0}, NEW i \in Int
    PROVE  Wrap(i, bound) \in -bound..(bound - 1)
<1>1. /\ 2 * bound \in Nat \ {0} /\ i + bound \in Int
  OBVIOUS
<1>2. (i + bound) % (2 * bound) \in 0..(2 * bound - 1)
  BY <1>1
<1>. QED
  BY <1>2 DEF Wrap

LEMMA AmountType ==
    ASSUME NEW units \in Int, NEW nanos \in Int, NEW currency \in Currencies
    PROVE  Amount(units, nanos, currency) \in Amounts
<1>1. Int32Bound \in Nat \ {0}
  BY NanosAssumption
<1>2. Wrap(units, Int64Bound) \in Int64 /\ Wrap(nanos, Int32Bound) \in Int32
  BY <1>1, NanosAssumption, WrapType DEF Int32, Int64
<1>. QED
  BY <1>2 DEF Amount, Amounts

LEMMA SumType ==
    ASSUME NEW l \in Amounts, NEW r \in Amounts
    PROVE  Sum(l, r) \in Amounts
<1>. DEFINE units == Wrap(l.units + r.units, Int64Bound)
            nanos == Wrap(l.nanos + r.nanos, Int32Bound)
<1>1. units \in Int /\ nanos \in Int /\ l.currency \in Currencies
  <2>1. Int32Bound \in Nat \ {0}
    BY NanosAssumption
  <2>2. l.units + r.units \in Int /\ l.nanos + r.nanos \in Int
    BY DEF Amounts, Int32, Int64
  <2>3. /\ units \in -Int64Bound..(Int64Bound - 1)
        /\ nanos \in -Int32Bound..(Int32Bound - 1)
    BY <2>1, <2>2, NanosAssumption, WrapType
  <2>. QED
    BY <2>3, NanosAssumption DEF Amounts
<1>2. Sum(l, r) \in {Carry(units, nanos, l.currency), Borrow(units, nanos, l.currency)}
  BY DEF Sum
<1>. HIDE DEF units, nanos
<1>3. Carry(units, nanos, l.currency) \in Amounts
  <2>1. NanosMod \in Nat \ {0}
    BY NanosAssumption
  <2>2. Quotient(nanos, NanosMod) \in Int
    BY <1>1, <2>1 DEF Quotient
  <2>3. Remainder(nanos, NanosMod) \in Int
    BY <1>1, <2>1, <2>2 DEF Remainder
  <2>. QED
    BY <1>1, <2>2, <2>3, AmountType DEF Carry
<1>4. Borrow(units, nanos, l.currency) \in Amounts
  BY <1>1, NanosAssumption, AmountType DEF Borrow
<1>. QED
  BY <1>2, <1>3, <1>4

Order == [cost : Costs, quantity : Quantities]

TypeInv ==
    /\ TypeOK
    /\ Len(items) <= MaxItems
    /\ phase = "multiply" => done < Len(items)
    /\ phase = "charge" => done = Len(items)

LEMMA ZeroPlain == Zero = Plain(0, 0, Currency) /\ Zero \in Amounts
<1>1. 0 \in Int64 /\ 0 \in Int32 /\ Currency \in Currencies
  BY NanosAssumption, OrderAssumption DEF Int64, Int32
<1>. QED
  BY <1>1, AmountFits, AmountType DEF Zero

LEMMA AsUint32Type ==
    ASSUME NEW quantity \in Int
    PROVE  AsUint32(quantity) \in 0..(Uint32 - 1)
BY OrderAssumption DEF AsUint32

LEMMA InitTypes == Init => TypeInv
<1>1. SUFFICES ASSUME Init PROVE TypeInv
  OBVIOUS
<1>2. PICK k \in 0..MaxItems : items \in [1..k -> Order]
  BY <1>1 DEF Init, Order
<1>3. k \in Nat /\ k <= MaxItems
  BY OrderAssumption
<1>4. items \in Seq(Order) /\ Len(items) = k
  BY <1>2, <1>3
<1>. QED
  BY <1>1, <1>3, <1>4, ZeroPlain, OrderAssumption DEF Init, TypeInv, TypeOK, Order

LEMMA ItemType ==
    ASSUME TypeInv, done < Len(items)
    PROVE  /\ Item \in Order /\ Item.cost \in Amounts /\ Item.quantity \in Int
           /\ done + 1 \in 1..Len(items) /\ done + 1 \in DOMAIN items
<1>1. /\ items \in Seq(Order) /\ done \in 0..Len(items)
      /\ done + 1 \in 1..Len(items) /\ done + 1 \in DOMAIN items
  BY DEF TypeInv, TypeOK, Order
<1>2. Item \in Order
  BY <1>1 DEF Item
<1>3. Item.cost \in Costs /\ Item.quantity \in (1 - Uint32)..(Uint32 - 1)
  BY <1>2, OrderAssumption DEF Order
<1>4. Item.cost \in Amounts /\ Item.quantity \in Int
  BY <1>3, OrderAssumption
<1>. QED
  BY <1>1, <1>2, <1>4

LEMMA TypeInvariant == Spec => []TypeInv
<1>1. TypeInv /\ [Next]_vars => TypeInv'
  <2>1. SUFFICES ASSUME TypeInv, [Next]_vars
                 PROVE  TypeInv'
    OBVIOUS
  <2>. USE DEF TypeInv, TypeOK
  <2>2. CASE AddShipping
    <3>1. Sum(total, shipping) \in Amounts
      BY <2>1, SumType, OrderAssumption
    <3>. QED
      BY <2>1, <2>2, <3>1 DEF AddShipping, Panic
  <2>3. CASE BeginItem
    <3>1. Item.cost \in Amounts /\ AsUint32(Item.quantity) \in 0..(Uint32 - 1)
      BY <2>1, <2>3, ItemType, AsUint32Type DEF BeginItem
    <3>. QED
      BY <2>1, <2>3, <3>1 DEF BeginItem
  <2>4. CASE MultiplyStep
    <3>1. Sum(out, Item.cost) \in Amounts
      BY <2>1, <2>4, ItemType, SumType DEF MultiplyStep
    <3>2. CASE Summable(out, Item.cost)
      <4>1. n' \in 0..(Uint32 - 1)
        BY <2>1, <2>4, <3>2, OrderAssumption DEF MultiplyStep
      <4>. QED
        BY <2>1, <2>4, <3>1, <3>2, <4>1 DEF MultiplyStep
    <3>3. CASE ~Summable(out, Item.cost)
      BY <2>1, <2>4, <3>3 DEF MultiplyStep, Panic
    <3>. QED
      BY <3>2, <3>3
  <2>5. CASE AddItem
    <3>1. Sum(total, out) \in Amounts
      BY <2>1, SumType
    <3>. QED
      BY <2>1, <2>5, <3>1 DEF AddItem, Panic
  <2>6. CASE Charge
    BY <2>1, <2>6 DEF Charge
  <2>7. CASE UNCHANGED vars
    BY <2>1, <2>7 DEF vars
  <2>. QED
    BY <2>1, <2>2, <2>3, <2>4, <2>5, <2>6, <2>7 DEF Next
<1>. QED
  BY <1>1, InitTypes, PTL DEF Spec

(* What the loops leave behind, panics included, is amounts whose units and *)
(* nanos keep their width and a 32-bit count.                               *)
THEOREM TypeCorrect == Spec => []TypeOK
<1>1. TypeInv => TypeOK
  BY DEF TypeInv
<1>. QED
  BY <1>1, TypeInvariant, PTL

-----------------------------------------------------------------------------
(* The total is exact.                                                      *)

\* The units MultiplySlow can reach for one item, one unit carried included.
ItemUnits(K) == Uint32 * (K + 1) + 1

(* Prices of at most K units and not negative, for which no order overflows *)
(* an int64: with K = 10^6 and the 2^32 a wrapped quantity can reach, an    *)
(* order may have two thousand items.                                       *)
PricesUpTo(K) ==
    /\ \A c \in Costs : NonNegative(c) /\ c.units <= K
    /\ K + 1 + MaxItems * ItemUnits(K) < Int64Bound

\* An amount that is refused by the next Sum, or has no sign.
NoSign(m) == IsValid(m) => NonNegative(m)

TotalPart(K) ==
    phase # "panicked" =>
        /\ IF phase = "shipping" THEN total = Zero /\ done = 0
                                 ELSE Value(total) = Due
        /\ NoSign(total)
        /\ total.units + (MaxItems - done) * ItemUnits(K) <= K + 1 + MaxItems * ItemUnits(K)

(* MultiplySlow adds the price n - 1 more times.                            *)
OutPart(K) ==
    phase = "multiply" =>
        /\ Value(out) + (IF n = 0 THEN 0 ELSE n - 1) * Value(Item.cost)
             = Times(Item.quantity) * Value(Item.cost)
        /\ NoSign(out)
        /\ out.units + n * (K + 1) <= Uint32 * (K + 1)

ExactInv(K) == TypeInv /\ TotalPart(K) /\ OutPart(K)

LEMMA SumNoSign ==
    ASSUME NEW l, NEW r, NonNegative(l), NonNegative(r), Summable(l, r), Fits(l, r)
    PROVE  /\ NoSign(Sum(l, r))
           /\ Sum(l, r).units <= l.units + r.units + 1
           /\ Value(Sum(l, r)) = Value(l) + Value(r)
<1>. DEFINE units == l.units + r.units
            nanos == l.nanos + r.nanos
<1>1. /\ units \in Nat /\ nanos \in Nat /\ nanos <= 2 * (NanosMod - 1)
      /\ Sum(l, r) = IF units = 0 /\ nanos > 0 THEN Plain(1, nanos - NanosMod, l.currency)
                     ELSE IF nanos < NanosMod THEN Plain(units, nanos, l.currency)
                     ELSE Plain(units + 1, nanos - NanosMod, l.currency)
  BY SumCases
<1>2. units + 1 < Int64Bound /\ l.currency \in Currencies
  BY DEF Fits, NonNegative, Amounts
<1>3. l \in Amounts /\ r \in Amounts /\ InRange(l, r)
  <2>1. units \in Nat /\ nanos \in Nat
    BY <1>1
  <2>. HIDE DEF units, nanos
  <2>2. nanos - NanosMod >= -Int32Bound /\ units - 1 >= -Int64Bound
    BY <2>1, NanosAssumption
  <2>3. /\ l.units \in Int /\ r.units \in Int /\ l.nanos \in Int /\ r.nanos \in Int
    BY DEF NonNegative, Amounts, Int64, Int32
  <2>4. InRange(l, r)
    BY <1>2, <2>2, <2>3, NanosAssumption DEF InRange, units, nanos
  <2>. QED
    BY <2>4 DEF NonNegative
<1>4. Value(Sum(l, r)) = Value(l) + Value(r)
  BY <1>3, SumIsExact
<1>. HIDE DEF units, nanos
<1>5. Sum(l, r).units <= units + 1
  BY <1>1 DEF Plain
<1>6. ASSUME IsValid(Sum(l, r))
      PROVE  NonNegative(Sum(l, r))
  <2>1. ~(units = 0 /\ nanos > 0 /\ nanos < NanosMod)
    BY <1>1, <1>6, NanosAssumption DEF Plain, IsValid, SignMatches
  <2>2. CASE nanos < NanosMod
    BY <1>1, <1>2, <2>1, <2>2, NanosAssumption DEF Plain, NonNegative, Amounts, Int64, Int32
  <2>3. CASE nanos >= NanosMod
    <3>1. Sum(l, r) \in {Plain(1, nanos - NanosMod, l.currency),
                         Plain(units + 1, nanos - NanosMod, l.currency)}
      BY <1>1, <2>3, NanosAssumption
    <3>2. nanos - NanosMod \in Int32 /\ nanos - NanosMod >= 0
      BY <1>1, <2>3, NanosAssumption DEF Int32
    <3>3. units + 1 \in Int64 /\ 1 \in Int64
      BY <1>1, <1>2, NanosAssumption DEF Int64
    <3>. QED
      BY <1>1, <1>2, <3>1, <3>2, <3>3 DEF Plain, NonNegative, Amounts
  <2>. QED
    BY <1>1, <2>2, <2>3, NanosAssumption
<1>. QED
  BY <1>4, <1>5, <1>6 DEF units, NoSign

\* What the bounds on the prices leave for one more item.
LEMMA RoomForAnItem ==
    ASSUME NEW K \in Nat, PricesUpTo(K), TypeInv, done < Len(items)
    PROVE  /\ ItemUnits(K) \in Nat
           /\ (MaxItems - done) * ItemUnits(K) \in Nat /\ MaxItems * ItemUnits(K) \in Nat
           /\ (MaxItems - done) * ItemUnits(K) >= ItemUnits(K)
           /\ MaxItems * ItemUnits(K) >= ItemUnits(K)
           /\ (MaxItems - (done + 1)) * ItemUnits(K)
                = (MaxItems - done) * ItemUnits(K) - ItemUnits(K)
<1>. DEFINE G == ItemUnits(K)
<1>1. G \in Nat
  BY OrderAssumption DEF ItemUnits
<1>2. MaxItems \in Nat /\ MaxItems - done \in Nat /\ MaxItems - done >= 1 /\ MaxItems >= 1
  BY OrderAssumption DEF TypeInv, TypeOK
<1>. HIDE DEF G
<1>3. \A a \in Nat : a >= 1 => /\ a * G \in Nat /\ a * G >= G
                               /\ (a - 1) * G = a * G - G
  BY <1>1
<1>4. MaxItems - (done + 1) = (MaxItems - done) - 1
  BY OrderAssumption DEF TypeInv, TypeOK
<1>. QED
  BY <1>1, <1>2, <1>3, <1>4 DEF G

\* No sum of an order overflows.
LEMMA ShippingFits ==
    ASSUME NEW K \in Nat, PricesUpTo(K), ExactInv(K), AddShipping
    PROVE  Fits(total, shipping)
<1>1. total.units = 0
  BY ZeroPlain DEF AddShipping, ExactInv, TotalPart, Plain
<1>2. shipping.units \in Int /\ shipping.units <= K
  BY OrderAssumption DEF ExactInv, TypeInv, TypeOK, PricesUpTo, Amounts, Int64
<1>3. K + 1 < Int64Bound
  <2>1. ItemUnits(K) \in Nat
    BY OrderAssumption DEF ItemUnits
  <2>2. MaxItems * ItemUnits(K) \in Nat
    BY <2>1, OrderAssumption
  <2>. QED
    BY <2>2, NanosAssumption DEF PricesUpTo
<1>. QED
  BY <1>1, <1>2, <1>3, NanosAssumption DEF Fits

LEMMA CostFits ==
    ASSUME NEW K \in Nat, PricesUpTo(K), ExactInv(K), MultiplyStep
    PROVE  Fits(out, Item.cost)
<1>. DEFINE room == Uint32 * (K + 1)
            used == n * (K + 1)
<1>1. done < Len(items) /\ phase = "multiply" /\ n > 1 /\ n \in Nat
  BY OrderAssumption DEF MultiplyStep, ExactInv, TypeInv, TypeOK
<1>2. Item.cost \in Amounts /\ Item.cost.units <= K
  BY <1>1, ItemType DEF ExactInv, PricesUpTo, Order
<1>3. Item.cost.units \in Int /\ out.units \in Int
  BY <1>2 DEF ExactInv, TypeInv, TypeOK, Amounts, Int64
<1>4. room \in Int /\ used \in Int /\ K + 1 <= used
  BY <1>1, OrderAssumption
<1>5. out.units + used <= room
  BY <1>1 DEF ExactInv, OutPart
<1>6. room + 1 < Int64Bound
  <2>1. /\ ItemUnits(K) = room + 1 /\ ItemUnits(K) <= MaxItems * ItemUnits(K)
        /\ MaxItems * ItemUnits(K) \in Int
    BY <1>1, RoomForAnItem DEF ExactInv, ItemUnits
  <2>. QED
    BY <1>4, <2>1, NanosAssumption DEF PricesUpTo
<1>. HIDE DEF room, used
<1>. QED
  BY <1>2, <1>3, <1>4, <1>5, <1>6, NanosAssumption DEF Fits

LEMMA OutFits ==
    ASSUME NEW K \in Nat, PricesUpTo(K), ExactInv(K), AddItem
    PROVE  Fits(total, out) /\ out.units + 1 <= ItemUnits(K)
<1>1. done < Len(items) /\ phase = "multiply" /\ n <= 1 /\ n \in Nat
  BY OrderAssumption DEF AddItem, ExactInv, TypeInv, TypeOK
<1>2. total.units \in Int /\ out.units \in Int
  BY DEF ExactInv, TypeInv, TypeOK, Amounts, Int64
<1>3. out.units + 1 <= ItemUnits(K)
  <2>1. n * (K + 1) >= 0 /\ n * (K + 1) \in Int /\ Uint32 * (K + 1) \in Int
    BY <1>1, OrderAssumption
  <2>2. out.units + n * (K + 1) <= Uint32 * (K + 1)
    BY <1>1 DEF ExactInv, OutPart
  <2>. QED
    BY <1>2, <2>1, <2>2 DEF ItemUnits
<1>. DEFINE G == ItemUnits(K)
            left == (MaxItems - done) * G
            all == MaxItems * G
<1>4. G \in Int /\ left \in Int /\ all \in Int /\ left >= G
  BY <1>1, RoomForAnItem DEF ExactInv
<1>5. total.units + left <= K + 1 + all /\ K + 1 + all < Int64Bound
  BY <1>1 DEF ExactInv, TotalPart, PricesUpTo
<1>. HIDE DEF G, left, all
<1>6. Fits(total, out)
  BY <1>2, <1>3, <1>4, <1>5, NanosAssumption DEF Fits, G
<1>. QED
  BY <1>3, <1>6

LEMMA ShippingExact ==
    ASSUME NEW K \in Nat, PricesUpTo(K), ExactInv(K), AddShipping
    PROVE  TotalPart(K)' /\ OutPart(K)'
<1>. USE DEF TotalPart, OutPart
<1>1. CASE Summable(total, shipping)
  <2>1. /\ total = Plain(0, 0, Currency) /\ done = 0
        /\ NonNegative(shipping) /\ shipping.units <= K /\ NonNegative(total)
    <3>1. total = Plain(0, 0, Currency) /\ total \in Amounts /\ done = 0
      BY ZeroPlain DEF AddShipping, ExactInv
    <3>2. NonNegative(shipping) /\ shipping.units <= K
      BY DEF ExactInv, TypeInv, TypeOK, PricesUpTo
    <3>. QED
      BY <3>1, <3>2 DEF Plain, NonNegative
  <2>2. shipping.units \in Int /\ total.units = 0 /\ Value(total) = 0 /\ Value(shipping) \in Int
    BY <2>1, NanosAssumption DEF NonNegative, Amounts, Int64, Int32, Plain, Value
  <2>3. Fits(total, shipping)
    BY ShippingFits
  <2>4. /\ NoSign(Sum(total, shipping))
        /\ Sum(total, shipping).units <= K + 1
        /\ Value(Sum(total, shipping)) = Value(shipping)
    <3>1. /\ NoSign(Sum(total, shipping))
          /\ Sum(total, shipping).units <= total.units + shipping.units + 1
          /\ Value(Sum(total, shipping)) = Value(total) + Value(shipping)
      BY <1>1, <2>1, <2>3, SumNoSign
    <3>2. Sum(total, shipping).units \in Int
      BY <2>1, SumType DEF NonNegative, Amounts, Int64
    <3>. QED
      BY <2>1, <2>2, <3>1, <3>2
  <2>5. Due' = Value(shipping)
    BY <1>1, <2>1, <2>2, SumToStep DEF Due, AddShipping
  <2>6. /\ total' = Sum(total, shipping) /\ phase' = "items" /\ done' = 0
    BY <1>1, <2>1 DEF AddShipping
  <2>7. total'.units + (MaxItems - 0) * ItemUnits(K) <= K + 1 + MaxItems * ItemUnits(K)
    <3>1. ItemUnits(K) \in Nat
      BY OrderAssumption DEF ItemUnits
    <3>2. (MaxItems - 0) * ItemUnits(K) = MaxItems * ItemUnits(K) /\ MaxItems * ItemUnits(K) \in Int
      BY <3>1, OrderAssumption
    <3>3. total'.units \in Int
      BY <2>1, <2>6, SumType DEF NonNegative, Amounts, Int64
    <3>. QED
      BY <2>4, <2>6, <3>2, <3>3
  <2>. QED
    BY <2>4, <2>5, <2>6, <2>7
<1>2. CASE ~Summable(total, shipping)
  BY <1>2 DEF AddShipping, Panic
<1>. QED
  BY <1>1, <1>2

LEMMA BeginExact ==
    ASSUME NEW K \in Nat, PricesUpTo(K), ExactInv(K), BeginItem
    PROVE  TotalPart(K)' /\ OutPart(K)'
<1>1. TotalPart(K)'
  BY DEF BeginItem, ExactInv, TotalPart, Due, Prices
<1>2. OutPart(K)'
  <2>. DEFINE v == Value(Item.cost)
              q == AsUint32(Item.quantity)
  <2>1. /\ NonNegative(Item.cost) /\ Item.cost.units <= K /\ Item.cost \in Amounts
        /\ q \in 0..(Uint32 - 1)
    BY ItemType, AsUint32Type DEF BeginItem, ExactInv, PricesUpTo, Order
  <2>2. Item.cost.units \in Int /\ v \in Int
    BY <2>1, NanosAssumption DEF Amounts, Int64, Int32, Value
  <2>3. out' = Item.cost /\ n' = q /\ Item' = Item /\ phase' = "multiply"
    BY DEF BeginItem, Item
  <2>. HIDE DEF v, q
  <2>4. v + (IF q = 0 THEN 0 ELSE q - 1) * v = (IF q = 0 THEN 1 ELSE q) * v
    BY <2>1, <2>2
  <2>5. Item.cost.units + q * (K + 1) <= Uint32 * (K + 1)
    <3>1. q * (K + 1) <= (Uint32 - 1) * (K + 1)
      BY <2>1, OrderAssumption
    <3>2. (Uint32 - 1) * (K + 1) = Uint32 * (K + 1) - (K + 1)
      BY OrderAssumption
    <3>3. q * (K + 1) \in Int /\ Uint32 * (K + 1) \in Int
      BY <2>1, OrderAssumption
    <3>. QED
      BY <2>1, <2>2, <3>1, <3>2, <3>3
  <2>6. (Value(out) + (IF n = 0 THEN 0 ELSE n - 1) * Value(Item.cost)
             = Times(Item.quantity) * Value(Item.cost))'
    BY <2>3, <2>4 DEF v, q, Times
  <2>. QED
    BY <2>1, <2>3, <2>5, <2>6 DEF OutPart, NoSign
<1>. QED
  BY <1>1, <1>2

LEMMA MultiplyExact ==
    ASSUME NEW K \in Nat, PricesUpTo(K), ExactInv(K), MultiplyStep
    PROVE  TotalPart(K)' /\ OutPart(K)'
<1>1. CASE Summable(out, Item.cost)
  <2>1. /\ done < Len(items) /\ phase = "multiply" /\ n > 1 /\ n \in Nat
        /\ out' = Sum(out, Item.cost) /\ n' = n - 1 /\ Item' = Item
        /\ UNCHANGED <<shipping, items, total, done, phase>>
    BY <1>1, OrderAssumption DEF MultiplyStep, ExactInv, TypeInv, TypeOK, Item
  <2>2. TotalPart(K)'
    BY <2>1 DEF ExactInv, TotalPart, Due, Prices
  <2>3. /\ NonNegative(Item.cost) /\ Item.cost.units <= K /\ NonNegative(out)
        /\ Item.cost \in Amounts /\ out \in Amounts
    BY <1>1, <2>1, ItemType DEF ExactInv, PricesUpTo, Order, OutPart, NoSign, Summable, TypeInv, TypeOK
  <2>4. /\ Item.cost.units \in Int /\ out.units \in Int /\ Sum(out, Item.cost).units \in Int
        /\ Value(Item.cost) \in Int /\ Value(out) \in Int
    BY <2>3, SumType, NanosAssumption DEF Amounts, Int64, Int32, Value
  <2>. DEFINE room == Uint32 * (K + 1)
              used == n * (K + 1)
  <2>5. /\ room \in Int /\ used \in Int /\ K + 1 <= used
        /\ (n - 1) * (K + 1) = used - (K + 1)
    BY <2>1, OrderAssumption
  <2>6. out.units + used <= room
    BY <2>1 DEF ExactInv, OutPart
  <2>. HIDE DEF room, used
  <2>8. Fits(out, Item.cost)
    BY CostFits
  <2>9. /\ NoSign(Sum(out, Item.cost))
        /\ Sum(out, Item.cost).units <= out.units + Item.cost.units + 1
        /\ Value(Sum(out, Item.cost)) = Value(out) + Value(Item.cost)
    BY <1>1, <2>3, <2>8, SumNoSign
  <2>10. out'.units + n' * (K + 1) <= Uint32 * (K + 1)
    <3>1. out'.units + (used - (K + 1)) <= room
      BY <2>1, <2>3, <2>4, <2>5, <2>6, <2>9, SMTT(30)
    <3>. QED
      BY <2>1, <2>5, <3>1 DEF room
  <2>11. Value(out') + (IF n' = 0 THEN 0 ELSE n' - 1) * Value(Item.cost)
           = Times(Item.quantity) * Value(Item.cost)
    <3>. DEFINE v == Value(Item.cost)
                w == Value(out)
    <3>1. w + (n - 1) * v = Times(Item.quantity) * v
      BY <2>1 DEF ExactInv, OutPart
    <3>2. Value(out') = w + v /\ n' = n - 1 /\ n' # 0 /\ n - 1 \in Int
      BY <2>1, <2>9
    <3>3. v \in Int /\ w \in Int
      BY <2>4
    <3>. HIDE DEF v, w
    <3>4. (w + v) + ((n - 1) - 1) * v = w + (n - 1) * v
      BY <3>2, <3>3
    <3>. QED
      BY <3>1, <3>2, <3>4 DEF v
  <2>12. OutPart(K)'
    BY <2>1, <2>9, <2>10, <2>11 DEF OutPart
  <2>. QED
    BY <2>2, <2>12
<1>2. CASE ~Summable(out, Item.cost)
  BY <1>2 DEF MultiplyStep, Panic, TotalPart, OutPart
<1>. QED
  BY <1>1, <1>2

LEMMA AddExact ==
    ASSUME NEW K \in Nat, PricesUpTo(K), ExactInv(K), AddItem
    PROVE  TotalPart(K)' /\ OutPart(K)'
<1>1. CASE Summable(total, out)
  <2>1. /\ done < Len(items) /\ phase = "multiply" /\ n <= 1 /\ n \in Nat /\ done \in Nat
        /\ total' = Sum(total, out) /\ done' = done + 1 /\ phase' = "items"
        /\ UNCHANGED <<shipping, items>>
    BY <1>1, OrderAssumption DEF AddItem, ExactInv, TypeInv, TypeOK
  <2>2. /\ NonNegative(total) /\ NonNegative(out) /\ total \in Amounts /\ out \in Amounts
    BY <1>1, <2>1 DEF ExactInv, TotalPart, OutPart, NoSign, Summable, TypeInv, TypeOK
  <2>3. /\ total.units \in Int /\ out.units \in Int /\ Sum(total, out).units \in Int
        /\ Value(total) \in Int /\ Value(out) \in Int
    BY <2>2, SumType, NanosAssumption DEF Amounts, Int64, Int32, Value
  <2>. DEFINE G == ItemUnits(K)
              left == (MaxItems - done) * G
              all == MaxItems * G
  <2>4. /\ G \in Int /\ left \in Int /\ all \in Int /\ left >= G
        /\ (MaxItems - (done + 1)) * G = left - G
    BY <2>1, RoomForAnItem DEF ExactInv
  <2>5. out.units + 1 <= G /\ Fits(total, out)
    BY OutFits
  <2>6. total.units + left <= K + 1 + all
    BY <2>1 DEF ExactInv, TotalPart
  <2>. HIDE DEF G, left, all
  <2>8. /\ NoSign(Sum(total, out))
        /\ Sum(total, out).units <= total.units + out.units + 1
        /\ Value(Sum(total, out)) = Value(total) + Value(out)
    BY <1>1, <2>2, <2>5, SumNoSign
  <2>9. total'.units + (MaxItems - done') * ItemUnits(K) <= K + 1 + MaxItems * ItemUnits(K)
    <3>1. total'.units <= total.units + out.units + 1 /\ total'.units \in Int
      BY <2>1, <2>3, <2>8
    <3>2. total'.units <= total.units + G
      BY <2>3, <2>4, <2>5, <3>1
    <3>3. total'.units + (left - G) <= K + 1 + all
      BY <2>3, <2>4, <2>6, <3>1, <3>2
    <3>. QED
      BY <2>1, <2>4, <3>3 DEF G, all
  <2>10. Value(out) = Times(Item.quantity) * Value(Item.cost)
    <3>1. Value(Item.cost) \in Int
      BY <2>1, ItemType, NanosAssumption DEF ExactInv, Amounts, Int64, Int32, Value
    <3>2. Value(out) + (IF n = 0 THEN 0 ELSE n - 1) * Value(Item.cost)
            = Times(Item.quantity) * Value(Item.cost)
      BY <2>1 DEF ExactInv, OutPart
    <3>3. (IF n = 0 THEN 0 ELSE n - 1) = 0 /\ 0 * Value(Item.cost) = 0
      BY <2>1, <3>1
    <3>. QED
      BY <2>3, <3>2, <3>3
  <2>11. Value(total') = Due'
    <3>1. Prices' = Prices /\ Prices[done + 1] = Value(out)
      BY <2>1, <2>10, ItemType DEF ExactInv, Prices, Item
    <3>2. SumTo(done + 1, Prices) = SumTo(done, Prices) + Value(out)
      BY <2>1, <3>1, SumToStep
    <3>3. Value(total) = Value(shipping) + SumTo(done, Prices)
      BY <2>1 DEF ExactInv, TotalPart, Due
    <3>4. /\ Value(shipping) \in Int /\ SumTo(done, Prices) \in Int
      <4>1. Value(shipping) \in Int
        BY OrderAssumption, NanosAssumption
        DEF ExactInv, TypeInv, TypeOK, Amounts, Int64, Int32, Value
      <4>2. ASSUME NEW i \in 1..done
            PROVE  Prices[i] \in Int
        <5>1. /\ items \in Seq(Order) /\ i \in DOMAIN items
          BY <2>1, <4>2 DEF ExactInv, TypeInv, TypeOK, Order
        <5>2. items[i] \in Order
          BY <5>1
        <5>3. items[i].cost \in Amounts /\ items[i].quantity \in Int
          <6>1. items[i].cost \in Costs /\ items[i].quantity \in (1 - Uint32)..(Uint32 - 1)
            BY <5>2, OrderAssumption DEF Order
          <6>. QED
            BY <6>1, OrderAssumption
        <5>4. Value(items[i].cost) \in Int
          BY <5>3, NanosAssumption DEF Amounts, Int64, Int32, Value
        <5>5. Times(items[i].quantity) \in Int
          BY <5>3, AsUint32Type DEF Times
        <5>. QED
          BY <5>1, <5>4, <5>5 DEF Prices
      <4>. QED
        BY <2>1, <4>1, <4>2, SumToType
    <3>5. Due' = Value(shipping) + (SumTo(done, Prices) + Value(out))
      BY <2>1, <3>1, <3>2 DEF Due
    <3>. QED
      BY <2>1, <2>3, <2>8, <3>3, <3>4, <3>5
  <2>. QED
    BY <2>1, <2>8, <2>9, <2>11 DEF TotalPart, OutPart
<1>2. CASE ~Summable(total, out)
  BY <1>2 DEF AddItem, Panic, TotalPart, OutPart
<1>. QED
  BY <1>1, <1>2

LEMMA ExactInvariant ==
    ASSUME NEW K \in Nat, PricesUpTo(K)
    PROVE  Spec => []ExactInv(K)
<1>1. Init /\ TypeInv => TotalPart(K) /\ OutPart(K)
  <2>1. SUFFICES ASSUME Init
                 PROVE  TotalPart(K) /\ OutPart(K)
    OBVIOUS
  <2>2. ItemUnits(K) \in Nat /\ MaxItems \in Nat
    BY OrderAssumption DEF ItemUnits
  <2>3. MaxItems * ItemUnits(K) \in Int /\ MaxItems - 0 = MaxItems
    BY <2>2
  <2>4. total.units = 0 /\ NoSign(total)
    BY <2>1, ZeroPlain DEF Init, Plain, NoSign, NonNegative
  <2>. QED
    BY <2>1, <2>2, <2>3, <2>4 DEF Init, TotalPart, OutPart
<1>2. TypeInv /\ TypeInv' /\ TotalPart(K) /\ OutPart(K) /\ [Next]_vars
        => TotalPart(K)' /\ OutPart(K)'
  <2>1. SUFFICES ASSUME ExactInv(K), [Next]_vars
                 PROVE  TotalPart(K)' /\ OutPart(K)'
    BY DEF ExactInv
  <2>2. CASE Charge
    BY <2>1, <2>2 DEF Charge, ExactInv, TotalPart, OutPart, Due, Prices
  <2>3. CASE UNCHANGED vars
    BY <2>1, <2>3 DEF vars, ExactInv, TotalPart, OutPart, Due, Prices, Item
  <2>. QED
    BY <2>1, <2>2, <2>3, ShippingExact, BeginExact, MultiplyExact, AddExact DEF Next
<1>3. TypeInv /\ TotalPart(K) /\ OutPart(K) => ExactInv(K)
  BY DEF ExactInv
<1>. QED
  BY <1>1, <1>2, <1>3, TypeInvariant, PTL DEF Spec

(* The running total is worth, to the nano, the shipping cost and the items *)
(* added so far, each counted as often as its quantity says and a quantity  *)
(* of zero once: neither the carries of Sum nor the loop of MultiplySlow    *)
(* lose or make a nano, while no amount reaches the width of an int64.      *)
THEOREM OrderTotalIsExact ==
    ASSUME NEW K \in Nat, PricesUpTo(K)
    PROVE  Spec => []TotalIsExact
<1>1. ExactInv(K) => TotalIsExact
  BY DEF ExactInv, TotalPart, TotalIsExact
<1>. QED
  BY <1>1, ExactInvariant, PTL

-----------------------------------------------------------------------------
(* The pages.                                                               *)

\* A valid amount that is worth at least nothing has no negative part.
LEMMA ValidIsNonNegative ==
    ASSUME NEW m \in Amounts, IsValid(m), Value(m) >= 0
    PROVE  NonNegative(m)
<1>1. /\ m.units \in Int /\ m.nanos \in Int /\ NanosMod \in Nat \ {0}
      /\ -NanosMod < m.nanos /\ m.nanos < NanosMod
  BY NanosAssumption DEF Amounts, Int64, Int32, IsValid, ValidNanos
<1>2. /\ m.units * NanosMod \in Int
      /\ m.units <= -1 => m.units * NanosMod <= -NanosMod
      /\ m.units = 0 => m.units * NanosMod = 0
  BY <1>1
<1>3. m.units >= 0
  BY <1>1, <1>2 DEF Value
<1>4. m.nanos >= 0
  BY <1>1, <1>2, <1>3 DEF Value, IsValid, SignMatches
<1>. QED
  BY <1>3, <1>4 DEF NonNegative

\* What the page's carrying makes of a line is worth what went in.
LEMMA CarriedKeepsValue ==
    ASSUME NEW units \in Int, NEW nanos \in Nat
    PROVE  Value(Carried(units, nanos)) = units * NanosMod + nanos
<1>1. PICK q \in Nat, r \in 0..(NanosMod - 1) :
        /\ nanos = q * NanosMod + r
        /\ Carried(units, nanos) = [units |-> units + q, nanos |-> r]
  BY CarriedDivides
<1>2. Value(Carried(units, nanos)) = (units + q) * NanosMod + r
  BY <1>1 DEF Value
<1>3. (units + q) * NanosMod + r = units * NanosMod + (q * NanosMod + r)
  BY <1>1, NanosAssumption
<1>. QED
  BY <1>1, <1>2, <1>3

LEMMA PageFollows ==
    ASSUME TypeInv, TotalIsExact
    PROVE  PageShowsTheCharge
<1>. SUFFICES ASSUME phase = "charge", IsValid(total),
                     \A m \in {shipping} \cup {items[i].cost : i \in DOMAIN items} :
                        m.units >= 0 /\ m.nanos >= 0,
                     \A i \in DOMAIN items : items[i].quantity > 0
              PROVE  /\ PageTotal = [units |-> total.units, nanos |-> total.nanos]
                     /\ Value(shipping) + SumTo(Len(items), Lines) = Value(total)
  BY DEF PageShowsTheCharge
<1>. DEFINE L == Len(items)
            U == SumTo(L, UnitsOf)
            N == SumTo(L, NanosOf)
<1>1. /\ L \in Nat /\ DOMAIN items = 1..L /\ items \in Seq(Order) /\ done = L
      /\ total \in Amounts /\ NanosMod \in Nat \ {0}
  BY NanosAssumption DEF TypeInv, TypeOK, Order
<1>2. /\ shipping.units \in Nat /\ shipping.nanos \in Nat
  BY OrderAssumption DEF TypeInv, TypeOK, Amounts, Int64, Int32
<1>3. ASSUME NEW i \in 1..L
      PROVE  /\ UnitsOf[i] \in Int /\ UnitsOf[i] >= 0
             /\ NanosOf[i] \in Int /\ NanosOf[i] >= 0
             /\ Prices[i] = UnitsOf[i] * NanosMod + NanosOf[i]
             /\ Lines[i] = Prices[i]
  <2>. DEFINE c == items[i].cost
              q == items[i].quantity
  <2>1. i \in DOMAIN items /\ items[i] \in Order
    BY <1>1
  <2>2. c \in Amounts /\ q \in (1 - Uint32)..(Uint32 - 1)
    <3>1. c \in Costs /\ q \in Quantities
      BY <2>1 DEF Order
    <3>. QED
      BY <3>1, OrderAssumption
  <2>3. c.units >= 0 /\ c.nanos >= 0 /\ q > 0
    BY <2>1
  <2>4. c.units \in Nat /\ c.nanos \in Nat /\ q \in Nat /\ q # 0
    BY <2>2, <2>3, OrderAssumption DEF Amounts, Int64, Int32
  <2>5. Times(q) = q
    <3>1. \A b \in Nat \ {0} : \A a \in 0..(b - 1) : a % b = a
      OBVIOUS
    <3>2. q \in 0..(Uint32 - 1)
      BY <2>2, <2>4, OrderAssumption
    <3>. QED
      BY <2>4, <3>1, <3>2, OrderAssumption DEF Times, AsUint32
  <2>6. /\ UnitsOf[i] = c.units * q /\ NanosOf[i] = c.nanos * q
        /\ Prices[i] = q * Value(c) /\ Lines[i] = Value(Carried(c.units * q, c.nanos * q))
    BY <2>1, <2>5 DEF UnitsOf, NanosOf, Prices, Lines, LineTotal
  <2>7. /\ c.units * q \in Nat /\ c.nanos * q \in Nat
        /\ q * Value(c) = (c.units * q) * NanosMod + c.nanos * q
    <3>0. \A a, b \in Nat : a * b \in Nat
      OBVIOUS
    <3>1. c.units * q \in Nat /\ c.nanos * q \in Nat /\ c.units * NanosMod \in Nat
      BY <1>1, <2>4, <3>0
    <3>2. q * (c.units * NanosMod + c.nanos) = q * (c.units * NanosMod) + q * c.nanos
      BY <2>4, <3>1
    <3>3. q * (c.units * NanosMod) = (c.units * q) * NanosMod /\ q * c.nanos = c.nanos * q
      BY <1>1, <2>4
    <3>. QED
      BY <3>1, <3>2, <3>3 DEF Value
  <2>8. Lines[i] = (c.units * q) * NanosMod + c.nanos * q
    BY <2>6, <2>7, CarriedKeepsValue
  <2>. HIDE DEF c, q
  <2>. QED
    BY <2>6, <2>7, <2>8
<1>4. /\ SumTo(L, Prices) = U * NanosMod + N /\ SumTo(L, Lines) = SumTo(L, Prices)
      /\ U \in Nat /\ N \in Nat
  <2>. HIDE DEF L
  <2>1. SumTo(L, Prices) = U * NanosMod + N
    BY <1>1, <1>3, SumToCombined
  <2>2. SumTo(L, Lines) = SumTo(L, Prices)
    BY <1>1, <1>3, SumToAgree
  <2>3. U \in Int /\ N \in Int /\ U >= 0 /\ N >= 0
    BY <1>1, <1>3, SumToType
  <2>. QED
    BY <2>1, <2>2, <2>3
<1>5. Value(total) = Value(shipping) + SumTo(L, Prices)
  BY <1>1 DEF TotalIsExact, Due
<1>. HIDE DEF L, U, N
<1>6. /\ U + shipping.units \in Int /\ N + shipping.nanos \in Nat
      /\ (U + shipping.units) * NanosMod + (N + shipping.nanos) = Value(total)
      /\ Value(total) >= 0
  <2>. DEFINE su == shipping.units
              sn == shipping.nanos
  <2>1. su \in Nat /\ sn \in Nat /\ Value(total) = (su * NanosMod + sn) + (U * NanosMod + N)
    BY <1>2, <1>4, <1>5 DEF Value
  <2>. HIDE DEF su, sn
  <2>2. (U + su) * NanosMod + (N + sn) = (su * NanosMod + sn) + (U * NanosMod + N)
    BY <1>1, <1>4, <2>1
  <2>3. (U + su) * NanosMod \in Nat
    BY <1>1, <1>4, <2>1
  <2>. QED
    BY <1>4, <2>1, <2>2, <2>3 DEF su, sn
<1>7. NonNegative(total)
  BY <1>1, <1>6, ValidIsNonNegative
<1>8. PageTotal = [units |-> total.units, nanos |-> total.nanos]
  BY <1>6, <1>7, PageReadsLikeTheCharge DEF PageTotal, U, N, L
<1>. QED
  BY <1>4, <1>5, <1>8 DEF L

(* For every order, when the card is charged the total that the cart page   *)
(* and the order page work out for themselves is the amount that was        *)
(* charged, and their lines add up to it.                                   *)
THEOREM PagesShowTheCharge ==
    ASSUME NEW K \in Nat, PricesUpTo(K)
    PROVE  Spec => []PageShowsTheCharge
BY TypeInvariant, OrderTotalIsExact, PageFollows, PTL

-----------------------------------------------------------------------------
(* Whole prices.                                                            *)

\* An amount that has a unit, or nothing at all: Sum keeps those valid.
Whole(m) ==
    /\ NonNegative(m) /\ IsValid(m) /\ m.currency = Currency
    /\ m.units > 0 \/ m.nanos = 0

WholeOrder ==
    \A m \in {shipping} \cup {items[i].cost : i \in DOMAIN items} :
        m.units > 0 \/ m.nanos = 0

WholeInv ==
    WholeOrder => /\ phase # "panicked"
                  /\ Whole(total)
                  /\ phase = "multiply" => Whole(out)

\* What the currency service made of the prices and the shipping cost.
Converted == \A c \in Costs : IsValid(c) /\ c.currency = Currency

LEMMA WholeSum ==
    ASSUME NEW l, NEW r, Whole(l), Whole(r), Fits(l, r)
    PROVE  Summable(l, r) /\ Whole(Sum(l, r))
<1>. DEFINE units == l.units + r.units
            nanos == l.nanos + r.nanos
<1>1. NonNegative(l) /\ NonNegative(r) /\ Summable(l, r)
  BY DEF Whole, Summable
<1>2. units > 0 \/ nanos = 0
  BY DEF Whole, NonNegative, Amounts, Int64, Int32
<1>3. IsValid(Sum(l, r)) /\ NonNegative(Sum(l, r))
  BY <1>1, <1>2, SumIsValid
<1>4. /\ units \in Nat /\ nanos \in Nat /\ nanos <= 2 * (NanosMod - 1)
      /\ Sum(l, r) = IF nanos < NanosMod THEN Plain(units, nanos, l.currency)
                     ELSE Plain(units + 1, nanos - NanosMod, l.currency)
  BY <1>1, <1>2, SumCases
<1>5. l.currency = Currency
  BY DEF Whole
<1>. HIDE DEF units, nanos
<1>6. Sum(l, r).units > 0 \/ Sum(l, r).nanos = 0
  BY <1>2, <1>4, NanosAssumption DEF Plain
<1>7. Sum(l, r).currency = Currency
  BY <1>4, <1>5 DEF Plain
<1>. QED
  BY <1>1, <1>3, <1>6, <1>7 DEF Whole

LEMMA WholeItem ==
    ASSUME NEW K \in Nat, PricesUpTo(K), Converted, TypeInv, WholeOrder, done < Len(items)
    PROVE  Whole(Item.cost)
<1>1. Item.cost \in Costs /\ done + 1 \in DOMAIN items
  BY ItemType DEF Order
<1>2. Item.cost.units > 0 \/ Item.cost.nanos = 0
  BY <1>1 DEF WholeOrder, Item
<1>. QED
  BY <1>1, <1>2 DEF Whole, Converted, PricesUpTo

(* With valid prices in the user's currency, none of them between zero and  *)
(* one unit, money.Must never panics while an order is added up, and what   *)
(* is charged is a valid amount.                                            *)
THEOREM WholePricesAreSafe ==
    ASSUME NEW K \in Nat, PricesUpTo(K), Converted
    PROVE  Spec => []WholePricesNeverPanic
<1>1. Init => WholeInv
  <2>1. Whole(Zero)
    BY ZeroPlain, NanosAssumption
    DEF Whole, NonNegative, Plain, IsValid, SignMatches, ValidNanos
  <2>. QED
    BY <2>1 DEF Init, WholeInv
<1>2. ExactInv(K) /\ WholeInv /\ [Next]_vars => WholeInv'
  <2>1. SUFFICES ASSUME ExactInv(K), WholeInv, [Next]_vars, WholeOrder'
                 PROVE  (/\ phase # "panicked"
                         /\ Whole(total)
                         /\ phase = "multiply" => Whole(out))'
    BY DEF WholeInv
  <2>2. shipping' = shipping /\ items' = items
    BY <2>1 DEF Next, vars, AddShipping, BeginItem, MultiplyStep, AddItem, Charge, Panic
  <2>3. /\ WholeOrder /\ phase # "panicked" /\ Whole(total)
        /\ phase = "multiply" => Whole(out)
    BY <2>1, <2>2 DEF WholeOrder, WholeInv
  <2>4. CASE AddShipping
    <3>1. Whole(shipping)
      BY <2>1, <2>3
      DEF WholeOrder, Whole, Converted, PricesUpTo, ExactInv, TypeInv, TypeOK
    <3>2. Summable(total, shipping) /\ Whole(Sum(total, shipping))
      BY <2>1, <2>3, <2>4, <3>1, ShippingFits, WholeSum
    <3>. QED
      BY <2>4, <3>2 DEF AddShipping
  <2>5. CASE BeginItem
    <3>1. Whole(Item.cost)
      BY <2>1, <2>3, <2>5, WholeItem DEF BeginItem, ExactInv
    <3>. QED
      BY <2>3, <2>5, <3>1 DEF BeginItem
  <2>6. CASE MultiplyStep
    <3>1. Whole(Item.cost) /\ Whole(out)
      BY <2>1, <2>3, <2>6, WholeItem DEF MultiplyStep, ExactInv, TypeInv
    <3>2. Summable(out, Item.cost) /\ Whole(Sum(out, Item.cost))
      BY <2>1, <2>6, <3>1, CostFits, WholeSum
    <3>. QED
      BY <2>3, <2>6, <3>2 DEF MultiplyStep
  <2>7. CASE AddItem
    <3>1. Summable(total, out) /\ Whole(Sum(total, out))
      BY <2>1, <2>3, <2>7, OutFits, WholeSum DEF AddItem
    <3>. QED
      BY <2>7, <3>1 DEF AddItem
  <2>8. CASE Charge
    BY <2>3, <2>8 DEF Charge
  <2>9. CASE UNCHANGED vars
    BY <2>3, <2>9 DEF vars
  <2>. QED
    BY <2>1, <2>4, <2>5, <2>6, <2>7, <2>8, <2>9 DEF Next
<1>3. WholeInv => WholePricesNeverPanic
  BY DEF WholeInv, WholeOrder, WholePricesNeverPanic, Whole
<1>. QED
  BY <1>1, <1>2, <1>3, ExactInvariant, PTL DEF Spec
=============================================================================
