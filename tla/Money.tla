------------------------------- MODULE Money -------------------------------
(***************************************************************************)
(* The money arithmetic of the checkout service                            *)
(* (src/checkout/money/money.go).  An amount has int64 units and int32     *)
(* nanos; Go's integers wrap around and its division truncates toward      *)
(* zero.                                                                   *)
(***************************************************************************)
EXTENDS Integers

CONSTANTS NanosMod,    \* nanosMod, 10^9
          Int32Bound,  \* 2^31: an int32 n has -Int32Bound <= n < Int32Bound
          Int64Bound,  \* 2^63
          Currencies   \* currency codes

\* The sum of two valid nanos fits in an int32.
ASSUME NanosAssumption ==
    /\ NanosMod \in Nat \ {0}
    /\ Int32Bound \in Nat /\ 2 * NanosMod <= Int32Bound
    /\ Int64Bound \in Nat \ {0}

Int32 == -Int32Bound..(Int32Bound - 1)
Int64 == -Int64Bound..(Int64Bound - 1)
Amounts == [units : Int64, nanos : Int32, currency : Currencies]

Wrap(n, bound) == ((n + bound) % (2 * bound)) - bound
Quotient(a, b) == IF a >= 0 THEN a \div b ELSE -((-a) \div b)
Remainder(a, b) == a - b * Quotient(a, b)

Amount(units, nanos, currency) ==
    [units |-> Wrap(units, Int64Bound), nanos |-> Wrap(nanos, Int32Bound),
     currency |-> currency]

\* What an amount is worth, in nanos.
Value(m) == m.units * NanosMod + m.nanos

-----------------------------------------------------------------------------
SignMatches(m) == m.nanos = 0 \/ m.units = 0 \/ (m.nanos < 0 <=> m.units < 0)

ValidNanos_max_excluded(nanos) == -(NanosMod - 1) < nanos /\ nanos < NanosMod - 1
ValidNanos(nanos) == -(NanosMod - 1) <= nanos /\ nanos <= NanosMod - 1

IsValid(m) == SignMatches(m) /\ ValidNanos(m.nanos)

Summable(l, r) == IsValid(l) /\ IsValid(r) /\ l.currency = r.currency

Carry_dropped(units, nanos, currency) == Amount(units, Remainder(nanos, NanosMod), currency)

\* The units and nanos point the same way: nanos carry over into units.
Carry(units, nanos, currency) ==
    Amount(units + Quotient(nanos, NanosMod), Remainder(nanos, NanosMod), currency)

\* They point in different ways: one unit is turned into nanos.
Borrow(units, nanos, currency) ==
    IF units > 0 THEN Amount(units - 1, nanos + NanosMod, currency)
                 ELSE Amount(units + 1, nanos - NanosMod, currency)

\* Sum, of amounts for which it gives no error.
Sum(l, r) ==
    LET units == Wrap(l.units + r.units, Int64Bound)
        nanos == Wrap(l.nanos + r.nanos, Int32Bound)
    IN  IF \/ units = 0 /\ nanos = 0
           \/ units > 0 /\ nanos >= 0
           \/ units < 0 /\ nanos <= 0
        THEN Carry(units, nanos, l.currency)
        ELSE Borrow(units, nanos, l.currency)
=============================================================================
