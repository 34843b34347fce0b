---------------------------- MODULE OrderTotal ----------------------------
(***************************************************************************)
(* How PlaceOrder of the checkout service adds up what it charges          *)
(* (src/checkout/main.go), one money.Sum at a time: the shipping cost, and *)
(* for each item the price multiplied by the quantity by MultiplySlow.     *)
(***************************************************************************)
EXTENDS PageTotals, Sequences

CONSTANTS Costs,       \* prices and shipping costs the other services return
          Quantities,  \* quantities in carts, int32
          MaxItems,    \* bound: items of an order
          Currency,    \* the user's currency
          Uint32       \* 2^32

ASSUME OrderAssumption ==
    /\ Costs \subseteq Amounts /\ MaxItems \in Nat
    /\ Currency \in Currencies /\ Uint32 \in Nat \ {0}
    /\ Quantities \subseteq (1 - Uint32)..(Uint32 - 1)

VARIABLES shipping, items,  \* the order: a cost, and [cost, quantity] records
          total,            \* the running total
          done,             \* items added to it
          out, n,           \* MultiplySlow's locals
          phase

vars == <<shipping, items, total, done, out, n, phase>>

Zero == Amount(0, 0, Currency)

TypeOK ==
    /\ shipping \in Costs
    /\ items \in Seq([cost : Costs, quantity : Quantities])
    /\ total \in Amounts /\ out \in Amounts
    /\ done \in 0..Len(items)
    /\ n \in 0..(Uint32 - 1)
    /\ phase \in {"shipping", "items", "multiply", "charge", "panicked"}

Init ==
    /\ shipping \in Costs
    /\ \E k \in 0..MaxItems : items \in [1..k -> [cost : Costs, quantity : Quantities]]
    /\ total = Zero /\ out = Zero
    /\ done = 0 /\ n = 0
    /\ phase = "shipping"

Item == items[done + 1]

\* The conversion of an int32 to a uint32 wraps.
AsUint32_signed(quantity) == quantity
AsUint32(quantity) == quantity % Uint32

-----------------------------------------------------------------------------
\* money.Must panics when Sum returns an error.
Panic ==
    /\ phase' = "panicked"
    /\ UNCHANGED <<shipping, items, total, done, out, n>>

AddShipping ==
    /\ phase = "shipping"
    /\ IF Summable(total, shipping)
       THEN /\ total' = Sum(total, shipping)
            /\ phase' = "items"
            /\ UNCHANGED <<shipping, items, done, out, n>>
       ELSE Panic

BeginItem ==
    /\ phase = "items"
    /\ done < Len(items)
    /\ out' = Item.cost
    /\ n' = AsUint32(Item.quantity)
    /\ phase' = "multiply"
    /\ UNCHANGED <<shipping, items, total, done>>

MultiplyStep ==
    /\ phase = "multiply"
    /\ n > 1
    /\ IF Summable(out, Item.cost)
       THEN /\ out' = Sum(out, Item.cost)
            /\ n' = n - 1
            /\ UNCHANGED <<shipping, items, total, done, phase>>
       ELSE Panic

AddItem ==
    /\ phase = "multiply"
    /\ n <= 1
    /\ IF Summable(total, out)
       THEN /\ total' = Sum(total, out)
            /\ done' = done + 1
            /\ phase' = "items"
            /\ UNCHANGED <<shipping, items, out, n>>
       ELSE Panic

Charge ==
    /\ phase = "items"
    /\ done = Len(items)
    /\ phase' = "charge"
    /\ UNCHANGED <<shipping, items, total, done, out, n>>

Next == AddShipping \/ BeginItem \/ MultiplyStep \/ AddItem \/ Charge

Spec == Init /\ [][Next]_vars

-----------------------------------------------------------------------------
(* Properties.                                                              *)

\* How often MultiplySlow counts the price: once even for a quantity of zero.
Times(quantity) == IF AsUint32(quantity) = 0 THEN 1 ELSE AsUint32(quantity)

\* The sum of the first k terms of a sequence of numbers.
SumTo(k, term) ==
    LET sum[i \in Nat] == IF i = 0 THEN 0 ELSE sum[i - 1] + term[i]
    IN  sum[k]

Prices == [i \in DOMAIN items |-> Times(items[i].quantity) * Value(items[i].cost)]

Due == Value(shipping) + SumTo(done, Prices)

(* The total never drifts: whatever was carried and borrowed on the way, it *)
(* is worth the shipping cost and the items added so far, to the nano.      *)
TotalIsExact ==
    phase \notin {"shipping", "panicked"} => Value(total) = Due

(* With no price between zero and one unit, no sum is refused and what is   *)
(* charged is a valid amount.                                               *)
WholePricesNeverPanic ==
    (\A m \in {shipping} \cup {items[i].cost : i \in DOMAIN items} :
         m.units > 0 \/ m.nanos = 0)
      => phase # "panicked" /\ IsValid(total)

\* The total of the cart page and of the order page: all units, all nanos.
UnitsOf == [i \in DOMAIN items |-> items[i].cost.units * items[i].quantity]
NanosOf == [i \in DOMAIN items |-> items[i].cost.nanos * items[i].quantity]

PageTotal == Carried(SumTo(Len(items), UnitsOf) + shipping.units,
                     SumTo(Len(items), NanosOf) + shipping.nanos)

\* What its lines are worth.
Lines == [i \in DOMAIN items |-> Value(LineTotal(items[i].cost, items[i].quantity))]

(* What the cart page and the order page show as the total is what the card *)
(* was charged, for prices that are not negative and quantities of at least *)
(* one, and the lines above it add up to it: the pages multiply and carry   *)
(* once, MultiplySlow and Sum add as many times as there are units.         *)
PageShowsTheCharge ==
    /\ phase = "charge" /\ IsValid(total)
    /\ \A m \in {shipping} \cup {items[i].cost : i \in DOMAIN items} :
         m.units >= 0 /\ m.nanos >= 0
    /\ \A i \in DOMAIN items : items[i].quantity > 0
    => /\ PageTotal = [units |-> total.units, nanos |-> total.nanos]
       /\ Value(shipping) + SumTo(Len(items), Lines) = Value(total)

(* "different sign. nanos guaranteed to not to go over the limit": every    *)
(* sum of valid amounts is a valid amount.                                  *)
SumsAreValid == IsValid(total) /\ IsValid(out)
=============================================================================
