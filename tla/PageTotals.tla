----------------------------- MODULE PageTotals -----------------------------
(***************************************************************************)
(* The amounts the shop's pages work out themselves: the price of a line   *)
(* of the cart or of an order, and the total of either with its shipping   *)
(* (frontend/components/CartItems, pages/cart/checkout/[orderId]).  They   *)
(* add units and nanos each on their own and carry once, where checkout    *)
(* adds amounts one by one and carries each time.  A page's numbers are    *)
(* JavaScript's: exact for integers of this size, and they do not wrap.    *)
(***************************************************************************)
EXTENDS Money

(* mutant: the carried nanos are not taken away *)
Carried_kept(units, nanos) ==
    [units |-> units + nanos \div NanosMod, nanos |-> nanos]

\* Math.floor of the quotient, and JavaScript's remainder, which truncates.
Carried(units, nanos) ==
    [units |-> units + nanos \div NanosMod, nanos |-> Remainder(nanos, NanosMod)]

LineTotal(price, quantity) == Carried(price.units * quantity, price.nanos * quantity)
=============================================================================
