---------------------------- MODULE MCStorefront ----------------------------
(* A small instance of Storefront: one product, of which an earlier visit  *)
(* left one in the cart.                                                   *)
EXTENDS Storefront

CONSTANT p

MCProducts == {p}
MCOldItems == {[x \in {p} |-> 1]}
=============================================================================
