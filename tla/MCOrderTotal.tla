--------------------------- MODULE MCOrderTotal ---------------------------
(* Small instances of OrderTotal: four nanos to a unit, every amount below  *)
(* two units, orders of up to two items, and eight for 2^32.                *)
EXTENDS OrderTotal

MCCosts == {Amount(u, d, "EUR") : u \in 0..1, d \in 0..(NanosMod - 1)}
MCQuantities == {-6, 0, 1, 3}
=============================================================================
