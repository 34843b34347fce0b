----------------------------- MODULE FlagHolds -----------------------------
(***************************************************************************)
(* What the flag scheduler promises: each flag has a resting variant; the  *)
(* scheduler takes hold of a flag by giving it another variant, may take a *)
(* held flag over, and gives flags back by setting them to rest.           *)
(***************************************************************************)
CONSTANTS Variants,
          Resting     \* flag -> its resting variant

VARIABLES value,  \* flag -> the variant it has
          held    \* the flags being held

Init ==
    /\ value = Resting
    /\ held = {}

Hold(f, v) ==
    /\ v # Resting[f]
    /\ value' = [value EXCEPT ![f] = v]
    /\ held' = held \cup {f}

Release(S) ==
    /\ value' = [f \in DOMAIN value |-> IF f \in S THEN Resting[f] ELSE value[f]]
    /\ held' = held \ S

Next ==
    \/ \E f \in DOMAIN value, v \in Variants : Hold(f, v)
    \/ \E S \in SUBSET held : Release(S)

Spec == Init /\ [][Next]_<<value, held>>
=============================================================================
