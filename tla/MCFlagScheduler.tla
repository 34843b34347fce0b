-------------------------- MODULE MCFlagScheduler --------------------------
(* Small instances of FlagScheduler: a plain flag, one with a three-element *)
(* targeting rule, as productCatalogFailure has, and one without a default. *)
EXTENDS FlagScheduler

CONSTANTS plain, ruled, bare, off, on

MCFlags == {plain, ruled, bare}
MCVariants == {off, on}
MCOffers == [f \in MCFlags |-> MCVariants]
MCInitDoc == [f \in MCFlags |-> [default |-> IF f = bare THEN None ELSE off,
                                 on |-> IF f = ruled THEN off ELSE None]]

Select(S) == [f \in MCFlags |-> IF f \in S THEN MCVariants ELSE {}]

\* Holds as long as the interval, on both flags.
Tight == [interval |-> 1, min |-> 1, max |-> 1, concurrency |-> 2, flags |-> Select(MCFlags)]
\* One flag at a time, held for a part of the interval or for all of it.
Loose == [interval |-> 2, min |-> 1, max |-> 2, concurrency |-> 1, flags |-> Select(MCFlags)]
\* Every hold is shorter than the interval.
Short == [interval |-> 3, min |-> 1, max |-> 2, concurrency |-> 1, flags |-> Select(MCFlags)]
\* max_duration_ms does not fit within the interval.
Invalid == [interval |-> 1, min |-> 1, max |-> 2, concurrency |-> 1, flags |-> Select(MCFlags)]

SafetyConfigs == {Loose, Tight, Invalid}
TightConfigs == {Tight}
LooseConfigs == {Loose}
LiveConfigs == {Short}
=============================================================================
