------------------------------- MODULE MCIndexHistory -------------------------------
(* ModerationIndexHistory on small instances.                                     *)
EXTENDS ModerationIndexHistory, TLC

CONSTANTS b, r, o  \* a ban, a restriction and another key

\* "ban_..." sorts before the other keys, "restrict_..." after them.
MCKeyPos == [k \in Keys |-> CASE k = b -> 1 [] k = o -> 2 [] k = r -> 3]

Symmetry == Permutations(Nodes) \cup Permutations(Handlers)
==============================================================================
