----------------------------- MODULE MCSanctioning -----------------------------
(* Sanctioning on small instances.  Requests are interchangeable.          *)
EXTENDS Sanctioning, TLC

CONSTANTS m1, b  \* a member in a channel; a key of another kind

MCKeyPos == [k \in Members \cup OtherKeys |-> CASE k = b -> 1 [] k = m1 -> 2]

Symmetry == Permutations(Handlers) \cup Permutations(Admins)
==============================================================================
