---------------------------- MODULE MCRestrictions ----------------------------
(* JobHistory, and with it Restrictions, on small instances.               *)
EXTENDS JobHistory, TLC

CONSTANTS m1, m2, b, r  \* members in channels; a ban and a report queue

\* "ban_..." sorts before "report...", and that before "restrict_...".
MCKeyPos == [k \in Members \cup OtherKeys |->
               CASE k = b -> 1 [] k = r -> 2 [] k = m1 -> 3 [] k = m2 -> 4]

Symmetry == Permutations(Handlers)
==============================================================================
