------------------------------- MODULE MCReports -------------------------------
(* Reports on small instances: a message p by member t in channel c1, and     *)
(* members t and peer of every channel.                                      *)
EXTENDS Reports, TLC

CONSTANTS c1, p, t, peer

MCChannelsOf == [s \in Subjects |-> IF s = p THEN {c1} ELSE Channels]
MCTarget == [s \in Subjects |-> IF s = peer THEN peer ELSE t]

Symmetry == Permutations(Handlers)
==============================================================================
