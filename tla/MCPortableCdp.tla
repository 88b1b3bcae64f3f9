--------------------------- MODULE MCPortableCdp ---------------------------
(* Small instances of PortableCdp for TLC. *)
EXTENDS PortableCdp, TLC

CONSTANTS c1, c2, s1, s2, p1, p2, x1, x2, r1

MCConns == {c1, c2}
MCSessions == {s1, s2}
MCPages == {p1, p2}
MCContexts == {x1, x2}
MCRequests == {r1}

Symmetry == Permutations(MCConns) \cup Permutations(MCSessions)
=============================================================================
