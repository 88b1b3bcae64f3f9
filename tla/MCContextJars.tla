--------------------------- MODULE MCContextJars ---------------------------
(* Small instances of ContextJars for TLC. *)
EXTENDS ContextJars, TLC

CONSTANTS g1, g2, g3, a1, a2, k1, k2, k3

MCPages == {g1, g2, g3}
MCOneCaller == {a1}
MCCallers == {a1, a2}
MCCookies == {k1}
MCTwoCookies == {k1, k3}
MCPageCookies == {k2}
MCNoCookies == {}

PageSymmetry == Permutations(MCPages)
Symmetry == PageSymmetry \cup Permutations(MCCallers)
=============================================================================
