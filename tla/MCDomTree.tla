----------------------------- MODULE MCDomTree -----------------------------
(* DomTree for TLC: a document and nodes a, b, c, which are alike.         *)
EXTENDS DomTree, TLC

CONSTANTS d, a, b, c

MCNodes == {d, a, b, c}
MCIds == {"x"}
MCSymmetry == Permutations(MCNodes \ {d})
=============================================================================
