-------------------------- MODULE MCProfileContext --------------------------
(* Small instances of ProfileContext for TLC. *)
EXTENDS ProfileContext

CONSTANTS x1, x2, k1, m1, o1

MCContexts == {x1, x2}
MCCloses == {k1}
MCChanges == {m1}
MCOthers == {o1}
=============================================================================
