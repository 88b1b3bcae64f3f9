------------------------- MODULE MCServerLifecycle -------------------------
(* Small instances of ServerLifecycle for TLC. *)
EXTENDS ServerLifecycle

CONSTANTS c1, c2, c3, k1, v1

MCConn == {c1, c2, c3}
MCTwoConn == {c1, c2}
MCCookies == {k1}
MCValues == {v1}
=============================================================================
