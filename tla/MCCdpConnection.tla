-------------------------- MODULE MCCdpConnection --------------------------
(* CdpConnection for TLC.                                                  *)
EXTENDS CdpConnection

CONSTANTS p1, p2, i1, i2, o1, o2

MCPages == {p1, p2}
MCIds == {i1, i2}
MCOps == {o1, o2}
=============================================================================
