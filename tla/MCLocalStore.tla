---------------------------- MODULE MCLocalStore ----------------------------
(* Small instances of LocalStore for TLC: three calls made by two processes. *)
EXTENDS LocalStore, TLC

CONSTANTS c1, c2, c3, p1, p2, v1, v2

MCCalls == {c1, c2, c3}
MCProcs == {p1, p2}
MCProcOf == c1 :> p1 @@ c2 :> p1 @@ c3 :> p2
MCContents == {v1, v2}
MCOneContent == {v1}

Save(bytes, expected) == [bytes |-> bytes, expected |-> expected]
Remove(expected) == [bytes |-> Absent, expected |-> expected]

\* First saves, checkpoints over either version, unconditional writes, removals.
MCRequests ==
  {Save(v1, Absent), Save(v2, v1), Save(v1, v2), Save(v2, Anything),
   Remove(v1), Remove(Anything)}

\* One conditional save and one removal: enough to compete for the lock.
MCFewRequests == {Save(v1, Absent), Remove(Anything)}

\* Two writers that both expect the profile not to exist.
MCRivalRequests == {Save(v1, Absent), Save(v2, Absent)}

Symmetry == Permutations({c1, c2})
=============================================================================
