---------------------------- MODULE CommandQueue ----------------------------
(***************************************************************************)
(* What a client of a CDP connection may count on: its commands are carried *)
(* out one after the other in the order they were sent, each once, but for  *)
(* those that need no page or decide about a request, which may overtake.   *)
(* Not every command is answered: see Forget and Close.                     *)
(***************************************************************************)
EXTENDS Naturals, Sequences

CONSTANTS
  Commands,   \* records with an id
  Ahead,      \* those that are answered at once, whatever waits before them
  Decisions   \* those whose text has the name of a decision about a request
VARIABLES todo, closed

vars == <<todo, closed>>

Init == todo = <<>> /\ closed = FALSE

Send(c) ==
  /\ \A k \in DOMAIN todo : todo[k].id # c.id
  /\ todo' = Append(todo, c) /\ UNCHANGED closed

Answer == todo # <<>> /\ todo' = Tail(todo) /\ UNCHANGED closed

Without(k) ==
  /\ todo' = SubSeq(todo, 1, k - 1) \o SubSeq(todo, k + 1, Len(todo))
  /\ UNCHANGED closed

\* An error for one that finds too many waiting; the first never does.
Refuse(k) == k > 1 /\ Without(k)

Overtake(k) == todo[k] \in Ahead /\ Without(k)

\* One that seems to decide, but about no request that waits, may get no answer.
Forget(k) == todo[k] \in Decisions /\ Without(k)

\* What is under way then gets no answer.
Close == closed' = TRUE /\ todo' = <<>>

Next ==
  \/ \E c \in Commands : Send(c)
  \/ Answer
  \/ \E k \in DOMAIN todo : Refuse(k) \/ Overtake(k) \/ Forget(k)
  \/ Close

Spec == Init /\ [][~closed /\ Next]_vars
=============================================================================
