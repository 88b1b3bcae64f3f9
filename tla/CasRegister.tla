---------------------------- MODULE CasRegister ----------------------------
(***************************************************************************)
(* What a profile store promises its callers: the profile under one key is *)
(* a single register, and every save or remove call is one conditional     *)
(* write to it.  A call takes effect at most once, at one instant between  *)
(* its start and its end; it is applied only if the register then holds    *)
(* the version the caller expects, refused only if it does not, and a call *)
(* that reports a failure has changed nothing.                             *)
(*                                                                         *)
(* LocalStore and S3Store state how the two stores of packages/storage     *)
(* relate to this module.                                                  *)
(***************************************************************************)
EXTENDS Integers

CONSTANTS
  Calls,      \* the save and remove calls made on one profile key
  Contents,   \* the profiles that may be stored; a version identifies its content
  Requests,   \* what a call may ask for
  Absent,     \* no profile is stored; as an expectation: expectedVersion = null
  Anything    \* the caller passed no expectedVersion

VARIABLES
  value,      \* the stored profile, or Absent
  operation,  \* what each call asks for; bytes = Absent removes the profile
  started,    \* the calls that have been made
  result      \* how each call ends: "none" while that is open

vars == <<value, operation, started, result>>

Expects(c) == operation[c].expected \in {Anything, value}

Init ==
  /\ value \in Contents \cup {Absent}
  /\ operation \in [Calls -> Requests]
  /\ started = {}
  /\ result = [c \in Calls |-> "none"]

Start(c) ==
  /\ c \notin started
  /\ started' = started \cup {c}
  /\ UNCHANGED <<value, operation, result>>

Open(c) == c \in started /\ result[c] = "none"

Apply(c) ==
  /\ Open(c)
  /\ Expects(c)
  /\ value' = operation[c].bytes
  /\ result' = [result EXCEPT ![c] = "ok"]
  /\ UNCHANGED <<operation, started>>

Refuse(c) ==
  /\ Open(c)
  /\ ~Expects(c)
  /\ result' = [result EXCEPT ![c] = "conflict"]
  /\ UNCHANGED <<value, operation, started>>

\* An I/O error, a timeout or an abort.
Fail(c) ==
  /\ Open(c)
  /\ result' = [result EXCEPT ![c] = "error"]
  /\ UNCHANGED <<value, operation, started>>

Next == \E c \in Calls : Start(c) \/ Apply(c) \/ Refuse(c) \/ Fail(c)

Spec == Init /\ [][Next]_vars
=============================================================================
