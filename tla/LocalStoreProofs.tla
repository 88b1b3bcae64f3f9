-------------------------- MODULE LocalStoreProofs --------------------------
(***************************************************************************)
(* Proofs about LocalStore for any number of calls, processes and          *)
(* profiles.                                                               *)
(***************************************************************************)
EXTENDS LocalStore, SequenceTheorems, TLAPS

CallActions(c) ==
  Invoke(c) \/ CallStep(c) \/ TimeOut(c) \/ AbortWait(c) \/ IoError(c)

-----------------------------------------------------------------------------
(* Types and turns hold of every behaviour.                                *)

TypeInv == TypeOK /\ TurnsTaken

\* What taking a queue's head off, or adding to its end, does to it.
LEMMA QueueFacts ==
  ASSUME NEW S, NEW q \in Seq(S), NEW x \in S
  PROVE  /\ Append(q, x) \in Seq(S)
         /\ q # <<>> => Head(Append(q, x)) = Head(q) /\ Append(q, x) # <<>>
         /\ q # <<>> => Head(q) \in S /\ Tail(q) \in Seq(S)
  OBVIOUS

LEMMA InitTypeInv == Init => TypeInv
<1> SUFFICES ASSUME Init PROVE TypeInv
  OBVIOUS
<1>1. TurnsTaken
  BY DEF Init, TurnsTaken, Waiting, Critical
<1>2. file \in [bytes : Contents \cup {Absent, Torn}, synced : BOOLEAN]
  BY DEF Init
<1>3. stable \subseteq Contents \cup {Absent, Torn}
  BY DEF Init
<1>4. TypeOK
  BY <1>2, <1>3 DEF Init, TypeOK
<1> QED
  BY <1>1, <1>4 DEF TypeInv

\* Leaving is done by the call whose turn it is.
LEMMA LeaveTypeInv ==
  ASSUME TypeInv, NEW c \in Calls, NEW result \in {"ok", "conflict", "error", "none"},
         pc[c] \in Waiting \cup Critical, HasTurn(c), Leave(c, result)
  PROVE  /\ pc' \in [Calls -> {"new"} \cup Waiting \cup Critical \cup Settled]
         /\ outcome' \in [Calls -> {"none", "ok", "conflict", "error"}]
         /\ queue' \in [Procs -> Seq(Calls)]
         /\ TurnsTaken'
<1>1. ProcOf[c] \in Procs
  BY StoreAssumption
<1>2. /\ pc' = [pc EXCEPT ![c] = "done"]
      /\ outcome' = [outcome EXCEPT ![c] = result]
      /\ queue' = [queue EXCEPT ![ProcOf[c]] = Tail(@)]
  BY DEF Leave, Goto
<1>3. pc' \in [Calls -> {"new"} \cup Waiting \cup Critical \cup Settled]
  BY <1>2 DEF TypeInv, TypeOK, Settled
<1>4. outcome' \in [Calls -> {"none", "ok", "conflict", "error"}]
  BY <1>2 DEF TypeInv, TypeOK
<1>5. queue' \in [Procs -> Seq(Calls)]
  BY <1>1, <1>2 DEF TypeInv, TypeOK, HasTurn
<1>6. TurnsTaken'
  <2> SUFFICES ASSUME NEW d \in Calls, pc'[d] \in (Waiting \ {"acquire"}) \cup Critical
               PROVE  HasTurn(d)'
    BY DEF TurnsTaken
  <2>1. d # c
    BY <1>2 DEF TypeInv, TypeOK, Waiting, Critical
  <2>2. HasTurn(d)
    BY <1>2, <2>1 DEF TypeInv, TypeOK, TurnsTaken
  <2>3. ProcOf[d] # ProcOf[c]
    BY <2>1, <2>2 DEF HasTurn
  <2> QED
    BY <1>1, <1>2, <2>2, <2>3, StoreAssumption DEF HasTurn, TypeInv, TypeOK
<1> QED
  BY <1>3, <1>4, <1>5, <1>6

\* A step of call c that neither leaves nor joins a queue.
LEMMA StepTypeInv ==
  ASSUME TypeInv, NEW c \in Calls, NEW step \in Waiting \cup Critical,
         pc[c] \in Waiting \cup Critical, HasTurn(c), Goto(c, step), UNCHANGED queue
  PROVE  /\ pc' \in [Calls -> {"new"} \cup Waiting \cup Critical \cup Settled]
         /\ TurnsTaken'
  BY DEF TypeInv, TypeOK, TurnsTaken, HasTurn, Goto

LEMMA CallTypeInv ==
  ASSUME TypeInv, NEW c \in Calls, CallActions(c)
  PROVE  TypeInv'
<1> USE StoreAssumption DEF TypeInv
<1>t. ASSUME pc[c] \in (Waiting \ {"acquire"}) \cup Critical
      PROVE  HasTurn(c) /\ pc[c] \in Waiting \cup Critical
  BY <1>t DEF TurnsTaken, Waiting, Critical
<1>1. CASE Invoke(c)
  <2>1. ProcOf[c] \in Procs /\ queue[ProcOf[c]] \in Seq(Calls)
    BY DEF TypeOK
  <2>2. queue' \in [Procs -> Seq(Calls)]
    BY <1>1, <2>1 DEF Invoke, TypeOK
  <2>3. TurnsTaken'
    <3> SUFFICES ASSUME NEW d \in Calls, pc'[d] \in (Waiting \ {"acquire"}) \cup Critical
                 PROVE  HasTurn(d)'
      BY DEF TurnsTaken
    <3>1. d # c /\ HasTurn(d)
      BY <1>1 DEF Invoke, Goto, TypeOK, TurnsTaken, Waiting, Critical
    <3>2. queue'[ProcOf[d]] = queue[ProcOf[d]] \/ queue'[ProcOf[d]] = Append(queue[ProcOf[d]], c)
      BY <1>1, <2>1 DEF Invoke, TypeOK
    <3> QED
      BY <3>1, <3>2, QueueFacts DEF HasTurn, TypeOK
  <2>4. pc' \in [Calls -> {"new"} \cup Waiting \cup Critical \cup Settled]
    BY <1>1 DEF Invoke, Goto, TypeOK, Waiting
  <2> QED
    BY <1>1, <2>2, <2>3, <2>4 DEF Invoke, diskVars, TypeOK
<1>2. CASE OpenLock(c)
  <2>1. HasTurn(c) /\ pc[c] \in Waiting \cup Critical
    BY <1>2 DEF OpenLock, Waiting
  <2>2. lock' \in Locks \cup {NoLock}
    <3>1. [owner |-> c, old |-> FALSE] \in Locks
      BY DEF Locks
    <3>2. lock' = [owner |-> c, old |-> FALSE] \/ lock' = lock
      BY <1>2 DEF OpenLock
    <3> QED
      BY <3>1, <3>2 DEF TypeOK
  <2>3. outcome' \in [Calls -> {"none", "ok", "conflict", "error"}]
    BY <1>2 DEF OpenLock, TypeOK
  <2>4. PICK step \in {"read", "release", "stat"} : Goto(c, step)
    BY <1>2 DEF OpenLock
  <2> QED
    BY <1>2, <2>1, <2>2, <2>3, <2>4, StepTypeInv DEF OpenLock, diskVars, TypeOK, Waiting, Critical
<1>3. CASE StatLock(c)
  <2>1. PICK step \in {"acquire", "break"} : Goto(c, step)
    BY <1>3 DEF StatLock
  <2> QED
    BY <1>3, <1>t, <2>1, StepTypeInv DEF StatLock, diskVars, TypeOK, Waiting, Critical
<1>4. CASE BreakLock(c)
  BY <1>4, <1>t, StepTypeInv DEF BreakLock, diskVars, TypeOK, Waiting, Critical
<1>5. CASE ReadProfile(c)
  <2>1. PICK step \in {"unlink", "write", "release"} : Goto(c, step)
    BY <1>5 DEF ReadProfile, GiveUp
  <2>2. /\ outcome' \in [Calls -> {"none", "ok", "conflict", "error"}]
        /\ temp' \in [Calls -> {"none", "dirty", "synced"}]
        /\ UNCHANGED <<operation, queue, lock, file, stable>>
    BY <1>5 DEF ReadProfile, GiveUp, diskVars, TypeOK
  <2>3. pc[c] = "read"
    BY <1>5 DEF ReadProfile
  <2> QED
    BY <1>t, <2>1, <2>2, <2>3, StepTypeInv DEF TypeOK, Waiting, Critical
<1>6. CASE WriteTemporary(c)
  BY <1>6, <1>t, StepTypeInv DEF WriteTemporary, TypeOK, Waiting, Critical
<1>7. CASE SyncTemporary(c)
  BY <1>7, <1>t, StepTypeInv DEF SyncTemporary, TypeOK, Waiting, Critical
<1>8. CASE RenameTemporary(c)
  <2>1. operation[c].bytes \in Contents \cup {Absent}
    BY DEF TypeOK
  <2>2. /\ file' \in [bytes : Contents \cup {Absent, Torn}, synced : BOOLEAN]
        /\ Persisted(file') \in Contents \cup {Absent, Torn}
    BY <1>8, <2>1 DEF RenameTemporary, Persisted
  <2> QED
    BY <1>8, <1>t, <2>2, StepTypeInv DEF RenameTemporary, TypeOK, Waiting, Critical
<1>9. CASE SyncDirectory(c)
  <2>1. Persisted(file) \in Contents \cup {Absent, Torn}
    BY DEF TypeOK, Persisted
  <2> QED
    BY <1>9, <1>t, <2>1, StepTypeInv DEF SyncDirectory, TypeOK, Waiting, Critical
<1>10. CASE RemoveProfile(c)
  BY <1>10, <1>t, StepTypeInv DEF RemoveProfile, TypeOK, Waiting, Critical
<1>11. CASE ReleaseFileLock(c)
  <2>1. outcome[c] \in {"ok", "conflict", "error", "none"}
    BY DEF TypeOK
  <2> QED
    BY <1>11, <1>t, <2>1, LeaveTypeInv DEF ReleaseFileLock, diskVars, TypeOK, Waiting, Critical
<1>12. CASE TimeOut(c)
  BY <1>12, <1>t, LeaveTypeInv DEF TimeOut, diskVars, TypeOK, Waiting, Critical
<1>13. CASE AbortWait(c)
  BY <1>13, LeaveTypeInv DEF AbortWait, diskVars, TypeOK, Waiting, Critical
<1>14. CASE IoError(c)
  BY <1>14, <1>t, StepTypeInv DEF IoError, GiveUp, TypeOK, Waiting, Critical
<1> QED
  BY <1>1, <1>2, <1>3, <1>4, <1>5, <1>6, <1>7, <1>8, <1>9, <1>10, <1>11, <1>12, <1>13, <1>14
     DEF CallActions, CallStep

LEMMA CrashTypeInv ==
  ASSUME TypeInv, NEW p \in Procs, Crash(p)
  PROVE  TypeInv'
<1>1. TurnsTaken'
  <2> SUFFICES ASSUME NEW d \in Calls, pc'[d] \in (Waiting \ {"acquire"}) \cup Critical
               PROVE  HasTurn(d)'
    BY DEF TurnsTaken
  <2>1. pc'[d] = pc[d] /\ ProcOf[d] # p
    BY DEF Crash, TypeInv, TypeOK, InFlight, Waiting, Critical
  <2>2. HasTurn(d)
    BY <2>1 DEF TypeInv, TurnsTaken
  <2> QED
    BY <2>1, <2>2 DEF Crash, HasTurn, TypeInv, TypeOK
<1> QED
  BY <1>1 DEF Crash, TypeInv, TypeOK, Settled, diskVars

LEMMA LosePowerTypeInv ==
  ASSUME TypeInv, LosePower
  PROVE  TypeInv'
<1>1. TurnsTaken'
  BY DEF LosePower, TypeInv, TypeOK, TurnsTaken, InFlight, Waiting, Critical
<1>2. /\ file' \in [bytes : Contents \cup {Absent, Torn}, synced : BOOLEAN]
      /\ stable' \subseteq Contents \cup {Absent, Torn}
  BY DEF LosePower, TypeInv, TypeOK
<1>3. pc' \in [Calls -> {"new"} \cup Waiting \cup Critical \cup Settled]
  BY DEF LosePower, TypeInv, TypeOK, Settled
<1> QED
  BY <1>1, <1>2, <1>3 DEF LosePower, TypeInv, TypeOK

LEMMA AgeLockTypeInv ==
  ASSUME TypeInv, AgeLock
  PROVE  TypeInv'
  BY DEF AgeLock, TypeInv, TypeOK, TurnsTaken, HasTurn, Locks, diskVars

LEMMA NextTypeInv == TypeInv /\ [Next]_vars => TypeInv'
<1> SUFFICES ASSUME TypeInv, [Next]_vars PROVE TypeInv'
  OBVIOUS
<1>1. ASSUME NEW c \in Calls, CallActions(c) PROVE TypeInv'
  BY <1>1, CallTypeInv
<1>2. CASE UNCHANGED vars
  BY <1>2 DEF vars, TypeInv, TypeOK, TurnsTaken, HasTurn
<1> QED
  BY <1>1, <1>2, CrashTypeInv, LosePowerTypeInv, AgeLockTypeInv DEF Next, CallActions

\* Every reachable state is well typed, whichever locks age and however
\* processes and the host fail.
THEOREM Typing == Spec => []TypeOK
<1>1. TypeInv => TypeOK
  BY DEF TypeInv
<1> QED
  BY <1>1, InitTypeInv, NextTypeInv, PTL DEF Spec
-----------------------------------------------------------------------------
(* Nothing unsynced becomes the profile.  This, too, holds of every        *)
(* behaviour: it depends on no lock.                                       *)

LEMMA InitSyncedFirst == Init => SyncedFirst
  BY StoreAssumption DEF Init, SyncedFirst, NeverTorn

LEMMA NextSyncedFirst ==
  TypeInv /\ SyncedFirst /\ [Next]_vars => SyncedFirst'
<1> SUFFICES ASSUME TypeInv, SyncedFirst, [Next]_vars PROVE SyncedFirst'
  OBVIOUS
<1> USE DEF SyncedFirst, NeverTorn
<1>1. ASSUME NEW c \in Calls, CallActions(c) PROVE SyncedFirst'
  <2> USE DEF TypeInv, TypeOK, Goto, diskVars
  <2>1. CASE RenameTemporary(c)
    <3>1. operation[c].bytes # Torn
      BY StoreAssumption
    <3>2. file' = [bytes |-> operation[c].bytes, synced |-> TRUE]
      BY <2>1 DEF RenameTemporary
    <3>3. Persisted(file') = operation[c].bytes
      BY <3>2 DEF Persisted
    <3> QED
      BY <2>1, <3>1, <3>2, <3>3 DEF RenameTemporary
  <2>2. CASE SyncDirectory(c)
    BY <2>2 DEF SyncDirectory, Persisted
  <2>3. CASE RemoveProfile(c)
    BY <2>3, StoreAssumption DEF RemoveProfile
  <2>4. CASE SyncTemporary(c)
    BY <2>4 DEF SyncTemporary
  <2>5. CASE Invoke(c) \/ OpenLock(c) \/ StatLock(c) \/ BreakLock(c)
    BY <2>5 DEF Invoke, OpenLock, StatLock, BreakLock
  <2>6. CASE ReadProfile(c) \/ WriteTemporary(c) \/ IoError(c)
    BY <2>6 DEF ReadProfile, WriteTemporary, IoError, GiveUp
  <2>7. CASE ReleaseFileLock(c) \/ TimeOut(c) \/ AbortWait(c)
    BY <2>7 DEF ReleaseFileLock, TimeOut, AbortWait, Leave
  <2> QED
    BY <1>1, <2>1, <2>2, <2>3, <2>4, <2>5, <2>6, <2>7 DEF CallActions, CallStep
<1>2. ASSUME NEW p \in Procs, Crash(p) PROVE SyncedFirst'
  BY <1>2 DEF Crash, diskVars, TypeInv, TypeOK
<1>3. CASE LosePower
  BY <1>3 DEF LosePower, TypeInv, TypeOK
<1>4. CASE AgeLock
  BY <1>4 DEF AgeLock, diskVars
<1>5. CASE UNCHANGED vars
  BY <1>5 DEF vars
<1> QED
  BY <1>1, <1>2, <1>3, <1>4, <1>5 DEF Next, CallActions

\* A stored profile is never half-written, whatever dies when, and even when
\* two calls hold the lock at once.
THEOREM ProfileNeverTorn == Spec => []NeverTorn
<1>1. SyncedFirst => NeverTorn
  BY DEF SyncedFirst
<1> QED
  BY <1>1, InitTypeInv, NextTypeInv, InitSyncedFirst, NextSyncedFirst, PTL DEF Spec
-----------------------------------------------------------------------------
(* While no lock file passes LOCK_STALE_MS, the lock file excludes.        *)

LEMMA InitStoreInv == Init => StoreInv
<1> SUFFICES ASSUME Init PROVE StoreInv
  OBVIOUS
<1>1. TypeOK /\ TurnsTaken /\ SyncedFirst
  BY InitTypeInv, InitSyncedFirst DEF TypeInv
<1>2. LocksFresh /\ LockHeld /\ StillExpected /\ BranchTaken /\ SavedIsDurable
  BY DEF Init, LocksFresh, LockHeld, StillExpected, BranchTaken, SavedIsDurable, Critical
<1> QED
  BY <1>1, <1>2 DEF StoreInv

\* A call in the critical section is the only one there.
LEMMA Exclusion == LockHeld => MutualExclusion
  BY DEF LockHeld, MutualExclusion

LEMMA NextLocks ==
  ASSUME AgingLocks = {}, StoreInv, TypeOK', [Next]_vars
  PROVE  LocksFresh' /\ LockHeld'
<1> USE DEF StoreInv, LocksFresh, LockHeld, TypeOK, Critical, Goto, diskVars
<1>1. ASSUME NEW c \in Calls, CallActions(c) PROVE LocksFresh' /\ LockHeld'
  <2>1. CASE OpenLock(c)
    <3>1. CASE lock = NoLock
      <4>1. [owner |-> c, old |-> FALSE] # NoLock
        <5>1. [owner |-> c, old |-> FALSE] \in [owner : Calls, old : BOOLEAN]
          OBVIOUS
        <5> QED
          BY <5>1, StoreAssumption
      <4>2. lock' = [owner |-> c, old |-> FALSE]
        BY <2>1, <3>1 DEF OpenLock
      <4>3. \A d \in Calls : pc'[d] \in Critical => d = c
        BY <2>1, <3>1 DEF OpenLock
      <4>4. \A d \in Calls : pc'[d] # "break"
        BY <2>1, <3>1 DEF OpenLock
      <4> QED
        BY <4>1, <4>2, <4>3, <4>4
    <3>2. CASE lock # NoLock
      BY <2>1, <3>2 DEF OpenLock
    <3> QED
      BY <3>1, <3>2
  <2>2. CASE Invoke(c) \/ StatLock(c) \/ BreakLock(c)
    BY <2>2 DEF Invoke, StatLock, BreakLock
  <2>3. CASE ReadProfile(c) \/ WriteTemporary(c) \/ SyncTemporary(c) \/ IoError(c)
    BY <2>3 DEF ReadProfile, WriteTemporary, SyncTemporary, IoError, GiveUp
  <2>4. CASE RenameTemporary(c) \/ SyncDirectory(c) \/ RemoveProfile(c)
    BY <2>4 DEF RenameTemporary, SyncDirectory, RemoveProfile
  <2>5. CASE ReleaseFileLock(c)
    <3>1. \A d \in Calls : d # c => pc[d] \notin Critical
      BY <2>5, Exclusion DEF ReleaseFileLock, MutualExclusion
    <3> QED
      BY <2>5, <3>1 DEF ReleaseFileLock, Leave
  <2>6. CASE TimeOut(c) \/ AbortWait(c)
    BY <2>6 DEF TimeOut, AbortWait, Leave
  <2> QED
    BY <1>1, <2>1, <2>2, <2>3, <2>4, <2>5, <2>6 DEF CallActions, CallStep
<1>2. ASSUME NEW p \in Procs, Crash(p) PROVE LocksFresh' /\ LockHeld'
  BY <1>2 DEF Crash
<1>3. CASE LosePower
  BY <1>3 DEF LosePower, InFlight, Waiting
<1>4. CASE AgeLock
  BY <1>4 DEF AgeLock
<1>5. CASE UNCHANGED vars
  BY <1>5 DEF vars
<1> QED
  BY <1>1, <1>2, <1>3, <1>4, <1>5 DEF Next, CallActions

\* A call changes the profile only in the critical section, so what the
\* others have compared, and what they have made durable, stays as it was.
LEMMA NextProfile ==
  ASSUME StoreInv, TypeOK', [Next]_vars
  PROVE  StillExpected' /\ BranchTaken' /\ SavedIsDurable'
<1> USE DEF StoreInv, StillExpected, BranchTaken, SavedIsDurable, TypeOK, Goto, diskVars,
            Waiting, Critical
<1>1. ASSUME NEW c \in Calls, CallActions(c)
      PROVE  StillExpected' /\ BranchTaken' /\ SavedIsDurable'
  <2>1. \A d \in Calls : pc[c] \in Critical /\ pc[d] \in Critical => c = d
    BY Exclusion DEF MutualExclusion
  <2>2. CASE Invoke(c) \/ StatLock(c) \/ BreakLock(c)
    BY <2>2 DEF Invoke, StatLock, BreakLock
  <2>8. CASE OpenLock(c)
    <3>1. UNCHANGED <<operation, file, stable>> /\ pc[c] = "acquire"
      BY <2>8 DEF OpenLock
    <3>2. \A d \in Calls : d # c => pc'[d] = pc[d] /\ outcome'[d] = outcome[d]
      BY <2>8 DEF OpenLock
    <3>3. \/ pc'[c] \in {"read", "stat"} /\ outcome'[c] = outcome[c]
          \/ pc'[c] = "release" /\ outcome'[c] = "error"
      BY <2>8 DEF OpenLock
    <3> QED
      BY <3>1, <3>2, <3>3
  <2>3. CASE ReadProfile(c) \/ WriteTemporary(c) \/ SyncTemporary(c) \/ IoError(c)
    BY <2>3 DEF ReadProfile, WriteTemporary, SyncTemporary, IoError, GiveUp
  <2>4. CASE RenameTemporary(c)
    BY <2>1, <2>4 DEF RenameTemporary
  <2>5. CASE SyncDirectory(c)
    <3>1. CanSyncDir => stable' = {operation[c].bytes}
      BY <2>5 DEF SyncDirectory, SyncedFirst, Persisted
    <3> QED
      BY <2>1, <2>5, <3>1 DEF SyncDirectory
  <2>6. CASE RemoveProfile(c)
    BY <2>1, <2>6 DEF RemoveProfile
  <2>7. CASE ReleaseFileLock(c) \/ TimeOut(c) \/ AbortWait(c)
    <3>1. pc' = [pc EXCEPT ![c] = "done"] /\ UNCHANGED <<operation, file, stable>>
      BY <2>7 DEF ReleaseFileLock, TimeOut, AbortWait, Leave
    <3>2. \A d \in Calls : d # c => outcome'[d] = outcome[d]
      BY <2>7 DEF ReleaseFileLock, TimeOut, AbortWait, Leave
    <3> QED
      BY <3>1, <3>2
  <2> QED
    BY <1>1, <2>2, <2>3, <2>4, <2>5, <2>6, <2>7, <2>8 DEF CallActions, CallStep
<1>2. ASSUME NEW p \in Procs, Crash(p)
      PROVE  StillExpected' /\ BranchTaken' /\ SavedIsDurable'
  BY <1>2 DEF Crash
<1>3. CASE LosePower
  <2>1. \A d \in Calls : pc'[d] \in {"new", "done", "dead"}
    BY <1>3 DEF LosePower, InFlight, Settled
  <2> QED
    BY <1>3, <2>1 DEF LosePower, InFlight
<1>4. CASE AgeLock
  BY <1>4 DEF AgeLock
<1>5. CASE UNCHANGED vars
  BY <1>5 DEF vars
<1> QED
  BY <1>1, <1>2, <1>3, <1>4, <1>5 DEF Next, CallActions

LEMMA NextStoreInv ==
  ASSUME AgingLocks = {}
  PROVE  StoreInv /\ [Next]_vars => StoreInv'
<1> SUFFICES ASSUME StoreInv, [Next]_vars PROVE StoreInv'
  OBVIOUS
<1>1. TypeInv' /\ SyncedFirst'
  BY NextTypeInv, NextSyncedFirst DEF StoreInv, TypeInv
<1>2. LocksFresh' /\ LockHeld'
  BY <1>1, NextLocks DEF TypeInv
<1>3. StillExpected' /\ BranchTaken' /\ SavedIsDurable'
  BY <1>1, NextProfile DEF TypeInv
<1> QED
  BY <1>1, <1>2, <1>3 DEF StoreInv, TypeInv

\* While no lock file grows older than LOCK_STALE_MS, whoever is past the lock owns
\* the lock file, and the version compared under it stays the one that is replaced.
THEOREM StoreInvariance ==
  ASSUME AgingLocks = {}
  PROVE  Spec => []StoreInv
BY InitStoreInv, NextStoreInv, PTL DEF Spec

\* Two calls never both believe that they hold the lock file, as long as no
\* lock file grows older than LOCK_STALE_MS, whichever processes die.
THEOREM LockExcludes ==
  ASSUME AgingLocks = {}
  PROVE  Spec => []MutualExclusion
<1>1. StoreInv => MutualExclusion
  BY Exclusion DEF StoreInv
<1> QED
  BY <1>1, StoreInvariance, PTL

\* A save that is acknowledged survives a power loss.
THEOREM SavesAreDurable ==
  ASSUME AgingLocks = {}
  PROVE  Spec => []SavedIsDurable
<1>1. StoreInv => SavedIsDurable
  BY DEF StoreInv
<1> QED
  BY <1>1, StoreInvariance, PTL

\* A call becomes successful only by renaming or unlinking the profile that it
\* has compared.
LEMMA StepHonoursExpectation ==
  ASSUME StoreInv, [Next]_vars, NEW c \in Calls, outcome[c] # "ok", outcome'[c] = "ok"
  PROVE  operation[c].expected = Anything \/ operation[c].expected = file.bytes
<1> USE DEF StoreInv, TypeOK, Goto, diskVars
<1>1. ASSUME NEW d \in Calls, CallActions(d) PROVE pc[c] \in {"rename", "unlink"}
  <2>1. CASE RenameTemporary(d) \/ RemoveProfile(d)
    BY <2>1 DEF RenameTemporary, RemoveProfile
  <2>2. CASE Invoke(d) \/ OpenLock(d) \/ StatLock(d) \/ BreakLock(d)
    BY <2>2 DEF Invoke, OpenLock, StatLock, BreakLock
  <2>3. CASE ReadProfile(d) \/ WriteTemporary(d) \/ SyncTemporary(d) \/ IoError(d)
    BY <2>3 DEF ReadProfile, WriteTemporary, SyncTemporary, IoError, GiveUp
  <2>4. CASE SyncDirectory(d)
    BY <2>4 DEF SyncDirectory
  <2>5. CASE ReleaseFileLock(d) \/ TimeOut(d) \/ AbortWait(d)
    BY <2>5 DEF ReleaseFileLock, TimeOut, AbortWait, Leave
  <2> QED
    BY <1>1, <2>1, <2>2, <2>3, <2>4, <2>5 DEF CallActions, CallStep
<1>2. pc[c] \in {"rename", "unlink"}
  BY <1>1 DEF Next, CallActions, Crash, LosePower, AgeLock, vars
<1> QED
  BY <1>2 DEF StillExpected, Matches

\* No conditional save or remove replaces a profile its caller has not seen.
THEOREM ExpectationsHonoured ==
  ASSUME AgingLocks = {}
  PROVE  Spec => NoLostUpdate
<1>1. StoreInv /\ [Next]_vars =>
        [\A c \in Calls :
           outcome[c] # "ok" /\ outcome'[c] = "ok" =>
             operation[c].expected = Anything \/ operation[c].expected = file.bytes]_vars
  BY StepHonoursExpectation
<1>2. Init => StoreInv
  BY InitStoreInv
<1>3. StoreInv /\ [Next]_vars => StoreInv'
  BY NextStoreInv
<1> QED
  BY <1>1, <1>2, <1>3, PTL DEF Spec, NoLostUpdate

-----------------------------------------------------------------------------
(* LocalStore implements CasRegister.  A call starts when it is invoked; it *)
(* is applied by RenameTemporary or RemoveProfile, refused by ReadProfile,  *)
(* and fails at the step that settles its error.  Every other step, and the *)
(* death of a process, leaves the register alone.                           *)

LEMMA InitRegister == Init => Promise!Init
<1> SUFFICES ASSUME Init PROVE Promise!Init
  OBVIOUS
<1>1. {c \in Calls : pc[c] # "new"} = {}
  BY DEF Init
<1>2. file.bytes \in Contents \cup {Absent}
  BY DEF Init
<1> QED
  BY <1>1, <1>2 DEF Init, Promise!Init

LEMMA StepRegister ==
  ASSUME StoreInv, NEW c \in Calls, CallActions(c)
  PROVE  Promise!Next \/ UNCHANGED Promise!vars
<1> USE DEF StoreInv, TypeOK, Goto, diskVars
<1> DEFINE Started == {d \in Calls : pc[d] # "new"}
<1>1. CASE Invoke(c)
  <2>1. c \notin Started /\ Started' = Started \cup {c}
    BY <1>1 DEF Invoke
  <2>2. Promise!Start(c)
    BY <1>1, <2>1 DEF Invoke, Promise!Start
  <2> QED
    BY <2>2 DEF Promise!Next
<1>2. ASSUME pc[c] # "new", pc'[c] # "new", \A d \in Calls : d # c => pc'[d] = pc[d]
      PROVE  Started' = Started /\ c \in Started
  BY <1>2
<1>3. ASSUME pc[c] \in {"acquire", "stat", "break", "read", "write", "sync", "rename", "unlink"},
             outcome' = [outcome EXCEPT ![c] = "error"],
             UNCHANGED <<file, operation>>, Started' = Started, c \in Started
      PROVE  Promise!Next
  <2>1. outcome[c] = "none"
    BY <1>3 DEF BranchTaken, Waiting
  <2>2. Promise!Fail(c)
    BY <1>3, <2>1 DEF Promise!Fail, Promise!Open
  <2> QED
    BY <2>2 DEF Promise!Next
<1>4. CASE OpenLock(c)
  <2>1. Started' = Started /\ c \in Started
    BY <1>2, <1>4 DEF OpenLock
  <2>2. UNCHANGED <<file, operation>> /\ pc[c] = "acquire"
    BY <1>4 DEF OpenLock
  <2>3. outcome' = outcome \/ outcome' = [outcome EXCEPT ![c] = "error"]
    BY <1>4 DEF OpenLock
  <2> QED
    BY <1>3, <2>1, <2>2, <2>3 DEF Promise!vars
<1>5. CASE TimeOut(c) \/ AbortWait(c) \/ IoError(c)
  <2>1. Started' = Started /\ c \in Started
    BY <1>2, <1>5 DEF TimeOut, AbortWait, IoError, GiveUp, Leave, Waiting
  <2> QED
    BY <1>3, <1>5, <2>1 DEF TimeOut, AbortWait, IoError, GiveUp, Leave, Waiting
<1>6. CASE ReadProfile(c)
  <2>1. Started' = Started /\ c \in Started
    BY <1>2, <1>6 DEF ReadProfile, GiveUp
  <2>2. CASE Matches(operation[c].expected, file.bytes)
    BY <1>6, <2>1, <2>2 DEF ReadProfile, Promise!vars
  <2>3. CASE ~Matches(operation[c].expected, file.bytes)
    <3>1. outcome[c] = "none" /\ outcome' = [outcome EXCEPT ![c] = "conflict"]
      BY <1>6, <2>3 DEF ReadProfile, GiveUp, BranchTaken
    <3>2. Promise!Refuse(c)
      BY <1>6, <2>1, <2>3, <3>1
         DEF ReadProfile, GiveUp, Matches, Promise!Refuse, Promise!Open, Promise!Expects
    <3> QED
      BY <3>2 DEF Promise!Next
  <2> QED
    BY <2>2, <2>3
<1>7. CASE RenameTemporary(c) \/ RemoveProfile(c)
  <2>1. Started' = Started /\ c \in Started
    BY <1>2, <1>7 DEF RenameTemporary, RemoveProfile
  <2>2. outcome[c] = "none" /\ outcome' = [outcome EXCEPT ![c] = "ok"]
    BY <1>7 DEF RenameTemporary, RemoveProfile, BranchTaken
  <2>3. operation[c].expected \in {Anything, file.bytes}
    BY <1>7 DEF RenameTemporary, RemoveProfile, StillExpected, Matches
  <2>4. file'.bytes = operation[c].bytes
    BY <1>7 DEF RenameTemporary, RemoveProfile, BranchTaken
  <2>5. UNCHANGED operation
    BY <1>7 DEF RenameTemporary, RemoveProfile
  <2>6. Promise!Apply(c)
    BY <2>1, <2>2, <2>3, <2>4, <2>5 DEF Promise!Apply, Promise!Open, Promise!Expects
  <2> QED
    BY <2>6 DEF Promise!Next
<1>8. CASE StatLock(c) \/ BreakLock(c) \/ WriteTemporary(c) \/ SyncTemporary(c) \/ SyncDirectory(c)
  <2>1. Started' = Started
    BY <1>2, <1>8 DEF StatLock, BreakLock, WriteTemporary, SyncTemporary, SyncDirectory
  <2> QED
    BY <1>8, <2>1
       DEF StatLock, BreakLock, WriteTemporary, SyncTemporary, SyncDirectory, Promise!vars
<1>9. CASE ReleaseFileLock(c)
  <2>1. Started' = Started
    BY <1>2, <1>9 DEF ReleaseFileLock, Leave
  <2>2. outcome' = outcome
    BY <1>9 DEF ReleaseFileLock, Leave
  <2> QED
    BY <1>9, <2>1, <2>2 DEF ReleaseFileLock, Promise!vars
<1> QED
  BY <1>1, <1>4, <1>5, <1>6, <1>7, <1>8, <1>9 DEF CallActions, CallStep

LEMMA NextRegister ==
  ASSUME PowerLoss = FALSE
  PROVE  StoreInv /\ [Next]_vars => [Promise!Next]_Promise!vars
<1> SUFFICES ASSUME StoreInv, [Next]_vars
             PROVE  Promise!Next \/ UNCHANGED Promise!vars
  OBVIOUS
<1>1. ASSUME NEW c \in Calls, CallActions(c)
      PROVE  Promise!Next \/ UNCHANGED Promise!vars
  BY <1>1, StepRegister
<1>2. ASSUME NEW p \in Procs, Crash(p) PROVE UNCHANGED Promise!vars
  <2>1. {d \in Calls : pc[d] # "new"}' = {d \in Calls : pc[d] # "new"}
    BY <1>2 DEF Crash, StoreInv, TypeOK, InFlight, Waiting, Critical
  <2> QED
    BY <1>2, <2>1 DEF Crash, diskVars, Promise!vars
<1>3. CASE AgeLock
  BY <1>3 DEF AgeLock, diskVars, Promise!vars
<1>4. CASE UNCHANGED vars
  BY <1>4 DEF vars, Promise!vars
<1>5. ~LosePower
  BY DEF LosePower
<1> QED
  BY <1>1, <1>2, <1>3, <1>4, <1>5 DEF Next, CallActions

\* Without a power loss, and as long as no lock file grows too old, the local
\* store is the conditional register its callers are promised.
THEOREM LocalStoreIsRegister ==
  ASSUME AgingLocks = {}, PowerLoss = FALSE
  PROVE  Spec => ImplementsRegister
<1>1. Init => Promise!Init
  BY InitRegister
<1>2. Init => StoreInv
  BY InitStoreInv
<1>3. StoreInv /\ [Next]_vars => StoreInv'
  BY NextStoreInv
<1>4. StoreInv /\ [Next]_vars => [Promise!Next]_Promise!vars
  BY NextRegister
<1> QED
  BY <1>1, <1>2, <1>3, <1>4, PTL DEF Spec, ImplementsRegister, Promise!Spec
=============================================================================
