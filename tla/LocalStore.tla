----------------------------- MODULE LocalStore -----------------------------
(***************************************************************************)
(* The local profile store, local() of packages/storage/src/index.mts: the *)
(* save and remove calls that several operating-system processes make on   *)
(* ONE profile key.  A call waits for its turn in its own process          *)
(* (withProcessLock), takes the lock file (acquireFileLock), compares the  *)
(* stored version, replaces the profile through a temporary file, and      *)
(* removes the lock file again.                                            *)
(*                                                                         *)
(* Processes die at any step, the host loses power at any step, any I/O    *)
(* step fails, and a lock file that nobody removes grows older than        *)
(* LOCK_STALE_MS.  A version is the SHA-256 of the stored bytes, so a      *)
(* profile is its own version here.                                        *)
(***************************************************************************)
EXTENDS Integers, Sequences

CONSTANTS
  Calls,        \* the save and remove calls, each made at most once
  Procs,        \* operating-system processes
  ProcOf,       \* the process that makes a call
  Contents,     \* profiles
  Requests,     \* what calls may ask for
  Absent,       \* no profile; as an expectation: expectedVersion = null
  Anything,     \* no expectedVersion was given
  Torn,         \* what a power loss leaves of a file whose data was never synced
  NoLock,       \* the lock file does not exist
  AgingLocks,   \* whose lock files may pass LOCK_STALE_MS: "live" and "dead" holders
  PowerLoss,    \* whether the host may lose power
  CanSyncDir    \* whether the file system syncs directory handles

ASSUME StoreAssumption ==
  /\ Absent \notin Contents
  /\ Anything \notin Contents \cup {Absent}
  /\ Torn \notin Contents \cup {Absent}
  /\ Requests \subseteq [bytes : Contents \cup {Absent},
                          expected : Contents \cup {Absent, Anything}]
  /\ ProcOf \in [Calls -> Procs]
  /\ NoLock \notin [owner : Calls, old : BOOLEAN]
  /\ AgingLocks \subseteq {"live", "dead"}
  /\ PowerLoss \in BOOLEAN
  /\ CanSyncDir \in BOOLEAN

Locks == [owner : Calls, old : BOOLEAN]

VARIABLES
  pc,         \* where each call is
  operation,  \* what each call was asked to do; bytes = Absent is remove()
  outcome,    \* "none" until it is settled how the call ends
  queue,      \* processLocks: the calls of each process, in the order made
  lock,       \* the lock file
  temp,       \* each call's temporary file: "none", "dirty" or "synced"
  file,       \* the profile's directory entry, and whether its data is on disk
  stable      \* what the entry may turn out to be after a power loss

vars == <<pc, operation, outcome, queue, lock, temp, file, stable>>

diskVars == <<temp, file, stable>>

\* The steps of a call that waits for the lock, and of one that thinks it holds it.
Waiting  == {"acquire", "stat", "break"}
Critical == {"read", "write", "sync", "rename", "syncdir", "unlink", "release"}
Settled  == {"done", "dead"}
InFlight(c) == pc[c] \in Waiting \cup Critical

-----------------------------------------------------------------------------

Init ==
  /\ pc = [c \in Calls |-> "new"]
  /\ operation \in [Calls -> Requests]
  /\ outcome = [c \in Calls |-> "none"]
  /\ queue = [p \in Procs |-> <<>>]
  /\ lock = NoLock
  /\ temp = [c \in Calls |-> "none"]
  /\ file \in [bytes : Contents \cup {Absent}, synced : {TRUE}]
  /\ stable = {file.bytes}

Goto(c, step) == pc' = [pc EXCEPT ![c] = step]

\* Faulty: the turn is handed on only when the call succeeds.
LeaveInTurn(c, result) ==
  /\ Goto(c, "done")
  /\ outcome' = [outcome EXCEPT ![c] = result]
  /\ queue' = [queue EXCEPT ![ProcOf[c]] = IF result = "ok" THEN Tail(@) ELSE @]

\* The call ends and the next one of its process gets its turn.
Leave(c, result) ==
  /\ Goto(c, "done")
  /\ outcome' = [outcome EXCEPT ![c] = result]
  /\ queue' = [queue EXCEPT ![ProcOf[c]] = Tail(@)]

\* The critical section is left through its finally blocks.
GiveUp(c, result) ==
  /\ Goto(c, "release")
  /\ outcome' = [outcome EXCEPT ![c] = result]
  /\ temp' = [temp EXCEPT ![c] = "none"]
  /\ UNCHANGED <<operation, queue, lock, file, stable>>

\* save() or remove() is called: the call joins its process's chain.
Invoke(c) ==
  /\ pc[c] = "new"
  /\ Goto(c, "acquire")
  /\ queue' = [queue EXCEPT ![ProcOf[c]] = Append(@, c)]
  /\ UNCHANGED <<operation, outcome, lock, diskVars>>

\* Every call but the first in its process awaits the one before it.
HasTurn(c) == queue[ProcOf[c]] # <<>> /\ Head(queue[ProcOf[c]]) = c

\* Faulty: the lock file is opened with "w" instead of "wx".
OpenLockShared(c) ==
  /\ pc[c] = "acquire"
  /\ HasTurn(c)
  /\ lock' = [owner |-> c, old |-> FALSE]
  /\ Goto(c, "read")
  /\ UNCHANGED <<operation, outcome, queue, diskVars>>

\* One pass of acquireFileLock's loop: open(path, "wx").  Writing the process
\* id may fail after the file was created; the file is then removed again.
OpenLock(c) ==
  /\ pc[c] = "acquire"
  /\ HasTurn(c)
  /\ \/ /\ lock = NoLock
        /\ lock' = [owner |-> c, old |-> FALSE]
        /\ \/ Goto(c, "read") /\ UNCHANGED outcome
           \/ Goto(c, "release") /\ outcome' = [outcome EXCEPT ![c] = "error"]
     \/ /\ lock # NoLock
        /\ Goto(c, "stat")
        /\ UNCHANGED <<outcome, lock>>
  /\ UNCHANGED <<operation, queue, diskVars>>

\* EEXIST: stat the lock file.  A vanished file is retried at once, an old one
\* will be removed, and a fresh one is waited for.
StatLock(c) ==
  /\ pc[c] = "stat"
  /\ Goto(c, IF lock # NoLock /\ lock.old THEN "break" ELSE "acquire")
  /\ UNCHANGED <<operation, outcome, queue, lock, diskVars>>

\* The lock file is fresh, and LOCK_WAIT_MS are over.
TimeOut(c) ==
  /\ pc[c] = "stat"
  /\ lock # NoLock
  /\ ~lock.old
  /\ Leave(c, "error")
  /\ UNCHANGED <<operation, lock, diskVars>>

\* The caller's signal, at the head of the loop or in delay(), or any other
\* error of open, stat or rm ends the wait.
AbortWait(c) ==
  /\ pc[c] \in Waiting
  /\ HasTurn(c)
  /\ Leave(c, "error")
  /\ UNCHANGED <<operation, lock, diskVars>>

\* rm(path, { force: true }): whatever lock file is there by now is removed.
BreakLock(c) ==
  /\ pc[c] = "break"
  /\ lock' = NoLock
  /\ Goto(c, "acquire")
  /\ UNCHANGED <<operation, outcome, queue, diskVars>>

\* Faulty: null is taken for undefined.
MatchesLoosely(expected, current) == expected \in {Anything, Absent, current}

\* assertExpectedVersion
Matches(expected, current) == expected \in {Anything, current}

\* readLocalProfile and assertExpectedVersion.
ReadProfile(c) ==
  /\ pc[c] = "read"
  /\ \/ ~Matches(operation[c].expected, file.bytes) /\ GiveUp(c, "conflict")
     \/ /\ Matches(operation[c].expected, file.bytes)
        /\ Goto(c, IF operation[c].bytes = Absent THEN "unlink" ELSE "write")
        /\ UNCHANGED <<operation, outcome, queue, lock, diskVars>>

\* The temporary file has a random name: no other call ever opens it.
WriteTemporary(c) ==
  /\ pc[c] = "write"
  /\ temp' = [temp EXCEPT ![c] = "dirty"]
  /\ Goto(c, "sync")
  /\ UNCHANGED <<operation, outcome, queue, lock, file, stable>>

\* Faulty: the temporary file is closed without being synced.
SkipSync(c) ==
  /\ pc[c] = "sync"
  /\ Goto(c, "rename")
  /\ UNCHANGED <<operation, outcome, queue, lock, diskVars>>

\* handle.sync() and handle.close().
SyncTemporary(c) ==
  /\ pc[c] = "sync"
  /\ temp' = [temp EXCEPT ![c] = "synced"]
  /\ Goto(c, "rename")
  /\ UNCHANGED <<operation, outcome, queue, lock, file, stable>>

\* What a power loss leaves of a directory entry that reached the disk.
Persisted(f) == IF f.synced THEN f.bytes ELSE Torn

\* rename() over the profile.  No later step can make the call fail: the
\* errors of what follows are ignored.
RenameTemporary(c) ==
  /\ pc[c] = "rename"
  /\ file' = [bytes |-> operation[c].bytes, synced |-> temp[c] = "synced"]
  /\ stable' = stable \cup {Persisted(file')}
  /\ temp' = [temp EXCEPT ![c] = "none"]
  /\ outcome' = [outcome EXCEPT ![c] = "ok"]
  /\ Goto(c, "syncdir")
  /\ UNCHANGED <<operation, queue, lock>>

\* Faulty: the directory is not synced.
SkipSyncDirectory(c) ==
  /\ pc[c] = "syncdir"
  /\ Goto(c, "release")
  /\ UNCHANGED <<operation, outcome, queue, lock, diskVars>>

\* Syncing the directory makes its current entry the only one that can come
\* back; a file system that cannot do it is tolerated.
SyncDirectory(c) ==
  /\ pc[c] = "syncdir"
  /\ stable' = IF CanSyncDir THEN {Persisted(file)} ELSE stable
  /\ Goto(c, "release")
  /\ UNCHANGED <<operation, outcome, queue, lock, temp, file>>

\* remove(): the entry is unlinked, and the directory is not synced.
RemoveProfile(c) ==
  /\ pc[c] = "unlink"
  /\ file' = [bytes |-> Absent, synced |-> TRUE]
  /\ stable' = stable \cup {Absent}
  /\ outcome' = [outcome EXCEPT ![c] = "ok"]
  /\ Goto(c, "release")
  /\ UNCHANGED <<operation, queue, lock, temp>>

\* Faulty: a directory that cannot be synced fails the save.
IoErrorToo(c) ==
  /\ pc[c] \in {"read", "write", "sync", "rename", "syncdir", "unlink"}
  /\ GiveUp(c, "error")

\* Reading, writing, syncing, renaming or unlinking fails, or the signal is
\* seen before the read or the rename.
IoError(c) ==
  /\ pc[c] \in {"read", "write", "sync", "rename", "unlink"}
  /\ GiveUp(c, "error")

\* releaseFileLock removes the lock file whoever created it, and ignores that it
\* could not; then the next call of the process runs.
ReleaseFileLock(c) ==
  /\ pc[c] = "release"
  /\ lock' \in {NoLock, lock}
  /\ Leave(c, outcome[c])
  /\ UNCHANGED <<operation, diskVars>>

-----------------------------------------------------------------------------
(* Clocks and crashes.                                                     *)

\* LOCK_STALE_MS have passed since the lock file was written.
AgeLock ==
  /\ lock # NoLock
  /\ ~lock.old
  /\ (IF InFlight(lock.owner) THEN "live" ELSE "dead") \in AgingLocks
  /\ lock' = [lock EXCEPT !.old = TRUE]
  /\ UNCHANGED <<pc, operation, outcome, queue, diskVars>>

\* A process dies: its files stay, its calls never return.
Crash(p) ==
  /\ \E c \in Calls : ProcOf[c] = p /\ InFlight(c)
  /\ pc' = [c \in Calls |-> IF ProcOf[c] = p /\ InFlight(c) THEN "dead" ELSE pc[c]]
  /\ queue' = [queue EXCEPT ![p] = <<>>]
  /\ UNCHANGED <<operation, outcome, lock, diskVars>>

\* The host loses power: every process dies, and the directory entry is one
\* of those that may have reached the disk.
LosePower ==
  /\ PowerLoss
  /\ \E c \in Calls : InFlight(c)
  /\ pc' = [c \in Calls |-> IF InFlight(c) THEN "dead" ELSE pc[c]]
  /\ queue' = [p \in Procs |-> <<>>]
  /\ \E found \in stable :
       /\ file' = [bytes |-> found, synced |-> TRUE]
       /\ stable' = {found}
  /\ lock' \in {lock, NoLock}
  /\ UNCHANGED <<operation, outcome, temp>>

-----------------------------------------------------------------------------

CallStep(c) ==
  \/ OpenLock(c) \/ StatLock(c) \/ BreakLock(c)
  \/ ReadProfile(c) \/ WriteTemporary(c) \/ SyncTemporary(c)
  \/ RenameTemporary(c) \/ SyncDirectory(c) \/ RemoveProfile(c)
  \/ ReleaseFileLock(c)

Next ==
  \/ \E c \in Calls :
       Invoke(c) \/ CallStep(c) \/ TimeOut(c) \/ AbortWait(c) \/ IoError(c)
  \/ \E p \in Procs : Crash(p)
  \/ AgeLock
  \/ LosePower

Spec == Init /\ [][Next]_vars

\* The event loop runs every ready step, and a call that finds a fresh lock
\* file again and again runs out of time.  Callers need not call, and no
\* failure need happen.
Fairness == \A c \in Calls : WF_vars(CallStep(c)) /\ SF_vars(TimeOut(c))

FairSpec == Spec /\ Fairness

-----------------------------------------------------------------------------

TypeOK ==
  /\ pc \in [Calls -> {"new"} \cup Waiting \cup Critical \cup Settled]
  /\ operation \in [Calls -> Requests]
  /\ outcome \in [Calls -> {"none", "ok", "conflict", "error"}]
  /\ queue \in [Procs -> Seq(Calls)]
  /\ lock \in Locks \cup {NoLock}
  /\ temp \in [Calls -> {"none", "dirty", "synced"}]
  /\ file \in [bytes : Contents \cup {Absent, Torn}, synced : BOOLEAN]
  /\ stable \subseteq Contents \cup {Absent, Torn}

\* The lock file does what it is there for: two calls, of one process or of
\* two, are never between acquireFileLock and releaseFileLock at once.
MutualExclusion ==
  \A c, d \in Calls : pc[c] \in Critical /\ pc[d] \in Critical => c = d

\* expectedVersion is honoured at the moment it counts: whatever other writers
\* do, the profile that a conditional save or remove replaces is the one its
\* caller expected, so no writer destroys a profile it has not seen.
NoLostUpdate ==
  [][\A c \in Calls :
       outcome[c] # "ok" /\ outcome'[c] = "ok" =>
         operation[c].expected = Anything \/ operation[c].expected = file.bytes]_vars

\* The profile's name never leads to a half-written profile, not even after a
\* power loss: temporary files are synced before they are renamed.
NeverTorn == file.bytes # Torn /\ Torn \notin stable

\* When a save is about to report success its bytes are the only profile a
\* power loss can leave, provided that directories can be synced.
SavedIsDurable ==
  CanSyncDir =>
    \A c \in Calls :
      pc[c] = "release" /\ outcome[c] = "ok" /\ operation[c].bytes # Absent =>
        stable = {operation[c].bytes}

(* The invariant behind these properties.  The first two parts hold of every *)
(* behaviour, the others as long as no lock file passes LOCK_STALE_MS.       *)

\* A call that is past the chain of its process is the first in it.
TurnsTaken ==
  \A c \in Calls : pc[c] \in (Waiting \ {"acquire"}) \cup Critical => HasTurn(c)

\* Nothing unsynced is ever renamed.
SyncedFirst ==
  /\ \A c \in Calls : pc[c] = "rename" => temp[c] = "synced"
  /\ file.synced
  /\ NeverTorn

LocksFresh ==
  /\ lock # NoLock => ~lock.old
  /\ \A c \in Calls : pc[c] # "break"

LockHeld == \A c \in Calls : pc[c] \in Critical => lock # NoLock /\ lock.owner = c

\* What a call has compared stays true until it changes the profile.
StillExpected ==
  \A c \in Calls :
    pc[c] \in {"write", "sync", "rename", "unlink"} => Matches(operation[c].expected, file.bytes)

\* The branch a call took, and whether it is settled yet how it ends.
BranchTaken ==
  \A c \in Calls :
    /\ pc[c] \in {"write", "sync", "rename", "syncdir"} => operation[c].bytes # Absent
    /\ pc[c] = "unlink" => operation[c].bytes = Absent
    /\ pc[c] \in {"new", "read", "write", "sync", "rename", "unlink"} \cup Waiting =>
         outcome[c] = "none"
    /\ pc[c] = "release" => outcome[c] # "none"
    /\ pc[c] = "syncdir" => outcome[c] = "ok" /\ file.bytes = operation[c].bytes

StoreInv ==
  /\ TypeOK
  /\ TurnsTaken
  /\ SyncedFirst
  /\ LocksFresh
  /\ LockHeld
  /\ StillExpected
  /\ BranchTaken
  /\ SavedIsDurable

\* Every call ends, unless its process dies: neither a lock file left by a dead
\* process nor a line of callers in the same process holds it for ever.
EveryCallEnds == \A c \in Calls : InFlight(c) ~> pc[c] \in Settled

\* The store is the register its callers are promised: a call is applied when
\* the entry is renamed or unlinked, and refused when the version is compared.
Promise == INSTANCE CasRegister WITH
  value <- file.bytes,
  started <- {c \in Calls : pc[c] # "new"},
  result <- outcome

ImplementsRegister == Promise!Spec
=============================================================================
