--------------------------- MODULE ProfileContext ---------------------------
(***************************************************************************)
(* Persistent browser contexts, BrowserContext of                          *)
(* packages/browser/src/index.mts: successive openings of ONE profile by   *)
(* one process, each with its lease, its debounced and explicit backups    *)
(* and its close calls, over a profile store that other processes write    *)
(* too.                                                                    *)
(*                                                                         *)
(* A profile is the set of the changes (cookies set, cleared, ...) that    *)
(* were made to it so far.  The store is the register of CasRegister: a    *)
(* save is applied at one instant, if the stored profile is still the one  *)
(* the context last loaded or saved.  The state of a context is what the   *)
(* CDP server would export for it; when page Workers end, part of it may   *)
(* be lost with them.                                                      *)
(***************************************************************************)
CONSTANTS
  Contexts,    \* openings of the profile, each used once
  Closes,      \* close() calls
  Changes,     \* changes made through this process's contexts
  Others,      \* changes saved by other processes
  NoProfile,   \* nothing is stored; as a version: #storedVersion is undefined
  NoContext,   \* a close call that was not made yet
  AutoBackup,  \* whether markDirty arms the backup timer
  Failures     \* whether exports, saves, loads and disposals may fail and Workers end

Profiles == SUBSET (Changes \cup Others)
Versions == {NoProfile} \cup Profiles

\* The changes that a stored profile, if there is one, holds.
Content(version) == IF version = NoProfile THEN {} ELSE version

ASSUME ContextAssumption ==
  /\ \A profile \in Profiles : profile # NoProfile
  /\ NoContext \notin Contexts
  /\ AutoBackup \in BOOLEAN
  /\ Failures \in BOOLEAN

VARIABLES
  stored,    \* what the store holds
  phase,     \* where each context is in its life
  leases,    \* the contexts that hold the lease of the profile
  live,      \* the state of each context
  lost,      \* the changes that were lost with a context's page Workers
  seen,      \* #storedVersion and #storedDigest
  timer,     \* #backupTimer is armed
  backup,    \* #backupPromise: the step it has reached
  snapshot,  \* what that backup has exported
  closing,   \* each close call: its context, whether it persists, and its step
  promised   \* the changes that were there when the close was called

vars == <<stored, phase, leases, live, lost, seen, timer, backup, snapshot,
          closing, promised>>

pageVars   == <<live, lost, timer>>
backupVars == <<seen, backup, snapshot>>
closeVars  == <<closing, promised>>

\* A close that was not called yet ("none") or has rejected ("failed").
Unbound(step) == [of |-> NoContext, persist |-> FALSE, joined |-> FALSE, step |-> step]

Init ==
  /\ stored = NoProfile
  /\ phase = [x \in Contexts |-> "new"]
  /\ leases = {}
  /\ live = [x \in Contexts |-> {}]
  /\ lost = {}
  /\ seen = [x \in Contexts |-> NoProfile]
  /\ timer = [x \in Contexts |-> FALSE]
  /\ backup = [x \in Contexts |-> "none"]
  /\ snapshot = [x \in Contexts |-> {}]
  /\ closing = [k \in Closes |-> Unbound("none")]
  /\ promised = [k \in Closes |-> {}]

-----------------------------------------------------------------------------
(* Opening.                                                                *)

\* acquireProfileLease, in the constructor: one context per store and profile.
OpenContext(x) ==
  /\ phase[x] = "new"
  /\ \/ /\ leases = {}
        /\ leases' = {x}
        /\ phase' = [phase EXCEPT ![x] = "loading"]
     \/ /\ leases # {}
        /\ phase' = [phase EXCEPT ![x] = "failed"]
        /\ UNCHANGED leases
  /\ UNCHANGED <<stored, pageVars, backupVars, closeVars>>

\* initialize(): the stored profile is loaded, opened and restored.
Initialize(x) ==
  /\ phase[x] = "loading"
  /\ phase' = [phase EXCEPT ![x] = "open"]
  /\ seen' = [seen EXCEPT ![x] = stored]
  /\ live' = [live EXCEPT ![x] = Content(stored)]
  /\ UNCHANGED <<stored, leases, lost, timer, backup, snapshot, closeVars>>

\* Faulty: the lease is kept when loading fails.
InitializeFailsHolding(x) ==
  /\ Failures
  /\ phase[x] = "loading"
  /\ phase' = [phase EXCEPT ![x] = "failed"]
  /\ UNCHANGED <<stored, leases, pageVars, backupVars, closeVars>>

\* Any failure while loading gives the lease back.
InitializeFails(x) ==
  /\ Failures
  /\ phase[x] = "loading"
  /\ phase' = [phase EXCEPT ![x] = "failed"]
  /\ leases' = leases \ {x}
  /\ UNCHANGED <<stored, pageVars, backupVars, closeVars>>

-----------------------------------------------------------------------------
(* Use.                                                                    *)

Made == lost \cup UNION {live[x] : x \in Contexts}

\* A call of the SDK, a page's own script or a CDP client changes the context.
Change(x) ==
  /\ phase[x] = "open"
  /\ \E m \in Changes \ Made : live' = [live EXCEPT ![x] = @ \cup {m}]
  /\ UNCHANGED <<stored, phase, leases, lost, timer, backupVars, closeVars>>

\* Page Workers end (a deadline, a memory cap, the server going down) and what
\* only they had is gone: a page starts over without it.
WorkersEnd(x) ==
  /\ Failures
  /\ phase[x] = "open"
  /\ \E gone \in SUBSET live[x] :
       /\ gone # {}
       /\ live' = [live EXCEPT ![x] = @ \ gone]
       /\ lost' = lost \cup gone
  /\ UNCHANGED <<stored, phase, leases, timer, backupVars, closeVars>>

\* markDirty(), after the answer to a call of the SDK: arms the timer unless it
\* is armed or the context is closed.  A call that changes nothing marks the
\* context too (evaluate); a change by a script or a CDP client is not marked.
MarkDirty(x) ==
  /\ AutoBackup
  /\ phase[x] = "open"
  /\ timer' = [timer EXCEPT ![x] = TRUE]
  /\ UNCHANGED <<stored, phase, leases, live, lost, backupVars, closeVars>>

-----------------------------------------------------------------------------
(* backup().                                                               *)

\* backup() joins the backup that is under way, if there is one.
JoinOrStartBackup(x) ==
  backup' = [backup EXCEPT ![x] = IF @ = "none" THEN "exporting" ELSE @]

\* The debounce timer fires.  On a closed context backup() throws, and the
\* error goes to the error listeners.
TimerFires(x) ==
  /\ timer[x]
  /\ timer' = [timer EXCEPT ![x] = FALSE]
  /\ IF phase[x] = "closed" THEN UNCHANGED backup ELSE JoinOrStartBackup(x)
  /\ UNCHANGED <<stored, phase, leases, live, lost, seen, snapshot, closeVars>>

CallBackup(x) ==
  /\ phase[x] = "open"
  /\ backup[x] = "none"
  /\ JoinOrStartBackup(x)
  /\ UNCHANGED <<stored, phase, leases, pageVars, seen, snapshot, closeVars>>

\* Faulty: a close goes on whether or not its backup succeeded.
SettleAnyBackup(x, succeeded) ==
  /\ backup' = [backup EXCEPT ![x] = "none"]
  /\ snapshot' = [snapshot EXCEPT ![x] = {}]
  /\ closing' = [k \in Closes |->
       IF closing[k].of = x /\ closing[k].step = "backup"
       THEN [closing[k] EXCEPT !.step = "disposing"]
       ELSE closing[k]]

\* Faulty: only the caller that started the backup hears of its end.
SettleStarter(x, succeeded) ==
  /\ backup' = [backup EXCEPT ![x] = "none"]
  /\ snapshot' = [snapshot EXCEPT ![x] = {}]
  /\ closing' = [k \in Closes |->
       IF closing[k].of = x /\ closing[k].step = "backup" /\ ~closing[k].joined
       THEN IF succeeded THEN [closing[k] EXCEPT !.step = "disposing"] ELSE Unbound("failed")
       ELSE closing[k]]

\* The backup ends: the next call starts a new one, and the closes that
\* awaited it go on or reject.
SettleBackup(x, succeeded) ==
  /\ backup' = [backup EXCEPT ![x] = "none"]
  /\ snapshot' = [snapshot EXCEPT ![x] = {}]
  /\ closing' = [k \in Closes |->
       IF closing[k].of = x /\ closing[k].step = "backup"
       THEN IF succeeded THEN [closing[k] EXCEPT !.step = "disposing"] ELSE Unbound("failed")
       ELSE closing[k]]

\* Faulty: the digest is noted before the save has succeeded.
ExportAndNote(x) ==
  /\ backup[x] = "exporting"
  /\ seen' = [seen EXCEPT ![x] = live[x]]
  /\ \/ /\ seen[x] = live[x]
        /\ SettleBackup(x, TRUE)
     \/ /\ seen[x] # live[x]
        /\ backup' = [backup EXCEPT ![x] = "saving"]
        /\ snapshot' = [snapshot EXCEPT ![x] = live[x]]
        /\ UNCHANGED closing
  /\ UNCHANGED <<stored, phase, leases, pageVars, promised>>

\* exportContextSnapshot.  An unchanged profile is not written again.
Export(x) ==
  /\ backup[x] = "exporting"
  /\ \/ /\ seen[x] = live[x]
        /\ SettleBackup(x, TRUE)
     \/ /\ seen[x] # live[x]
        /\ backup' = [backup EXCEPT ![x] = "saving"]
        /\ snapshot' = [snapshot EXCEPT ![x] = live[x]]
        /\ UNCHANGED closing
  /\ UNCHANGED <<stored, phase, leases, pageVars, seen, promised>>

\* Faulty: expectedVersion is not passed to the store.
SaveOverwrites(x) ==
  /\ backup[x] = "saving"
  /\ stored' = snapshot[x]
  /\ backup' = [backup EXCEPT ![x] = "saved"]
  /\ UNCHANGED <<phase, leases, pageVars, seen, snapshot, closeVars>>

\* store.save() with the expected version takes effect.
SaveApplied(x) ==
  /\ backup[x] = "saving"
  /\ stored = seen[x]
  /\ stored' = snapshot[x]
  /\ backup' = [backup EXCEPT ![x] = "saved"]
  /\ UNCHANGED <<phase, leases, pageVars, seen, snapshot, closeVars>>

\* Its version arrives.
SaveReturns(x) ==
  /\ backup[x] = "saved"
  /\ seen' = [seen EXCEPT ![x] = snapshot[x]]
  /\ SettleBackup(x, TRUE)
  /\ UNCHANGED <<stored, phase, leases, pageVars, promised>>

\* The store answers ProfileConflictError.
SaveRefused(x) ==
  /\ backup[x] = "saving"
  /\ stored # seen[x]
  /\ SettleBackup(x, FALSE)
  /\ UNCHANGED <<stored, phase, leases, pageVars, seen, promised>>

\* Exporting fails, also because the context is gone, or the store fails, maybe
\* after it has applied the save.
BackupFails(x) ==
  /\ backup[x] # "none"
  /\ Failures \/ (backup[x] = "exporting" /\ phase[x] = "closed")
  /\ SettleBackup(x, FALSE)
  /\ UNCHANGED <<stored, phase, leases, pageVars, seen, promised>>

-----------------------------------------------------------------------------
(* close().                                                                *)

\* close({ persist }): disarms the timer; unless it is told to skip it, the
\* final checkpoint comes first.
CallClose(k, x, persist) ==
  /\ closing[k].step = "none"
  /\ phase[x] = "open"
  /\ timer' = [timer EXCEPT ![x] = FALSE]
  /\ closing' = [closing EXCEPT ![k] =
       [of |-> x, persist |-> persist, joined |-> backup[x] # "none",
        step |-> IF persist THEN "backup" ELSE "disposing"]]
  /\ promised' = [promised EXCEPT ![k] = live[x]]
  /\ IF persist THEN JoinOrStartBackup(x) ELSE UNCHANGED backup
  /\ UNCHANGED <<stored, phase, leases, live, lost, seen, snapshot>>

\* The pages are closed and the browser context is disposed of: only now is
\* the context closed and its lease free.
FinishClose(k) ==
  /\ closing[k].step = "disposing"
  /\ closing' = [closing EXCEPT ![k].step = "done"]
  /\ phase' = [phase EXCEPT ![closing[k].of] = "closed"]
  /\ leases' = leases \ {closing[k].of}
  /\ UNCHANGED <<stored, pageVars, backupVars, promised>>

\* Disposing fails; a second close of the same context may find it disposed.
CloseFails(k) ==
  /\ closing[k].step = "disposing"
  /\ Failures \/ phase[closing[k].of] = "closed"
  /\ closing' = [closing EXCEPT ![k] = Unbound("failed")]
  /\ UNCHANGED <<stored, phase, leases, pageVars, backupVars, promised>>

-----------------------------------------------------------------------------

\* Another process loads the profile, changes it and saves it.
OtherProcessSaves(m) ==
  /\ m \notin Content(stored)
  /\ stored' = Content(stored) \cup {m}
  /\ UNCHANGED <<phase, leases, pageVars, backupVars, closeVars>>

ContextStep(x) ==
  \/ Initialize(x)
  \/ Export(x) \/ SaveApplied(x) \/ SaveReturns(x) \/ SaveRefused(x)

Next ==
  \/ \E x \in Contexts :
       \/ OpenContext(x) \/ InitializeFails(x) \/ Change(x) \/ MarkDirty(x)
       \/ WorkersEnd(x) \/ TimerFires(x) \/ CallBackup(x) \/ BackupFails(x) \/ ContextStep(x)
       \/ \E k \in Closes, persist \in BOOLEAN : CallClose(k, x, persist)
  \/ \E k \in Closes : FinishClose(k) \/ CloseFails(k)
  \/ \E m \in Others : OtherProcessSaves(m)

Spec == Init /\ [][Next]_vars

\* Promises that can settle do, and timers fire; nobody need call anything.
Fairness ==
  /\ \A x \in Contexts : WF_vars(ContextStep(x)) /\ WF_vars(TimerFires(x))
  /\ \A k \in Closes : WF_vars(FinishClose(k))

FairSpec == Spec /\ Fairness

-----------------------------------------------------------------------------

TypeOK ==
  /\ stored \in Versions
  /\ phase \in [Contexts -> {"new", "loading", "open", "closed", "failed"}]
  /\ leases \subseteq Contexts
  /\ live \in [Contexts -> Profiles]
  /\ lost \in Profiles
  /\ seen \in [Contexts -> Versions]
  /\ timer \in [Contexts -> BOOLEAN]
  /\ backup \in [Contexts -> {"none", "exporting", "saving", "saved"}]
  /\ snapshot \in [Contexts -> Profiles]
  /\ closing \in [Closes -> [of : Contexts \cup {NoContext}, persist : BOOLEAN,
                             joined : BOOLEAN,
                             step : {"none", "backup", "disposing", "done", "failed"}]]
  /\ promised \in [Closes -> Profiles]

\* At most one context of the process has the profile open, from before it
\* loads the profile until its close has come to the end: also a close that
\* failed leaves the profile reserved.
OneContextAtATime ==
  /\ \A x \in Contexts : phase[x] \in {"loading", "open"} <=> x \in leases
  /\ \A x, y \in leases : x = y

\* Whatever contexts, closes and other processes do, a change that has
\* reached the store is never overwritten by a profile without it, unless a
\* context lost it with its Workers.
StoredChangesSurvive ==
  [][Content(stored) \ lost \subseteq Content(stored')]_vars

\* The final checkpoint: when a close that must persist, and that found no
\* backup under way, resolves, the store has every change that the context
\* had when it was called.
CloseSavesWhatItFound ==
  \A k \in Closes :
    closing[k].step = "done" /\ closing[k].persist /\ ~closing[k].joined =>
      promised[k] \ lost \subseteq Content(stored)

\* Every close resolves or rejects.
ClosesEnd == \A k \in Closes : closing[k].step = "backup" ~> closing[k].step \in {"done", "failed"}

-----------------------------------------------------------------------------
(* The inductive invariant behind the safety properties.                   *)

\* Only a context that was opened has a profile, a timer and backups.
IdleUntilOpen ==
  \A x \in Contexts :
    phase[x] \in {"new", "loading", "failed"} =>
      backup[x] = "none" /\ seen[x] = NoProfile /\ ~timer[x]

\* A close under way is that of a context which was opened.
ClosesOpened ==
  \A k \in Closes :
    closing[k].step \in {"backup", "disposing"} =>
      closing[k].of \in Contexts /\ phase[closing[k].of] \in {"open", "closed"}

\* What a context loaded or saved is still in its state and in the store.
SeenKept ==
  \A x \in Contexts :
    /\ Content(seen[x]) \ lost \subseteq live[x]
    /\ Content(seen[x]) \ lost \subseteq Content(stored)

\* A snapshot lies between what the context has seen and what it has now, and
\* once it was saved the store keeps it.
SnapshotBetween ==
  \A x \in Contexts :
    /\ backup[x] \in {"saving", "saved"} =>
         /\ Content(seen[x]) \ lost \subseteq snapshot[x]
         /\ snapshot[x] \ lost \subseteq live[x]
    /\ backup[x] = "saved" => snapshot[x] \ lost \subseteq Content(stored)

\* What a close that started its own backup found, that backup carries to the
\* store.
PromiseCarried ==
  \A k \in Closes : closing[k].persist /\ ~closing[k].joined =>
    LET x == closing[k].of IN
    /\ closing[k].step = "backup" =>
         /\ backup[x] \in {"exporting", "saving", "saved"}
         /\ backup[x] = "exporting" => promised[k] \ lost \subseteq live[x]
         /\ backup[x] # "exporting" => promised[k] \ lost \subseteq snapshot[x]
    /\ closing[k].step \in {"disposing", "done"} => promised[k] \ lost \subseteq Content(stored)

ContextInv ==
  /\ TypeOK
  /\ OneContextAtATime
  /\ IdleUntilOpen
  /\ ClosesOpened
  /\ SeenKept
  /\ SnapshotBetween
  /\ PromiseCarried
=============================================================================
