------------------------ MODULE ProfileContextProofs ------------------------
(***************************************************************************)
(* Proofs about ProfileContext: for any number of contexts, closes,        *)
(* changes and other processes, with or without automatic backups and      *)
(* failures.                                                               *)
(***************************************************************************)
EXTENDS ProfileContext, TLAPS

\* The initial state satisfies the invariant.
LEMMA ContextInit == Init => ContextInv
<1> SUFFICES ASSUME Init PROVE ContextInv
  OBVIOUS
<1> USE DEF Init, Unbound
<1>1. TypeOK
  BY DEF TypeOK, Versions, Profiles
<1>2. OneContextAtATime
  BY DEF OneContextAtATime
<1>3. IdleUntilOpen /\ ClosesOpened
  BY DEF IdleUntilOpen, ClosesOpened
<1>4. SeenKept /\ SnapshotBetween
  BY DEF SeenKept, SnapshotBetween, Content
<1>5. PromiseCarried
  BY DEF PromiseCarried
<1> QED BY <1>1, <1>2, <1>3, <1>4, <1>5 DEF ContextInv

\* The steps that only the type invariant has to be checked for are split from
\* the others: typing needs nothing but the assumption on the constants.
LEMMA ContextTyping == TypeOK /\ [Next]_vars => TypeOK'
<1> SUFFICES ASSUME TypeOK, [Next]_vars PROVE TypeOK'
  OBVIOUS
<1> USE DEF TypeOK, Versions, Profiles, pageVars, backupVars, closeVars
<1>1. ASSUME NEW x \in Contexts, OpenContext(x) PROVE TypeOK'
  <2>1. leases' \subseteq Contexts /\ phase' \in [Contexts -> {"new", "loading", "open", "closed", "failed"}]
    BY <1>1 DEF OpenContext
  <2> QED BY <1>1, <2>1 DEF OpenContext
<1>15. ASSUME NEW x \in Contexts, InitializeFails(x) PROVE TypeOK'
  BY <1>15 DEF InitializeFails
<1>16. ASSUME NEW x \in Contexts, Change(x) PROVE TypeOK'
  BY <1>16 DEF Change
<1>17. ASSUME NEW x \in Contexts, MarkDirty(x) PROVE TypeOK'
  BY <1>17 DEF MarkDirty
<1>18. ASSUME NEW x \in Contexts, TimerFires(x) PROVE TypeOK'
  <2>1. backup' \in [Contexts -> {"none", "exporting", "saving", "saved"}]
    BY <1>18 DEF TimerFires, JoinOrStartBackup
  <2> QED BY <1>18, <2>1 DEF TimerFires
<1>2. ASSUME NEW x \in Contexts, Initialize(x) PROVE TypeOK'
  BY <1>2 DEF Initialize, Content
<1>3. ASSUME NEW x \in Contexts, WorkersEnd(x) PROVE TypeOK'
  BY <1>3 DEF WorkersEnd
<1>4. ASSUME NEW x \in Contexts, CallBackup(x) PROVE TypeOK'
  BY <1>4 DEF CallBackup, JoinOrStartBackup
<1>5. ASSUME NEW x \in Contexts, NEW succeeded \in BOOLEAN, SettleBackup(x, succeeded)
      PROVE  /\ backup' \in [Contexts -> {"none", "exporting", "saving", "saved"}]
             /\ snapshot' \in [Contexts -> Profiles]
             /\ closing' \in [Closes -> [of : Contexts \cup {NoContext}, persist : BOOLEAN,
                  joined : BOOLEAN, step : {"none", "backup", "disposing", "done", "failed"}]]
  BY <1>5 DEF SettleBackup, Unbound
<1>6. ASSUME NEW x \in Contexts, Export(x) PROVE TypeOK'
  BY <1>5, <1>6 DEF Export
<1>7. ASSUME NEW x \in Contexts, SaveApplied(x) PROVE TypeOK'
  BY <1>7 DEF SaveApplied
<1>8. ASSUME NEW x \in Contexts, SaveReturns(x) PROVE TypeOK'
  BY <1>5, <1>8 DEF SaveReturns
<1>9. ASSUME NEW x \in Contexts, SaveRefused(x) \/ BackupFails(x) PROVE TypeOK'
  BY <1>5, <1>9 DEF SaveRefused, BackupFails
<1>10. ASSUME NEW x \in Contexts, NEW k \in Closes, NEW persist \in BOOLEAN,
              CallClose(k, x, persist)
       PROVE  TypeOK'
  BY <1>10 DEF CallClose, JoinOrStartBackup
<1>11. ASSUME NEW k \in Closes, FinishClose(k) PROVE TypeOK'
  BY <1>11 DEF FinishClose
<1>12. ASSUME NEW k \in Closes, CloseFails(k) PROVE TypeOK'
  BY <1>12 DEF CloseFails, Unbound
<1>13. ASSUME NEW m \in Others, OtherProcessSaves(m) PROVE TypeOK'
  BY <1>13 DEF OtherProcessSaves, Content
<1>14. CASE UNCHANGED vars
  BY <1>14 DEF vars
<1> QED BY <1>1, <1>15, <1>16, <1>17, <1>18, <1>2, <1>3, <1>4, <1>6, <1>7, <1>8, <1>9, <1>10, <1>11, <1>12, <1>13, <1>14
        DEF Next, ContextStep

\* Every step preserves the invariant.
LEMMA ContextNext == ContextInv /\ [Next]_vars => ContextInv'
<1> SUFFICES ASSUME ContextInv, [Next]_vars PROVE ContextInv'
  OBVIOUS
<1>t. TypeOK'
  BY ContextTyping DEF ContextInv
<1> USE ContextAssumption DEF ContextInv, pageVars, backupVars, closeVars
<1>1. ASSUME NEW x \in Contexts, OpenContext(x)
      PROVE  ContextInv'
  <2>1. OneContextAtATime'
    BY <1>1 DEF OpenContext, OneContextAtATime, TypeOK
  <2>2. IdleUntilOpen'
    BY <1>1 DEF OpenContext, IdleUntilOpen, TypeOK
  <2>3. ClosesOpened'
    BY <1>1 DEF OpenContext, ClosesOpened, TypeOK
  <2>4. SeenKept'
    BY <1>1 DEF OpenContext, SeenKept
  <2>5. SnapshotBetween'
    BY <1>1 DEF OpenContext, SnapshotBetween
  <2>6. PromiseCarried'
    BY <1>1 DEF OpenContext, PromiseCarried
  <2> QED BY <1>t, <2>1, <2>2, <2>3, <2>4, <2>5, <2>6
<1>2. ASSUME NEW x \in Contexts, Initialize(x)
      PROVE  ContextInv'
  <2>1. OneContextAtATime'
    BY <1>2 DEF Initialize, OneContextAtATime
  <2>2. IdleUntilOpen'
    BY <1>2 DEF Initialize, IdleUntilOpen, TypeOK
  <2>3. ClosesOpened'
    BY <1>2 DEF Initialize, ClosesOpened
  <2>4. SeenKept'
    BY <1>2 DEF Initialize, SeenKept, TypeOK
  <2>5. SnapshotBetween'
    BY <1>2 DEF Initialize, SnapshotBetween, IdleUntilOpen
  <2>6. PromiseCarried'
    BY <1>2 DEF Initialize, PromiseCarried, IdleUntilOpen
  <2> QED BY <1>t, <2>1, <2>2, <2>3, <2>4, <2>5, <2>6
<1>3. ASSUME NEW x \in Contexts, InitializeFails(x)
      PROVE  ContextInv'
  <2>1. OneContextAtATime'
    BY <1>3 DEF InitializeFails, OneContextAtATime, TypeOK
  <2>2. IdleUntilOpen'
    BY <1>3 DEF InitializeFails, IdleUntilOpen
  <2>3. ClosesOpened'
    BY <1>3 DEF InitializeFails, ClosesOpened
  <2>4. SeenKept'
    BY <1>3 DEF InitializeFails, SeenKept
  <2>5. SnapshotBetween'
    BY <1>3 DEF InitializeFails, SnapshotBetween
  <2>6. PromiseCarried'
    BY <1>3 DEF InitializeFails, PromiseCarried
  <2> QED BY <1>t, <2>1, <2>2, <2>3, <2>4, <2>5, <2>6
<1>4. ASSUME NEW x \in Contexts, Change(x)
      PROVE  ContextInv'
  <2>1. OneContextAtATime'
    BY <1>4 DEF Change, OneContextAtATime
  <2>2. IdleUntilOpen'
    BY <1>4 DEF Change, IdleUntilOpen
  <2>3. ClosesOpened'
    BY <1>4 DEF Change, ClosesOpened
  <2>4. SeenKept'
    BY <1>4 DEF Change, SeenKept
  <2>5. SnapshotBetween'
    BY <1>4 DEF Change, SnapshotBetween
  <2>6. PromiseCarried'
    BY <1>4 DEF Change, PromiseCarried
  <2> QED BY <1>t, <2>1, <2>2, <2>3, <2>4, <2>5, <2>6
<1>5. ASSUME NEW x \in Contexts, WorkersEnd(x)
      PROVE  ContextInv'
  <2>1. OneContextAtATime'
    BY <1>5 DEF WorkersEnd, OneContextAtATime
  <2>2. IdleUntilOpen'
    BY <1>5 DEF WorkersEnd, IdleUntilOpen
  <2>3. ClosesOpened'
    BY <1>5 DEF WorkersEnd, ClosesOpened
  <2>4. SeenKept'
    BY <1>5 DEF WorkersEnd, SeenKept
  <2>5. SnapshotBetween'
    BY <1>5 DEF WorkersEnd, SnapshotBetween
  <2>6. PromiseCarried'
    BY <1>5 DEF WorkersEnd, PromiseCarried
  <2> QED BY <1>t, <2>1, <2>2, <2>3, <2>4, <2>5, <2>6
<1>6. ASSUME NEW x \in Contexts, MarkDirty(x)
      PROVE  ContextInv'
  <2>1. OneContextAtATime'
    BY <1>6 DEF MarkDirty, OneContextAtATime
  <2>2. IdleUntilOpen'
    BY <1>6 DEF MarkDirty, IdleUntilOpen
  <2>3. ClosesOpened'
    BY <1>6 DEF MarkDirty, ClosesOpened
  <2>4. SeenKept'
    BY <1>6 DEF MarkDirty, SeenKept
  <2>5. SnapshotBetween'
    BY <1>6 DEF MarkDirty, SnapshotBetween
  <2>6. PromiseCarried'
    BY <1>6 DEF MarkDirty, PromiseCarried
  <2> QED BY <1>t, <2>1, <2>2, <2>3, <2>4, <2>5, <2>6
<1>7. ASSUME NEW x \in Contexts, TimerFires(x)
      PROVE  ContextInv'
  <2>1. OneContextAtATime'
    BY <1>7 DEF TimerFires, JoinOrStartBackup, OneContextAtATime
  <2>2. IdleUntilOpen'
    BY <1>7 DEF TimerFires, JoinOrStartBackup, IdleUntilOpen, TypeOK
  <2>3. ClosesOpened'
    BY <1>7 DEF TimerFires, JoinOrStartBackup, ClosesOpened
  <2>4. SeenKept'
    BY <1>7 DEF TimerFires, JoinOrStartBackup, SeenKept
  <2>5. SnapshotBetween'
    BY <1>7 DEF TimerFires, JoinOrStartBackup, SnapshotBetween, TypeOK
  <2>6. PromiseCarried'
    BY <1>7 DEF TimerFires, JoinOrStartBackup, PromiseCarried, TypeOK, ClosesOpened
  <2> QED BY <1>t, <2>1, <2>2, <2>3, <2>4, <2>5, <2>6
<1>8. ASSUME NEW x \in Contexts, CallBackup(x)
      PROVE  ContextInv'
  <2>1. OneContextAtATime'
    BY <1>8 DEF CallBackup, JoinOrStartBackup, OneContextAtATime
  <2>2. IdleUntilOpen'
    BY <1>8 DEF CallBackup, JoinOrStartBackup, IdleUntilOpen
  <2>3. ClosesOpened'
    BY <1>8 DEF CallBackup, JoinOrStartBackup, ClosesOpened
  <2>4. SeenKept'
    BY <1>8 DEF CallBackup, JoinOrStartBackup, SeenKept
  <2>5. SnapshotBetween'
    BY <1>8 DEF CallBackup, JoinOrStartBackup, SnapshotBetween
  <2>6. PromiseCarried'
    BY <1>8 DEF CallBackup, JoinOrStartBackup, PromiseCarried
  <2> QED BY <1>t, <2>1, <2>2, <2>3, <2>4, <2>5, <2>6
<1>9. ASSUME NEW x \in Contexts, Export(x)
      PROVE  ContextInv'
  <2>1. OneContextAtATime'
    BY <1>9 DEF Export, SettleBackup, Unbound, OneContextAtATime
  <2>2. IdleUntilOpen'
    BY <1>9 DEF Export, SettleBackup, Unbound, IdleUntilOpen, TypeOK
  <2>3. ClosesOpened'
    BY <1>9 DEF Export, SettleBackup, Unbound, ClosesOpened, TypeOK
  <2>4. SeenKept'
    BY <1>9 DEF Export, SettleBackup, Unbound, SeenKept
  <2>5. SnapshotBetween'
    BY <1>9 DEF Export, SettleBackup, Unbound, SnapshotBetween, TypeOK, SeenKept
  <2>6. PromiseCarried'
    BY <1>9 DEF Export, SettleBackup, Unbound, PromiseCarried, TypeOK, SeenKept, ClosesOpened, Content
  <2> QED BY <1>t, <2>1, <2>2, <2>3, <2>4, <2>5, <2>6
<1>10. ASSUME NEW x \in Contexts, SaveApplied(x)
      PROVE  ContextInv'
  <2>1. OneContextAtATime'
    BY <1>10 DEF SaveApplied, OneContextAtATime
  <2>2. IdleUntilOpen'
    BY <1>10 DEF SaveApplied, IdleUntilOpen
  <2>3. ClosesOpened'
    BY <1>10 DEF SaveApplied, ClosesOpened
  <2>4. SeenKept'
    BY <1>10 DEF SaveApplied, SeenKept, TypeOK, SnapshotBetween, Content
  <2>5. SnapshotBetween'
    BY <1>10 DEF SaveApplied, SnapshotBetween, TypeOK, Content
  <2>6. PromiseCarried'
    BY <1>10 DEF SaveApplied, PromiseCarried, TypeOK, SnapshotBetween, Content
  <2> QED BY <1>t, <2>1, <2>2, <2>3, <2>4, <2>5, <2>6
<1>11. ASSUME NEW x \in Contexts, SaveReturns(x)
      PROVE  ContextInv'
  <2>1. OneContextAtATime'
    BY <1>11 DEF SaveReturns, SettleBackup, Unbound, OneContextAtATime
  <2>2. IdleUntilOpen'
    BY <1>11 DEF SaveReturns, SettleBackup, Unbound, IdleUntilOpen
  <2>3. ClosesOpened'
    BY <1>11 DEF SaveReturns, SettleBackup, Unbound, ClosesOpened
  <2>4. SeenKept'
    BY <1>11 DEF SaveReturns, SettleBackup, Unbound, SeenKept, SnapshotBetween, Content
  <2>5. SnapshotBetween'
    BY <1>11 DEF SaveReturns, SettleBackup, Unbound, SnapshotBetween, TypeOK
  <2>6. PromiseCarried'
    BY <1>11 DEF SaveReturns, SettleBackup, Unbound, PromiseCarried, SnapshotBetween
  <2> QED BY <1>t, <2>1, <2>2, <2>3, <2>4, <2>5, <2>6
<1>12. ASSUME NEW x \in Contexts, SaveRefused(x)
      PROVE  ContextInv'
  <2>1. OneContextAtATime'
    BY <1>12 DEF SaveRefused, SettleBackup, Unbound, OneContextAtATime
  <2>2. IdleUntilOpen'
    BY <1>12 DEF SaveRefused, SettleBackup, Unbound, IdleUntilOpen
  <2>3. ClosesOpened'
    BY <1>12 DEF SaveRefused, SettleBackup, Unbound, ClosesOpened
  <2>4. SeenKept'
    BY <1>12 DEF SaveRefused, SettleBackup, Unbound, SeenKept
  <2>5. SnapshotBetween'
    BY <1>12 DEF SaveRefused, SettleBackup, Unbound, SnapshotBetween, TypeOK
  <2>6. PromiseCarried'
    BY <1>12 DEF SaveRefused, SettleBackup, Unbound, PromiseCarried
  <2> QED BY <1>t, <2>1, <2>2, <2>3, <2>4, <2>5, <2>6
<1>13. ASSUME NEW x \in Contexts, BackupFails(x)
      PROVE  ContextInv'
  <2>1. OneContextAtATime'
    BY <1>13 DEF BackupFails, SettleBackup, Unbound, OneContextAtATime
  <2>2. IdleUntilOpen'
    BY <1>13 DEF BackupFails, SettleBackup, Unbound, IdleUntilOpen
  <2>3. ClosesOpened'
    BY <1>13 DEF BackupFails, SettleBackup, Unbound, ClosesOpened
  <2>4. SeenKept'
    BY <1>13 DEF BackupFails, SettleBackup, Unbound, SeenKept
  <2>5. SnapshotBetween'
    BY <1>13 DEF BackupFails, SettleBackup, Unbound, SnapshotBetween, TypeOK
  <2>6. PromiseCarried'
    BY <1>13 DEF BackupFails, SettleBackup, Unbound, PromiseCarried
  <2> QED BY <1>t, <2>1, <2>2, <2>3, <2>4, <2>5, <2>6
<1>14. ASSUME NEW x \in Contexts, NEW k \in Closes, NEW persist \in BOOLEAN, CallClose(k, x, persist)
      PROVE  ContextInv'
  <2>1. OneContextAtATime'
    BY <1>14 DEF CallClose, JoinOrStartBackup, OneContextAtATime
  <2>2. IdleUntilOpen'
    BY <1>14 DEF CallClose, JoinOrStartBackup, IdleUntilOpen, TypeOK
  <2>3. ClosesOpened'
    BY <1>14 DEF CallClose, JoinOrStartBackup, ClosesOpened
  <2>4. SeenKept'
    BY <1>14 DEF CallClose, JoinOrStartBackup, SeenKept
  <2>5. SnapshotBetween'
    BY <1>14 DEF CallClose, JoinOrStartBackup, SnapshotBetween, TypeOK
  <2>6. PromiseCarried'
    BY <1>14 DEF CallClose, JoinOrStartBackup, PromiseCarried, TypeOK, ClosesOpened
  <2> QED BY <1>t, <2>1, <2>2, <2>3, <2>4, <2>5, <2>6
<1>15. ASSUME NEW k \in Closes, FinishClose(k)
      PROVE  ContextInv'
  <2>1. OneContextAtATime'
    BY <1>15 DEF FinishClose, OneContextAtATime, TypeOK
  <2>2. IdleUntilOpen'
    BY <1>15 DEF FinishClose, IdleUntilOpen
  <2>3. ClosesOpened'
    BY <1>15 DEF FinishClose, ClosesOpened
  <2>4. SeenKept'
    BY <1>15 DEF FinishClose, SeenKept
  <2>5. SnapshotBetween'
    BY <1>15 DEF FinishClose, SnapshotBetween
  <2>6. PromiseCarried'
    BY <1>15 DEF FinishClose, PromiseCarried
  <2> QED BY <1>t, <2>1, <2>2, <2>3, <2>4, <2>5, <2>6
<1>16. ASSUME NEW k \in Closes, CloseFails(k)
      PROVE  ContextInv'
  <2>1. OneContextAtATime'
    BY <1>16 DEF CloseFails, Unbound, OneContextAtATime
  <2>2. IdleUntilOpen'
    BY <1>16 DEF CloseFails, Unbound, IdleUntilOpen
  <2>3. ClosesOpened'
    BY <1>16 DEF CloseFails, Unbound, ClosesOpened
  <2>4. SeenKept'
    BY <1>16 DEF CloseFails, Unbound, SeenKept
  <2>5. SnapshotBetween'
    BY <1>16 DEF CloseFails, Unbound, SnapshotBetween
  <2>6. PromiseCarried'
    BY <1>16 DEF CloseFails, Unbound, PromiseCarried
  <2> QED BY <1>t, <2>1, <2>2, <2>3, <2>4, <2>5, <2>6
<1>17. ASSUME NEW m \in Others, OtherProcessSaves(m)
      PROVE  ContextInv'
  <2>1. OneContextAtATime'
    BY <1>17 DEF OtherProcessSaves, OneContextAtATime
  <2>2. IdleUntilOpen'
    BY <1>17 DEF OtherProcessSaves, IdleUntilOpen
  <2>3. ClosesOpened'
    BY <1>17 DEF OtherProcessSaves, ClosesOpened
  <2>4. stored' \in Profiles /\ Content(stored') = Content(stored) \cup {m}
    BY <1>17 DEF OtherProcessSaves, Versions, Profiles, TypeOK, Content
  <2>5. SeenKept'
    BY <1>17, <2>4 DEF OtherProcessSaves, SeenKept
  <2>6. SnapshotBetween'
    BY <1>17, <2>4 DEF OtherProcessSaves, SnapshotBetween
  <2>7. PromiseCarried'
    BY <1>17, <2>4 DEF OtherProcessSaves, PromiseCarried
  <2> QED BY <1>t, <2>1, <2>2, <2>3, <2>5, <2>6, <2>7
<1>18. CASE UNCHANGED vars
  BY <1>18, <1>t DEF vars, OneContextAtATime, IdleUntilOpen, ClosesOpened, SeenKept, SnapshotBetween, PromiseCarried
<1> QED BY <1>1, <1>2, <1>3, <1>4, <1>5, <1>6, <1>7, <1>8, <1>9, <1>10, <1>11, <1>12, <1>13, <1>14, <1>15, <1>16, <1>17, <1>18 DEF Next, ContextStep

\* The whole invariant holds in every reachable state: what a context exports holds
\* what it has seen, and a close carries what it found (initialize, backup, close).
THEOREM ContextInvariant == Spec => []ContextInv
BY ContextInit, ContextNext, PTL DEF Spec

\* The lease is exclusive: of all contexts of the process at most one has the
\* profile open, and exactly the one that has it holds the lease.
THEOREM LeaseExcludes == Spec => []OneContextAtATime
<1>1. ContextInv => OneContextAtATime
  BY DEF ContextInv
<1> QED BY ContextInvariant, <1>1, PTL

\* What a close with a final checkpoint of its own found in the context is in
\* the store from the moment it resolves, for good.
THEOREM CloseCheckpoints == Spec => []CloseSavesWhatItFound
<1>1. ContextInv => CloseSavesWhatItFound
  BY DEF ContextInv, PromiseCarried, CloseSavesWhatItFound
<1> QED BY ContextInvariant, <1>1, PTL

\* No save of a context takes away a change that is in the store, because the
\* context has seen that change before and keeps it in what it exports.
THEOREM StoredChangesAreKept == Spec => StoredChangesSurvive
<1> DEFINE Kept == Content(stored) \ lost \subseteq Content(stored')
<1>1. ASSUME ContextInv, [Next]_vars PROVE Kept
  <2>1. ASSUME NEW x \in Contexts, SaveApplied(x) PROVE Kept
    <3>1. Content(stored) \ lost \subseteq snapshot[x]
      BY <1>1, <2>1 DEF SaveApplied, ContextInv, SnapshotBetween
    <3>2. Content(stored') = snapshot[x]
      <4>1. snapshot[x] \in Profiles
        BY <1>1 DEF ContextInv, TypeOK
      <4> QED BY <2>1, <4>1, ContextAssumption DEF SaveApplied, Content
    <3> QED BY <3>1, <3>2
  <2>2. ASSUME NEW m \in Others, OtherProcessSaves(m) PROVE Kept
    <3>1. stored' \in Profiles
      BY <1>1, <2>2 DEF OtherProcessSaves, ContextInv, TypeOK, Versions, Profiles, Content
    <3> QED BY <2>2, <3>1, ContextAssumption DEF OtherProcessSaves, Content
  <2>3. CASE UNCHANGED stored
    BY <2>3 DEF Content
  <2> QED
    BY <1>1, <2>1, <2>2, <2>3
    DEF Next, vars, ContextStep, OpenContext, Initialize, InitializeFails, Change, WorkersEnd,
        MarkDirty, TimerFires, CallBackup, Export, SaveReturns, SaveRefused, BackupFails,
        CallClose, FinishClose, CloseFails
<1>2. ContextInv /\ [Next]_vars => [Content(stored) \ lost \subseteq Content(stored')]_vars
  BY <1>1
<1> QED BY ContextInvariant, <1>2, PTL DEF Spec, StoredChangesSurvive
=============================================================================
