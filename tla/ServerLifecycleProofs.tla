------------------------ MODULE ServerLifecycleProofs ------------------------
(***************************************************************************)
(* Proofs about ServerLifecycle: for any number of connections, cookies    *)
(* and slots.                                                              *)
(***************************************************************************)
EXTENDS ServerLifecycle, FiniteSetTheorems, TLAPS

\* What the storage invariants are about.
stored == <<thread, own, base, template, lock, jar, disk, newest, unsaved>>

\* The steps of the main loop, the signal thread, the accept thread and clients.
LEMMA OtherSteps ==
  ASSUME [Next]_vars
  PROVE  \/ UNCHANGED stored
         \/ SaveAndExit
         \/ \E c \in Conn : RunConnection(c) \/ Threads(c) \/ ShakeHands(c)
              \/ \E k \in Cookies, v \in Values \cup {Absent} : ChangeCookie(c, k, v)
<1> USE DEF stored, serving, storing, stopping
<1>1. CASE UNCHANGED vars
  BY <1>1 DEF vars
<1>2. CASE MainLoop
  BY <1>2 DEF MainLoop, TakeSocket, RefuseConnection, SpawnFails, StopAccepting, Drained,
              DrainTimeout
<1>3. CASE StoreFlag \/ NotifyWaiters
  BY <1>3 DEF StoreFlag, NotifyWaiters
<1>4. ASSUME NEW c \in Conn, Connect(c) \/ Disconnect(c) \/ Accept(c) \/ Dispatch(c)
      PROVE  UNCHANGED stored
  BY <1>4 DEF Connect, Disconnect, Accept, Dispatch
<1> QED BY <1>1, <1>2, <1>3, <1>4 DEF Next

\* Type correctness.
THEOREM Typing == Spec => []TypeOK
<1>1. Init => TypeOK
  <2> SUFFICES ASSUME Init PROVE TypeOK
    OBVIOUS
  <2>1. template \in Jars /\ base \in [Conn -> Jars] /\ own \in [Conn -> Jars] /\ jar \in Jars /\ disk \in Jars
    BY DEF Init
  <2>2. handoff \in Seq(Conn) /\ woken \subseteq Conn \cup {NoConn} /\ live \in Int
    BY DEF Init
  <2>3. changes \in [Conn -> 0 .. MaxChanges]
    BY ServerAssumption DEF Init
  <2> QED BY <2>1, <2>2, <2>3 DEF Init, TypeOK, Holding
<1>2. TypeOK /\ [Next]_vars => TypeOK'
  <2> SUFFICES ASSUME TypeOK, [Next]_vars PROVE TypeOK'
    OBVIOUS
  <2> USE DEF TypeOK, Holding, Jars, stopping, serving, storing
  <2>1. CASE UNCHANGED vars
    BY <2>1 DEF vars
  <2>2. CASE TakeSocket \/ StopAccepting \/ Drained \/ DrainTimeout \/ SaveAndExit
    <3>1. CASE TakeSocket
      <4>1. Head(handoff) \in Conn /\ handoff' \in Seq(Conn)
        BY <3>1 DEF TakeSocket
      <4> QED BY <3>1, <4>1 DEF TakeSocket
    <3>2. CASE StopAccepting \/ Drained \/ DrainTimeout
      BY <3>2 DEF StopAccepting, Drained, DrainTimeout
    <3>3. CASE SaveAndExit
      BY <3>3 DEF SaveAndExit, SavesFile, SaveFails
    <3> QED BY <2>2, <3>1, <3>2, <3>3
  <2>3. CASE StoreFlag \/ NotifyWaiters
    BY <2>3 DEF StoreFlag, NotifyWaiters
  <2>4. ASSUME NEW c \in Conn, RefuseConnection(c) \/ RunConnection(c) \/ SpawnFails(c)
        PROVE  TypeOK'
    <3>1. CASE RefuseConnection(c)
      BY <3>1 DEF RefuseConnection
    <3>2. CASE RunConnection(c)
      BY <3>2 DEF RunConnection
    <3>3. CASE SpawnFails(c)
      BY <3>3 DEF SpawnFails
    <3> QED BY <2>4, <3>1, <3>2, <3>3
  <2>5. ASSUME NEW c \in Conn, Connect(c) \/ Disconnect(c) \/ Accept(c) PROVE TypeOK'
    BY <2>5 DEF Connect, Disconnect, Accept
  <2>6. ASSUME NEW c \in Conn, Dispatch(c) PROVE TypeOK'
    <3>1. \/ handoff' = Append(handoff, c) /\ client' = [client EXCEPT ![c] = "queued"]
          \/ handoff' = handoff /\ client' = [client EXCEPT ![c] = "refused"]
      <4>1. CASE Len(handoff) < MaxHandoffs
        BY <4>1, <2>6 DEF Dispatch
      <4>2. CASE Len(handoff) >= MaxHandoffs
        BY <4>2, <2>6, ServerAssumption DEF Dispatch
      <4> QED BY <4>1, <4>2, ServerAssumption
    <3>2. handoff' \in Seq(Conn)
      <4>1. Append(handoff, c) \in Seq(Conn) /\ handoff \in Seq(Conn)
        OBVIOUS
      <4> QED BY <3>1, <4>1, Zenon
    <3>3. client' \in [Conn -> {"none", "backlog", "peeked", "queued", "taken",
                               "open", "closed", "refused"}]
      BY <3>1
    <3> QED BY <3>2, <3>3, <2>6 DEF Dispatch
  <2>7. ASSUME NEW c \in Conn, NEW k \in Cookies, NEW v \in Values \cup {Absent},
               ChangeCookie(c, k, v)
        PROVE  TypeOK'
    <3>1. own' \in [Conn -> Jars]
      <4>1. [own[c] EXCEPT ![k] = v] \in Jars
        OBVIOUS
      <4> QED BY <4>1, <2>7 DEF ChangeCookie
    <3>2. changes' \in [Conn -> 0 .. MaxChanges]
      BY <2>7, ServerAssumption DEF ChangeCookie
    <3> QED BY <3>1, <3>2, <2>7 DEF ChangeCookie
  <2>8. ASSUME NEW c \in Conn,
               \/ StartThread(c) \/ StartFails(c) \/ StreamFails(c) \/ ShakeHands(c)
               \/ ProcessorStops(c) \/ ReaderEnds(c)
        PROVE  TypeOK'
    <3> USE DEF Become, StopProcessor
    <3>1. CASE StartThread(c)
      BY <3>1 DEF StartThread
    <3>2. CASE StartFails(c)
      BY <3>2 DEF StartFails
    <3>3. CASE ProcessorStops(c)
      BY <3>3 DEF ProcessorStops
    <3>4. CASE ReaderEnds(c)
      BY <3>4 DEF ReaderEnds
    <3>5. CASE StreamFails(c)
      BY <3>5 DEF StreamFails
    <3>6. CASE ShakeHands(c)
      BY <3>6 DEF ShakeHands
    <3> QED BY <2>8, <3>1, <3>2, <3>3, <3>4, <3>5, <3>6
  <2>9. ASSUME NEW c \in Conn, LockPersistence(c) \/ SaveCookies(c) \/ ReleaseSlot(c)
        PROVE  TypeOK'
    <3> USE DEF Become
    <3>1. CASE LockPersistence(c)
      BY <3>1 DEF LockPersistence
    <3>2. CASE SaveCookies(c)
      BY <3>2 DEF SaveCookies, SavesFile, SaveFails
    <3>3. CASE ReleaseSlot(c)
      BY <3>3 DEF ReleaseSlot
    <3> QED BY <2>9, <3>1, <3>2, <3>3
  <2>10. ASSUME NEW c \in Conn, MergeDeletes(c) PROVE TypeOK'
    BY <2>10 DEF MergeDeletes, Become
  <2>11. ASSUME NEW c \in Conn, MergeSets(c) PROVE TypeOK'
    BY <2>11 DEF MergeSets, Become
  <2> QED BY <2>1, <2>2, <2>3, <2>4, <2>5, <2>6, <2>7, <2>8, <2>9, <2>10, <2>11
          DEF Next, MainLoop, Threads
<1> QED BY <1>1, <1>2, PTL DEF Spec

\* A socket that is handed over has no thread yet.
LEMMA Handing == Spec => []HandedOnce
<1>1. Init => HandedOnce
  BY DEF Init, HandedOnce
<1>2. TypeOK /\ HandedOnce /\ [Next]_vars => HandedOnce'
  <2> SUFFICES ASSUME TypeOK, HandedOnce, [Next]_vars PROVE HandedOnce'
    OBVIOUS
  <2> USE DEF HandedOnce
  <2>1. CASE UNCHANGED <<thread, client, handoff>>
    BY <2>1
  <2>2. CASE TakeSocket
    <3>1. /\ handoff \in Seq(Conn) /\ handoff # <<>>
          /\ handoff' = Tail(handoff) /\ thread' = thread
          /\ client' = [client EXCEPT ![Head(handoff)] = "taken"]
          /\ client \in [Conn -> {"none", "backlog", "peeked", "queued", "taken",
                                  "open", "closed", "refused"}]
      BY <2>2 DEF TakeSocket, TypeOK, serving
    <3>2. DOMAIN handoff' = 1 .. (Len(handoff) - 1)
          /\ \A i \in DOMAIN handoff' : handoff'[i] = handoff[i + 1] /\ i + 1 \in DOMAIN handoff
      BY <3>1
    <3>3. Head(handoff) = handoff[1] /\ 1 \in DOMAIN handoff /\ Head(handoff) \in Conn
          /\ \A i \in DOMAIN handoff : i \in Int /\ i >= 1 /\ handoff[i] \in Conn
      BY <3>1
    <3>4. \A i \in DOMAIN handoff' : client'[handoff'[i]] = "queued"
      BY <3>1, <3>2, <3>3
    <3>5. \A i, j \in DOMAIN handoff' : handoff'[i] = handoff'[j] => i = j
      BY <3>1, <3>2, <3>3
    <3>6. \A c \in Conn : thread'[c] # "none" => client'[c] \in {"open", "closed", "refused"}
      BY <3>1, <3>3
    <3> QED BY <3>4, <3>5, <3>6
  <2>3. ASSUME NEW c \in Conn,
               Connect(c) \/ Disconnect(c) \/ Accept(c) \/ RefuseConnection(c) \/ SpawnFails(c)
                 \/ RunConnection(c)
        PROVE  HandedOnce'
    <3> USE DEF TypeOK, serving, storing
    <3>0. \A i \in DOMAIN handoff : handoff[i] \in Conn
      OBVIOUS
    <3>1. CASE Connect(c)
      BY <3>1, <3>0 DEF Connect
    <3>2. CASE Disconnect(c)
      BY <3>2, <3>0 DEF Disconnect
    <3>3. CASE Accept(c)
      <4>1. /\ thread' = thread /\ handoff' = handoff
            /\ \/ client' = [d \in Conn |-> IF client[d] = "backlog" THEN "refused" ELSE client[d]]
               \/ client' = [client EXCEPT ![c] = "peeked"]
            /\ client[c] = "backlog"
        BY <3>3, Zenon DEF Accept
      <4>2. CASE client' = [d \in Conn |-> IF client[d] = "backlog" THEN "refused" ELSE client[d]]
        BY <4>1, <4>2, <3>0
      <4>3. CASE client' = [client EXCEPT ![c] = "peeked"]
        BY <4>1, <4>3, <3>0
      <4> QED BY <4>1, <4>2, <4>3
    <3>4. CASE RefuseConnection(c)
      BY <3>4, <3>0 DEF RefuseConnection
    <3>5. CASE SpawnFails(c)
      BY <3>5, <3>0 DEF SpawnFails
    <3>6. CASE RunConnection(c)
      BY <3>6, <3>0 DEF RunConnection
    <3> QED BY <2>3, <3>1, <3>2, <3>3, <3>4, <3>5, <3>6
  <2>4. ASSUME NEW c \in Conn, Dispatch(c) PROVE HandedOnce'
    <3>1. CASE Len(handoff) >= MaxHandoffs
      <4>1. \A i \in DOMAIN handoff : handoff[i] \in Conn
        BY DEF TypeOK
      <4>2. /\ client[c] = "peeked" /\ client' = [client EXCEPT ![c] = "refused"]
            /\ handoff' = handoff /\ thread' = thread
        BY <3>1, <2>4, ServerAssumption DEF TypeOK, Dispatch
      <4> QED BY <4>1, <4>2 DEF TypeOK
    <3>2. CASE Len(handoff) < MaxHandoffs
      <4>1. /\ handoff \in Seq(Conn) /\ handoff' = Append(handoff, c) /\ thread' = thread
            /\ client[c] = "peeked" /\ client' = [client EXCEPT ![c] = "queued"]
            /\ client \in [Conn -> {"none", "backlog", "peeked", "queued", "taken",
                                    "open", "closed", "refused"}]
        BY <3>2, <2>4 DEF Dispatch, TypeOK
      <4>2. DOMAIN handoff' = 1 .. (Len(handoff) + 1) /\ handoff'[Len(handoff) + 1] = c
            /\ \A i \in 1 .. Len(handoff) : handoff'[i] = handoff[i] /\ i \in DOMAIN handoff
        BY <4>1
      <4>3. \A i \in DOMAIN handoff' : i = Len(handoff) + 1 \/ i \in 1 .. Len(handoff)
        BY <4>1, <4>2
      <4>4. \A i \in 1 .. Len(handoff) : handoff[i] # c /\ handoff[i] \in Conn
        BY <4>1, <4>2
      <4>5. \A i \in DOMAIN handoff' : client'[handoff'[i]] = "queued"
        BY <4>1, <4>2, <4>3, <4>4
      <4>6. \A i, j \in DOMAIN handoff' : handoff'[i] = handoff'[j] => i = j
        BY <4>2, <4>3, <4>4
      <4> QED BY <4>1, <4>5, <4>6
    <3> QED BY <3>1, <3>2, ServerAssumption DEF TypeOK
  <2>5. ASSUME NEW c \in Conn, Threads(c) \/ ShakeHands(c) PROVE HandedOnce'
    <3>0. \A i \in DOMAIN handoff : handoff[i] \in Conn
      BY DEF TypeOK
    <3>1. CASE StartFails(c)
      BY <3>1, <3>0 DEF TypeOK, StartFails, Become
    <3>2. CASE StartThread(c)
      BY <3>2 DEF TypeOK, StartThread, Become
    <3>6. CASE StreamFails(c)
      BY <3>6, <3>0 DEF TypeOK, StreamFails, Become
    <3>7. CASE ShakeHands(c)
      BY <3>7 DEF TypeOK, ShakeHands, Become
    <3>3. CASE ProcessorStops(c) \/ ReaderEnds(c)
      BY <3>3 DEF TypeOK, ProcessorStops, ReaderEnds, Become
    <3>4. CASE LockPersistence(c) \/ MergeDeletes(c) \/ MergeSets(c) \/ SaveCookies(c)
      BY <3>4 DEF TypeOK, LockPersistence, MergeDeletes, MergeSets, SaveCookies, Become
    <3>5. CASE ReleaseSlot(c)
      BY <3>5 DEF TypeOK, ReleaseSlot, Become
    <3> QED BY <2>5, <3>1, <3>2, <3>3, <3>4, <3>5, <3>6, <3>7 DEF Threads
  <2>6. ASSUME NEW c \in Conn, NEW k \in Cookies, NEW v \in Values \cup {Absent},
               ChangeCookie(c, k, v)
        PROVE  UNCHANGED <<thread, client, handoff>>
    BY <2>6 DEF ChangeCookie
  <2>7. StoreFlag \/ NotifyWaiters \/ StopAccepting \/ Drained \/ DrainTimeout \/ SaveAndExit
          => UNCHANGED <<thread, client, handoff>>
    BY DEF StoreFlag, NotifyWaiters, StopAccepting, Drained, DrainTimeout, SaveAndExit
  <2>8. UNCHANGED vars => UNCHANGED <<thread, client, handoff>>
    BY DEF vars
  <2> QED BY <2>1, <2>2, <2>3, <2>4, <2>5, <2>6, <2>7, <2>8 DEF Next, MainLoop
<1> QED BY <1>1, <1>2, Typing, PTL DEF Spec

\* The threads that hold a slot are finitely many.
LEMMA HoldersFinite == IsFiniteSet(Holders)
<1>1. Holders \in SUBSET Conn
  BY DEF Holders
<1> QED BY <1>1, FS_Subset, ServerAssumption

\* The number of slots taken is the number of threads, and never above the limit.
THEOREM SlotsAreExact == Spec => []SlotsCountThreads
<1>1. Init => SlotsCountThreads
  <2> SUFFICES ASSUME Init PROVE SlotsCountThreads
    OBVIOUS
  <2>1. Holders = {}
    BY DEF Init, Holders, Holding
  <2> QED BY <2>1, FS_EmptySet, ServerAssumption DEF Init, SlotsCountThreads
<1>2. TypeOK /\ HandedOnce /\ SlotsCountThreads /\ [Next]_vars => SlotsCountThreads'
  <2> SUFFICES ASSUME TypeOK, HandedOnce, SlotsCountThreads, [Next]_vars
               PROVE  SlotsCountThreads'
    OBVIOUS
  <2>1. CASE Holders' = Holders /\ live' = live
    BY <2>1 DEF SlotsCountThreads
  <2>2. ASSUME NEW c \in Conn, RunConnection(c) PROVE SlotsCountThreads'
    <3>1. Holders' = Holders \cup {c} /\ c \notin Holders
      BY <2>2 DEF RunConnection, HandedOnce, TypeOK, Holders, Holding
    <3>2. Cardinality(Holders') = Cardinality(Holders) + 1
      BY <3>1, HoldersFinite, FS_AddElement
    <3>3. live' = live + 1 /\ live < MaxConnections /\ live \in Int
      BY <2>2 DEF RunConnection, TypeOK
    <3> QED BY <3>2, <3>3, ServerAssumption DEF SlotsCountThreads
  <2>3. ASSUME NEW c \in Conn, ReleaseSlot(c) PROVE SlotsCountThreads'
    <3>1. Holders' = Holders \ {c} /\ c \in Holders
      BY <2>3 DEF ReleaseSlot, Become, TypeOK, Holders, Holding
    <3>2. Cardinality(Holders') = Cardinality(Holders) - 1
      BY <3>1, HoldersFinite, FS_RemoveElement
    <3>3. live' = live - 1 /\ live \in Int
      BY <2>3 DEF ReleaseSlot, TypeOK
    <3> QED BY <3>2, <3>3, ServerAssumption DEF SlotsCountThreads
  <2>4. ASSUME NEW c \in Conn, Threads(c) \/ ShakeHands(c), ~ReleaseSlot(c)
        PROVE  Holders' = Holders /\ live' = live
    BY <2>4 DEF TypeOK, Threads, ShakeHands, StartThread, StartFails, StreamFails,
         ProcessorStops, ReaderEnds, StopProcessor, LockPersistence, MergeDeletes, MergeSets, SaveCookies, Become, Holders, Holding
  <2>5. ASSUME NEW c \in Conn,
               RefuseConnection(c) \/ SpawnFails(c) \/ Connect(c) \/ Disconnect(c)
                 \/ Accept(c) \/ Dispatch(c)
        PROVE  Holders' = Holders /\ live' = live
    BY <2>5 DEF RefuseConnection, SpawnFails, Connect, Disconnect, Accept, Dispatch, Holders
  <2>6. ASSUME NEW c \in Conn, NEW k \in Cookies, NEW v \in Values \cup {Absent},
               ChangeCookie(c, k, v)
        PROVE  Holders' = Holders /\ live' = live
    BY <2>6 DEF ChangeCookie, Holders
  <2>7. TakeSocket \/ StopAccepting \/ Drained \/ DrainTimeout \/ SaveAndExit
          \/ StoreFlag \/ NotifyWaiters
          => Holders' = Holders /\ live' = live
    BY DEF TakeSocket, StopAccepting, Drained, DrainTimeout, SaveAndExit, StoreFlag,
           NotifyWaiters, Holders
  <2>8. UNCHANGED vars => Holders' = Holders /\ live' = live
    BY DEF vars, Holders
  <2> QED BY <2>1, <2>2, <2>3, <2>4, <2>5, <2>6, <2>7, <2>8 DEF Next, MainLoop
<1> QED BY <1>1, <1>2, Typing, Handing, PTL DEF Spec

\* What holds of the stored cookies at every step of every thread.
Storage ==
  /\ LockHeld /\ MergedAreDone /\ JarUnderLock /\ ChangesAreMerged /\ NoneBeforeStart
  /\ (lock = NoConn /\ ~unsaved => disk = jar)

\* A thread that neither merges nor saves leaves the changes merged so far alone.
LEMMA NewestStays ==
  ASSUME TypeOK, MergedAreDone, NEW c \in Conn, thread[c] \in {"none", "starting", "shaking", "serving"},
         newest' = newest, template' = template,
         \A d \in Conn : d # c => own'[d] = own[d]
  PROVE  NewestContent' = NewestContent
<1>1. \A k \in Cookies : newest[k] # c /\ newest[k] \in Conn \cup {NoConn}
  <2>1. \A k \in Cookies : newest[k] \in Conn \cup {NoConn}
    BY DEF TypeOK
  <2>2. c # NoConn
    BY ServerAssumption
  <2> QED BY <2>1, <2>2 DEF MergedAreDone
<1>2. \A k \in Cookies : newest[k] # NoConn => own'[newest[k]] = own[newest[k]]
  BY <1>1
<1> QED BY <1>2 DEF NewestContent

LEMMA StorageStep == TypeOK /\ HandedOnce /\ Storage /\ [Next]_vars => Storage'
<1> SUFFICES ASSUME TypeOK, HandedOnce, Storage, [Next]_vars PROVE Storage'
  OBVIOUS
<1> USE ServerAssumption DEF serving, storing, Become
<1>1. CASE UNCHANGED stored
  BY <1>1 DEF stored, Storage, LockHeld, MergedAreDone, JarUnderLock, ChangesAreMerged,
              NoneBeforeStart, MayDiffer, Delta, Deleted, NewestContent
<1>2. CASE SaveAndExit
  <2>1. /\ UNCHANGED <<thread, own, base, template, lock, jar, newest>>
        /\ SavesFile \/ SaveFails
    BY <1>2 DEF SaveAndExit
  <2>2. ~unsaved' => disk' = jar
    <3>1. CASE SavesFile
      BY <3>1 DEF SavesFile
    <3>2. CASE SaveFails
      BY <3>2 DEF SaveFails
    <3> QED BY <2>1, <3>1, <3>2
  <2>3. LockHeld' /\ MergedAreDone' /\ JarUnderLock' /\ ChangesAreMerged' /\ NoneBeforeStart'
    BY <2>1 DEF Storage, LockHeld, MergedAreDone, JarUnderLock, ChangesAreMerged,
                NoneBeforeStart, MayDiffer, Delta, Deleted, NewestContent
  <2> QED BY <2>1, <2>2, <2>3 DEF Storage
<1>3. ASSUME NEW c \in Conn,
             \/ RunConnection(c) \/ StartFails(c) \/ ShakeHands(c) \/ ReaderEnds(c)
             \/ ReleaseSlot(c)
      PROVE  Storage'
  <2>1. /\ UNCHANGED <<own, base, template, lock, jar, disk, newest, unsaved>>
        /\ \E p \in {"starting", "saved", "serving", "ungreeted", "closing", "ended"} :
             /\ thread' = [thread EXCEPT ![c] = p]
             /\ p = "starting" => thread[c] = "none"
             /\ p = "saved" => thread[c] = "starting"
             /\ p \in {"serving", "ungreeted"} => thread[c] = "shaking"
             /\ p = "closing" => thread[c] \in {"shaking", "serving"}
             /\ p = "ended" => thread[c] = "saved"
    <3>1. CASE RunConnection(c)
      BY <3>1 DEF RunConnection, HandedOnce, TypeOK
    <3>2. CASE StartFails(c)
      BY <3>2 DEF StartFails
    <3>3. CASE ReaderEnds(c)
      BY <3>3 DEF ReaderEnds
    <3>5. CASE ShakeHands(c)
      BY <3>5 DEF ShakeHands
    <3>4. CASE ReleaseSlot(c)
      BY <3>4 DEF ReleaseSlot
    <3> QED BY <1>3, <3>1, <3>2, <3>3, <3>4, <3>5
  <2>2. /\ \A d \in Conn : Delta(d)' = Delta(d) /\ Deleted(d)' = Deleted(d)
        /\ NewestContent' = NewestContent
    BY <2>1 DEF Delta, Deleted, NewestContent
  <2>3. PICK p \in {"starting", "saved", "serving", "ungreeted", "closing", "ended"} :
             /\ thread' = [thread EXCEPT ![c] = p]
             /\ p = "starting" => thread[c] = "none"
             /\ p = "saved" => thread[c] = "starting"
             /\ p \in {"serving", "ungreeted"} => thread[c] = "shaking"
             /\ p = "closing" => thread[c] \in {"shaking", "serving"}
             /\ p = "ended" => thread[c] = "saved"
    BY <2>1
  <2>4. \A d \in Conn : thread'[d] = IF d = c THEN p ELSE thread[d]
    BY <2>3 DEF TypeOK
  <2>5. LockHeld'
    BY <2>1, <2>3, <2>4 DEF Storage, LockHeld
  <2>6. MergedAreDone'
    <3>1. \A k \in Cookies : newest[k] \in Conn \cup {NoConn}
      BY DEF TypeOK
    <3> QED BY <2>1, <2>3, <2>4, <3>1 DEF Storage, MergedAreDone
  <2>7. JarUnderLock'
    <3>1. \A d \in Conn : thread'[d] = "setting" <=> thread[d] = "setting"
      BY <2>3, <2>4
    <3> QED BY <2>1, <2>2, <3>1 DEF Storage, JarUnderLock
  <2>8. ChangesAreMerged'
    BY <2>1, <2>2, <2>3, <2>4 DEF Storage, ChangesAreMerged, NoneBeforeStart, MayDiffer
  <2>9. NoneBeforeStart'
    BY <2>1, <2>2, <2>3, <2>4 DEF Storage, ChangesAreMerged, NoneBeforeStart, MayDiffer
  <2> QED BY <2>1, <2>5, <2>6, <2>7, <2>8, <2>9 DEF Storage
<1>4. ASSUME NEW c \in Conn,
             \/ StartThread(c) \/ StreamFails(c)
             \/ ProcessorStops(c)
             \/ \E k \in Cookies, v \in Values \cup {Absent} : ChangeCookie(c, k, v)
      PROVE  Storage'
  <2>1. /\ UNCHANGED <<template, lock, jar, disk, newest, unsaved>>
        /\ \E p \in {"shaking", "serving", "closing"} :
             /\ thread[c] \in {"starting", p} /\ thread[c] # "closing"
             /\ thread' = [thread EXCEPT ![c] = p]
        /\ \A d \in Conn : d # c => own'[d] = own[d] /\ base'[d] = base[d]
    <3>1. CASE StartThread(c)
      BY <3>1 DEF StartThread, TypeOK
    <3>2. CASE ProcessorStops(c)
      <4>1. thread' = [thread EXCEPT ![c] = thread[c]]
        BY <3>2 DEF ProcessorStops, TypeOK
      <4> QED BY <3>2, <4>1 DEF ProcessorStops
    <3>3. ASSUME NEW k \in Cookies, NEW v \in Values \cup {Absent}, ChangeCookie(c, k, v)
          PROVE  /\ UNCHANGED <<template, lock, jar, disk, newest, unsaved>>
                 /\ thread[c] = "serving" /\ thread' = [thread EXCEPT ![c] = "serving"]
                 /\ \A d \in Conn : d # c => own'[d] = own[d] /\ base'[d] = base[d]
      BY <3>3 DEF ChangeCookie, TypeOK
    <3>4. CASE StreamFails(c)
      BY <3>4 DEF StreamFails, TypeOK
    <3> QED BY <1>4, <3>1, <3>2, <3>3, <3>4
  <2>2. NewestContent' = NewestContent
    BY <2>1, NewestStays DEF Storage
  <2>3. \A d \in Conn : d # c => Delta(d)' = Delta(d) /\ Deleted(d)' = Deleted(d)
    BY <2>1 DEF Delta, Deleted
  <2>4. PICK p \in {"shaking", "serving", "closing"} :
          /\ thread[c] \in {"starting", p} /\ thread[c] # "closing"
          /\ \A d \in Conn : thread'[d] = IF d = c THEN p ELSE thread[d]
    BY <2>1 DEF TypeOK
  <2>5. LockHeld'
    BY <2>1, <2>4 DEF Storage, LockHeld
  <2>6. MergedAreDone'
    <3>1. \A k \in Cookies : newest[k] \in Conn \cup {NoConn}
      BY DEF TypeOK
    <3> QED BY <2>1, <2>4, <3>1 DEF Storage, MergedAreDone
  <2>7. JarUnderLock'
    <3>1. \A d \in Conn : thread'[d] = "setting" <=> d # c /\ thread[d] = "setting"
      BY <2>4
    <3> QED BY <2>1, <2>2, <2>3, <3>1 DEF Storage, JarUnderLock
  <2>8. ChangesAreMerged'
    BY <2>1, <2>3, <2>4 DEF Storage, ChangesAreMerged, MayDiffer
  <2>9. NoneBeforeStart'
    BY <2>1, <2>3, <2>4 DEF Storage, NoneBeforeStart
  <2> QED BY <2>1, <2>5, <2>6, <2>7, <2>8, <2>9 DEF Storage
<1>5. ASSUME NEW c \in Conn, LockPersistence(c) PROVE Storage'
  <2>1. /\ UNCHANGED <<own, base, template, jar, disk, newest>>
        /\ lock = NoConn /\ lock' = c
        /\ thread[c] = "closing"
        /\ \A d \in Conn : thread'[d] = IF d = c THEN "deleting" ELSE thread[d]
    BY <1>5 DEF LockPersistence, TypeOK
  <2>2. /\ \A d \in Conn : Delta(d)' = Delta(d) /\ Deleted(d)' = Deleted(d)
        /\ NewestContent' = NewestContent
    BY <2>1 DEF Delta, Deleted, NewestContent
  <2>3. LockHeld'
    BY <2>1 DEF Storage, LockHeld
  <2>4. MergedAreDone'
    <3>1. \A k \in Cookies : newest[k] \in Conn \cup {NoConn}
      BY DEF TypeOK
    <3> QED BY <2>1, <3>1 DEF Storage, MergedAreDone
  <2>5. JarUnderLock'
    BY <2>1, <2>2 DEF Storage, JarUnderLock
  <2>6. ChangesAreMerged' /\ NoneBeforeStart'
    BY <2>1, <2>2 DEF Storage, ChangesAreMerged, NoneBeforeStart, MayDiffer
  <2> QED BY <2>1, <2>3, <2>4, <2>5, <2>6 DEF Storage
<1>6. ASSUME NEW c \in Conn, MergeDeletes(c) PROVE Storage'
  <2>1. /\ UNCHANGED <<own, base, template, lock, disk, newest>>
        /\ thread[c] = "deleting" /\ lock = c
        /\ \A d \in Conn : thread'[d] = IF d = c THEN "setting" ELSE thread[d]
        /\ jar' = [k \in Cookies |-> IF k \in Deleted(c) THEN Absent ELSE jar[k]]
    BY <1>6 DEF MergeDeletes, TypeOK, Storage, LockHeld
  <2>2. /\ \A d \in Conn : Delta(d)' = Delta(d) /\ Deleted(d)' = Deleted(d)
        /\ NewestContent' = NewestContent
    BY <2>1 DEF Delta, Deleted, NewestContent
  <2>3. \A d \in Conn : thread[d] # "setting"
    BY <2>1 DEF Storage, LockHeld
  <2>4. jar = NewestContent
    BY <2>3 DEF Storage, JarUnderLock
  <2>5. LockHeld'
    BY <2>1 DEF Storage, LockHeld
  <2>6. MergedAreDone'
    <3>1. \A k \in Cookies : newest[k] \in Conn \cup {NoConn}
      BY DEF TypeOK
    <3> QED BY <2>1, <3>1 DEF Storage, MergedAreDone
  <2>7. JarUnderLock'
    <3>1. \A d \in Conn : thread'[d] = "setting" <=> d = c
      BY <2>1, <2>3
    <3>2. jar' = [k \in Cookies |-> IF k \in Deleted(c) THEN Absent ELSE NewestContent[k]]
      BY <2>1, <2>4
    <3> QED BY <2>2, <3>1, <3>2 DEF JarUnderLock
  <2>8. ChangesAreMerged' /\ NoneBeforeStart'
    BY <2>1, <2>2 DEF Storage, ChangesAreMerged, NoneBeforeStart, MayDiffer
  <2> QED BY <2>1, <2>5, <2>6, <2>7, <2>8 DEF Storage
<1>7. ASSUME NEW c \in Conn, MergeSets(c) PROVE Storage'
  <2>1. /\ UNCHANGED <<own, base, template, lock, disk>>
        /\ thread[c] = "setting" /\ lock = c
        /\ \A d \in Conn : thread'[d] = IF d = c THEN "writing" ELSE thread[d]
        /\ jar' = [k \in Cookies |-> IF k \in Changed(c) THEN own[c][k] ELSE jar[k]]
        /\ newest' = [k \in Cookies |-> IF k \in Delta(c) THEN c ELSE newest[k]]
    BY <1>7 DEF MergeSets, TypeOK, Storage, LockHeld
  <2>2. \A d \in Conn : Delta(d)' = Delta(d) /\ Deleted(d)' = Deleted(d)
    BY <2>1 DEF Delta, Deleted
  <2>3. jar = [k \in Cookies |-> IF k \in Deleted(c) THEN Absent ELSE NewestContent[k]]
    BY <2>1 DEF Storage, JarUnderLock
  <2>4. jar' = NewestContent'
    <3>1. NewestContent' = [k \in Cookies |->
             IF newest'[k] = NoConn THEN template[k] ELSE own[newest'[k]][k]]
      BY <2>1 DEF NewestContent
    <3>2. ASSUME NEW k \in Cookies PROVE jar'[k] = NewestContent'[k]
      <4>1. CASE k \in Changed(c)
        BY <4>1, <3>1, <2>1 DEF Changed
      <4>2. CASE k \in Deleted(c)
        BY <4>2, <3>1, <2>1, <2>3 DEF Deleted, Changed
      <4>3. CASE k \notin Delta(c)
        BY <4>3, <3>1, <2>1, <2>3 DEF Deleted, Changed, NewestContent
      <4> QED BY <4>1, <4>2, <4>3 DEF Deleted, Changed, Delta
    <3> QED BY <3>1, <3>2, <2>1
  <2>5. LockHeld'
    BY <2>1 DEF Storage, LockHeld
  <2>6. MergedAreDone'
    <3>1. \A k \in Cookies : newest[k] \in Conn \cup {NoConn}
      BY DEF TypeOK
    <3> QED BY <2>1, <3>1 DEF Storage, MergedAreDone
  <2>7. JarUnderLock'
    <3>1. \A d \in Conn : thread'[d] # "setting"
      BY <2>1 DEF Storage, LockHeld
    <3> QED BY <2>4, <3>1 DEF JarUnderLock
  <2>8. ChangesAreMerged'
    BY <2>1, <2>2 DEF Storage, ChangesAreMerged, MayDiffer, Delta
  <2>9. NoneBeforeStart'
    BY <2>1, <2>2 DEF Storage, NoneBeforeStart
  <2> QED BY <2>1, <2>5, <2>6, <2>7, <2>8, <2>9 DEF Storage
<1>8. ASSUME NEW c \in Conn, SaveCookies(c) PROVE Storage'
  <2>1. /\ UNCHANGED <<own, base, template, jar, newest>>
        /\ thread[c] = "writing" /\ lock = c /\ lock' = NoConn
        /\ ~unsaved' => disk' = jar
        /\ \A d \in Conn : thread'[d] = IF d = c THEN "saved" ELSE thread[d]
    BY <1>8 DEF SaveCookies, SavesFile, SaveFails, TypeOK, Storage, LockHeld
  <2>2. /\ \A d \in Conn : Delta(d)' = Delta(d) /\ Deleted(d)' = Deleted(d)
        /\ NewestContent' = NewestContent
    BY <2>1 DEF Delta, Deleted, NewestContent
  <2>3. LockHeld'
    BY <2>1 DEF Storage, LockHeld
  <2>4. MergedAreDone'
    <3>1. \A k \in Cookies : newest[k] \in Conn \cup {NoConn}
      BY DEF TypeOK
    <3> QED BY <2>1, <3>1 DEF Storage, MergedAreDone
  <2>5. JarUnderLock'
    BY <2>1, <2>2 DEF Storage, JarUnderLock
  <2>6. ChangesAreMerged' /\ NoneBeforeStart'
    BY <2>1, <2>2 DEF Storage, ChangesAreMerged, NoneBeforeStart, MayDiffer
  <2> QED BY <2>1, <2>3, <2>4, <2>5, <2>6 DEF Storage
<1>9. ASSUME NEW c \in Conn, Threads(c) \/ ShakeHands(c) PROVE Storage'
  BY <1>9, <1>3, <1>4, <1>5, <1>6, <1>7, <1>8 DEF Threads
<1>10. \/ UNCHANGED stored
       \/ SaveAndExit
       \/ \E c \in Conn : RunConnection(c) \/ Threads(c) \/ ShakeHands(c)
            \/ \E k \in Cookies, v \in Values \cup {Absent} : ChangeCookie(c, k, v)
  BY OtherSteps, Zenon
<1> QED BY <1>1, <1>2, <1>3, <1>4, <1>9, <1>10, Zenon

LEMMA Storing == Spec => []Storage
<1>1. Init => Storage
  BY ServerAssumption DEF Init, Storage, LockHeld, MergedAreDone, JarUnderLock,
     ChangesAreMerged, NoneBeforeStart, MayDiffer, Delta, NewestContent, Jars
<1> QED BY <1>1, StorageStep, Typing, Handing, PTL DEF Spec

\* Every state has the parts of the invariant the runs check.
THEOREM Invariance == Spec => []ServerInv
<1>1. TypeOK /\ HandedOnce /\ Storage => ServerInv
  BY DEF ServerInv, Storage
<1> QED BY <1>1, Typing, Handing, Storing, PTL

\* Whenever the persistence lock is free, jar and file hold the newest merged
\* content of every cookie, in whichever order connections end.
THEOREM NewestIsStored == Spec => []StoredIsNewest
<1>1. Storage => StoredIsNewest
  BY ServerAssumption DEF Storage, StoredIsNewest, LockHeld, JarUnderLock
<1> QED BY <1>1, Storing, PTL

\* A drain that found no slot taken has every change of every connection on disk.
THEOREM DrainKeepsCookies == Spec => DrainWaitsForSaves
<1>1. TypeOK /\ SlotsCountThreads /\ Storage
        => (live = 0 => /\ jar = NewestContent /\ (~unsaved => disk = jar)
                        /\ \A c \in Conn : \A k \in Delta(c) : newest[k] # NoConn)
  <2> SUFFICES ASSUME TypeOK, SlotsCountThreads, Storage, live = 0
               PROVE  /\ jar = NewestContent /\ (~unsaved => disk = jar)
                      /\ \A c \in Conn : \A k \in Delta(c) : newest[k] # NoConn
    OBVIOUS
  <2>1. Holders = {}
    BY HoldersFinite, FS_EmptySet DEF SlotsCountThreads
  <2>2. \A c \in Conn : thread[c] \in {"none", "ended"}
    BY <2>1 DEF Holders, TypeOK
  <2>3. lock = NoConn
    BY <2>2 DEF Storage, LockHeld, TypeOK
  <2>4. jar = NewestContent /\ (~unsaved => disk = jar)
    BY <2>2, <2>3 DEF Storage, JarUnderLock
  <2>5. \A c \in Conn : \A k \in Delta(c) : newest[k] # NoConn
    BY <2>2 DEF Storage, ChangesAreMerged, MayDiffer
  <2> QED BY <2>4, <2>5
<1>2. (live = 0 => /\ jar = NewestContent /\ (~unsaved => disk = jar)
                   /\ \A c \in Conn : \A k \in Delta(c) : newest[k] # NoConn)
        => [main = "draining" /\ main' = "saving" /\ live = 0
              => /\ jar = NewestContent /\ (~unsaved => disk = jar)
                 /\ \A c \in Conn : \A k \in Delta(c) : newest[k] # NoConn]_vars
  OBVIOUS
<1> QED BY <1>1, <1>2, Typing, SlotsAreExact, Storing, PTL DEF DrainWaitsForSaves
=============================================================================
