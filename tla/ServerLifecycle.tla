-------------------------- MODULE ServerLifecycle --------------------------
(***************************************************************************)
(* The native CDP server of crates/obscura-cdp/src/server.rs: a thread     *)
(* that accepts sockets, the main loop that gives every WebSocket a thread *)
(* of its own, the signal thread that starts the shutdown, and the cookie  *)
(* jars.  A connection works on a copy of the jar the server started with; *)
(* when its thread ends, the cookies it changed are merged into the        *)
(* persistence jar and that jar is written to cookies.json.                *)
(*                                                                         *)
(* HTTP endpoints keep no state and are left out, and so are pages: what a *)
(* connection does is to change its cookies.  Merging deletes cookies and  *)
(* then sets others, each of them under the jar's own lock; writing the    *)
(* file holds that lock, and replaces the file in one step or fails.       *)
(***************************************************************************)
EXTENDS Integers, Sequences, FiniteSets

CONSTANTS
  Conn,            \* connections, each of them made once
  Cookies,         \* keys: domain, name and path
  Values,          \* contents of a cookie: value, flags and expiry
  Absent,          \* the cookie is not in the jar
  NoConn,
  MaxConnections,  \* --max-connections
  MaxHandoffs,     \* MAX_PENDING_WS_HANDOFFS
  MaxChanges       \* bound: how often a connection changes a cookie

ASSUME ServerAssumption ==
  /\ IsFiniteSet(Conn)
  /\ NoConn \notin Conn
  /\ Absent \notin Values
  /\ MaxConnections \in Nat /\ MaxHandoffs \in Nat /\ MaxChanges \in Nat

Jars == [Cookies -> Values \cup {Absent}]

VARIABLES
  flag,       \* shutdown_flag
  signal,     \* the signal thread: "waiting", "stored" (flag set) or "sent"
  acceptor,   \* the accept thread: "accepting", "peeking" or "ended"
  handoff,    \* ws_rx: sockets on their way to the main loop
  main,       \* "selecting", "spawning", "draining", "saving" or "exited"
  woken,      \* who has been notified: connections, and NoConn for the main loop
  live,       \* live_connections
  client,     \* each client: "none", "backlog", "peeked", "queued", "taken",
              \* "open", "closed" or "refused"
  thread,     \* each connection's thread
  processor,  \* its cdp_processor task: "none", "running" or "stopped"
  template,   \* shared_ctx: the jar the server started with
  base, own,  \* initial_cookies and the jar of each connection
  changes,    \* how many changes each connection has made
  lock,       \* persistence_lock: who holds it
  jar,        \* persistence_ctx
  disk,       \* cookies.json
  newest,     \* history: who made the last change of each cookie in jar
  unsaved     \* history: the last save failed, and the file lacks something since

vars == <<flag, signal, acceptor, handoff, main, woken, live, client, thread,
          processor, template, base, own, changes, lock, jar, disk, newest, unsaved>>

stopping == <<flag, signal>>
serving  == <<processor, template, base, own, changes>>
storing  == <<lock, jar, disk, newest, unsaved>>

Init ==
  /\ flag = FALSE /\ signal = "waiting"
  /\ acceptor = "accepting" /\ handoff = <<>>
  /\ main = "selecting" /\ woken = {} /\ live = 0
  /\ client = [c \in Conn |-> "none"]
  /\ thread = [c \in Conn |-> "none"]
  /\ processor = [c \in Conn |-> "none"]
  /\ template \in Jars
  /\ base = [c \in Conn |-> template] /\ own = base
  /\ changes = [c \in Conn |-> 0]
  /\ lock = NoConn /\ jar = template /\ disk = template
  /\ newest = [k \in Cookies |-> NoConn] /\ unsaved = FALSE

(* Clients. *)

Connect(c) ==
  /\ client[c] = "none"
  /\ client' = [client EXCEPT ![c] = IF acceptor = "ended" THEN "refused" ELSE "backlog"]
  /\ UNCHANGED <<stopping, acceptor, handoff, main, woken, live, thread, serving, storing>>

\* The socket ends: the client goes or sends Browser.close, or its handshake fails.
Disconnect(c) ==
  /\ client[c] = "open"
  /\ client' = [client EXCEPT ![c] = "closed"]
  /\ UNCHANGED <<stopping, acceptor, handoff, main, woken, live, thread, serving, storing>>

(* The accept thread looks at the flag only when a socket comes in.  When  *)
(* it ends, the sockets in the backlog go with the listener.               *)

Accept(c) ==
  /\ acceptor = "accepting" /\ client[c] = "backlog"
  /\ IF flag
     THEN /\ acceptor' = "ended"
          /\ client' = [d \in Conn |-> IF client[d] = "backlog" THEN "refused" ELSE client[d]]
     ELSE /\ acceptor' = "peeking"
          /\ client' = [client EXCEPT ![c] = "peeked"]
  /\ UNCHANGED <<stopping, handoff, main, woken, live, thread, serving, storing>>

\* accept_dispatch: peek blocks the thread until the client has sent something.
Dispatch(c) ==
  /\ client[c] = "peeked"
  /\ acceptor' = "accepting"
  /\ IF Len(handoff) < MaxHandoffs
     THEN /\ handoff' = Append(handoff, c)
          /\ client' = [client EXCEPT ![c] = "queued"]
     ELSE /\ client' = [client EXCEPT ![c] = "refused"]
          /\ UNCHANGED handoff
  /\ UNCHANGED <<stopping, main, woken, live, thread, serving, storing>>

(* The signal thread.  notify_waiters wakes the futures that exist: that   *)
(* of the main loop while it selects, those of the processors that have    *)
(* started.                                                                *)

StoreFlag ==
  /\ signal = "waiting"
  /\ signal' = "stored" /\ flag' = TRUE
  /\ UNCHANGED <<acceptor, handoff, main, woken, live, client, thread, serving, storing>>

NotifyWaiters ==
  /\ signal = "stored"
  /\ signal' = "sent"
  /\ woken' = {c \in Conn : processor[c] = "running"}
                \cup (IF main = "selecting" THEN {NoConn} ELSE {})
  /\ UNCHANGED <<flag, acceptor, handoff, main, live, client, thread, serving, storing>>

(* The main loop.  A socket and the notice may be ready at once; select    *)
(* picks either, and the future of an iteration ends with it.              *)

TakeSocket ==
  /\ main = "selecting" /\ handoff # <<>>
  /\ main' = "spawning" /\ woken' = woken \ {NoConn}
  /\ client' = [client EXCEPT ![Head(handoff)] = "taken"]
  /\ handoff' = Tail(handoff)
  /\ UNCHANGED <<stopping, acceptor, live, thread, serving, storing>>

RefuseConnection(c) ==
  /\ main = "spawning" /\ client[c] = "taken" /\ live >= MaxConnections
  /\ main' = "selecting"
  /\ client' = [client EXCEPT ![c] = "refused"]
  /\ UNCHANGED <<stopping, acceptor, handoff, woken, live, thread, serving, storing>>

\* run_connection: the slot is reserved first.
RunConnection(c) ==
  /\ main = "spawning" /\ client[c] = "taken" /\ live < MaxConnections
  /\ main' = "selecting"
  /\ live' = live + 1
  /\ client' = [client EXCEPT ![c] = "open"]
  /\ thread' = [thread EXCEPT ![c] = "starting"]
  /\ UNCHANGED <<stopping, acceptor, handoff, woken, serving, storing>>

\* Faulty: the slot stays reserved.
FaultySpawnFails(c) ==
  /\ main = "spawning" /\ client[c] = "taken" /\ live < MaxConnections
  /\ main' = "selecting" /\ live' = live + 1
  /\ client' = [client EXCEPT ![c] = "refused"]
  /\ UNCHANGED <<stopping, acceptor, handoff, woken, thread, serving, storing>>

\* The operating system has no thread to give: the slot is taken back.
SpawnFails(c) ==
  /\ main = "spawning" /\ client[c] = "taken" /\ live < MaxConnections
  /\ main' = "selecting"
  /\ client' = [client EXCEPT ![c] = "refused"]
  /\ UNCHANGED <<stopping, acceptor, handoff, woken, live, thread, serving, storing>>

StopAccepting ==
  /\ main = "selecting"
  /\ NoConn \in woken \/ (acceptor = "ended" /\ handoff = <<>>)
  /\ main' = "draining" /\ woken' = woken \ {NoConn}
  /\ UNCHANGED <<stopping, acceptor, handoff, live, client, thread, serving, storing>>

Drained ==
  /\ main = "draining" /\ live = 0
  /\ main' = "saving"
  /\ UNCHANGED <<stopping, acceptor, handoff, woken, live, client, thread, serving, storing>>

\* Faulty: the drain waits for the last slot, however long it takes.
FaultyDrainTimeout ==
  /\ main = "draining" /\ live > Cardinality(Conn)
  /\ main' = "saving"
  /\ UNCHANGED <<stopping, acceptor, handoff, woken, live, client, thread, serving, storing>>

\* SHUTDOWN_DRAIN_MS are over.
DrainTimeout ==
  /\ main = "draining" /\ live > 0
  /\ main' = "saving"
  /\ UNCHANGED <<stopping, acceptor, handoff, woken, live, client, thread, serving, storing>>

\* save_cookies: an error is logged, and nobody is told.
SavesFile == disk' = jar /\ unsaved' = FALSE
SaveFails == disk' = disk /\ unsaved' = (disk # jar)

\* The last save takes no persistence_lock; the process ends with all threads.
SaveAndExit ==
  /\ main = "saving"
  /\ main' = "exited"
  /\ SavesFile \/ SaveFails
  /\ UNCHANGED <<stopping, acceptor, handoff, woken, live, client, thread, serving,
                 lock, jar, newest>>

(* The thread of a connection. *)

Become(c, phase) == thread' = [thread EXCEPT ![c] = phase]

\* The jar is copied, the processor spawned, and handle_connection_ws shakes hands.
StartThread(c) ==
  /\ thread[c] = "starting"
  /\ Become(c, "shaking")
  /\ base' = [base EXCEPT ![c] = template] /\ own' = [own EXCEPT ![c] = template]
  /\ processor' = [processor EXCEPT ![c] = "running"]
  /\ UNCHANGED <<stopping, acceptor, handoff, main, woken, live, client, template,
                 changes, storing>>

\* The runtime cannot be built: an early return, before the merge.
StartFails(c) ==
  /\ thread[c] = "starting"
  /\ Become(c, "saved")
  /\ client' = [client EXCEPT ![c] = "refused"]
  /\ UNCHANGED <<stopping, acceptor, handoff, main, woken, live, serving, storing>>

\* TcpStream::from_std fails: there is no processor, but the merge is made.
StreamFails(c) ==
  /\ thread[c] = "starting"
  /\ Become(c, "closing")
  /\ client' = [client EXCEPT ![c] = "refused"]
  /\ base' = [base EXCEPT ![c] = template] /\ own' = [own EXCEPT ![c] = template]
  /\ UNCHANGED <<stopping, acceptor, handoff, main, woken, live, processor, template,
                 changes, storing>>

\* The handshake is made: NewConnection is sent to the processor, which takes what is
\* in its channel before anything else, and the reply awaited before the first frame
\* is read.  Of a processor that has stopped there is no reply, and no end of the wait.
ShakeHands(c) ==
  /\ thread[c] = "shaking"
  /\ Become(c, IF processor[c] = "running" THEN "serving" ELSE "ungreeted")
  /\ UNCHANGED <<stopping, acceptor, handoff, main, woken, live, client, serving, storing>>

\* A command or a response of a page changes a cookie of the connection.
ChangeCookie(c, k, v) ==
  /\ thread[c] = "serving" /\ processor[c] = "running"
  /\ changes[c] < MaxChanges /\ own[c][k] # v
  /\ own' = [own EXCEPT ![c][k] = v]
  /\ changes' = [changes EXCEPT ![c] = @ + 1]
  /\ UNCHANGED <<stopping, acceptor, handoff, main, woken, live, client, thread,
                 processor, template, base, storing>>

\* Its future of the notice goes with a processor.
StopProcessor(c) ==
  /\ processor' = [processor EXCEPT ![c] = "stopped"]
  /\ woken' = woken \ {c}

\* The loop of cdp_processor breaks.  Nothing tells the reader.
ProcessorStops(c) ==
  /\ thread[c] \in {"shaking", "serving"} /\ processor[c] = "running" /\ c \in woken
  /\ StopProcessor(c)
  /\ UNCHANGED <<stopping, acceptor, handoff, main, live, client, thread,
                 template, base, own, changes, storing>>

\* Faulty: a thread whose processor was stopped leaves without merging.
FaultyReaderEnds(c) ==
  /\ thread[c] \in {"shaking", "serving"} /\ client[c] = "closed"
  /\ Become(c, IF processor[c] = "stopped" THEN "saved" ELSE "closing")
  /\ StopProcessor(c)
  /\ UNCHANGED <<stopping, acceptor, handoff, main, live, client, template,
                 base, own, changes, storing>>

\* handle_connection_ws returns, and the processor is aborted.  While it awaits the
\* reply to NewConnection it does not see that the socket has ended.
ReaderEnds(c) ==
  /\ thread[c] \in {"shaking", "serving"} /\ client[c] = "closed"
  /\ Become(c, "closing")
  /\ StopProcessor(c)
  /\ UNCHANGED <<stopping, acceptor, handoff, main, live, client, template,
                 base, own, changes, storing>>

\* Faulty: the merge takes no lock, as the save at the exit does.
FaultyLockPersistence(c) ==
  /\ thread[c] = "closing"
  /\ Become(c, "deleting")
  /\ lock' = c
  /\ UNCHANGED <<stopping, acceptor, handoff, main, woken, live, client, serving,
                 jar, disk, newest, unsaved>>

LockPersistence(c) ==
  /\ thread[c] = "closing" /\ lock = NoConn
  /\ Become(c, "deleting")
  /\ lock' = c
  /\ UNCHANGED <<stopping, acceptor, handoff, main, woken, live, client, serving,
                 jar, disk, newest, unsaved>>

\* merge_cookie_delta: what the connection deleted, then what it changed.
Delta(c) == {k \in Cookies : own[c][k] # base[c][k]}
Deleted(c) == {k \in Delta(c) : own[c][k] = Absent}
Changed(c) == {k \in Delta(c) : own[c][k] # Absent}

MergeDeletes(c) ==
  /\ thread[c] = "deleting"
  /\ Become(c, "setting")
  /\ jar' = [k \in Cookies |-> IF k \in Deleted(c) THEN Absent ELSE jar[k]]
  /\ UNCHANGED <<stopping, acceptor, handoff, main, woken, live, client, serving,
                 lock, disk, newest, unsaved>>

\* Faulty: every cookie of the connection is set, changed or not.
FaultyMergeSets(c) ==
  /\ thread[c] = "setting"
  /\ Become(c, "writing")
  /\ jar' = [k \in Cookies |-> IF own[c][k] # Absent THEN own[c][k] ELSE jar[k]]
  /\ newest' = [k \in Cookies |-> IF k \in Delta(c) THEN c ELSE newest[k]]
  /\ UNCHANGED <<stopping, acceptor, handoff, main, woken, live, client, serving,
                 lock, disk, unsaved>>

MergeSets(c) ==
  /\ thread[c] = "setting"
  /\ Become(c, "writing")
  /\ jar' = [k \in Cookies |-> IF k \in Changed(c) THEN own[c][k] ELSE jar[k]]
  /\ newest' = [k \in Cookies |-> IF k \in Delta(c) THEN c ELSE newest[k]]
  /\ UNCHANGED <<stopping, acceptor, handoff, main, woken, live, client, serving,
                 lock, disk, unsaved>>

\* Faulty: the lock stays taken when the save is done.
FaultySaveCookies(c) ==
  /\ thread[c] = "writing"
  /\ Become(c, "saved")
  /\ SavesFile \/ SaveFails
  /\ UNCHANGED <<stopping, acceptor, handoff, main, woken, live, client, serving,
                 lock, jar, newest>>

SaveCookies(c) ==
  /\ thread[c] = "writing"
  /\ Become(c, "saved")
  /\ SavesFile \/ SaveFails
  /\ lock' = NoConn
  /\ UNCHANGED <<stopping, acceptor, handoff, main, woken, live, client, serving,
                 jar, newest>>

ReleaseSlot(c) ==
  /\ thread[c] = "saved"
  /\ Become(c, "ended")
  /\ live' = live - 1
  /\ UNCHANGED <<stopping, acceptor, handoff, main, woken, client, serving, storing>>

MainLoop ==
  \/ TakeSocket
  \/ \E c \in Conn : RefuseConnection(c) \/ RunConnection(c) \/ SpawnFails(c)
  \/ StopAccepting \/ Drained \/ DrainTimeout \/ SaveAndExit

Threads(c) ==
  \/ StartThread(c) \/ StartFails(c) \/ StreamFails(c)
  \/ ProcessorStops(c) \/ ReaderEnds(c)
  \/ LockPersistence(c) \/ MergeDeletes(c) \/ MergeSets(c)
  \/ SaveCookies(c) \/ ReleaseSlot(c)

Next ==
  /\ main # "exited"     \* the process has ended, and its threads with it
  /\ \/ MainLoop
     \/ StoreFlag \/ NotifyWaiters
     \/ \E c \in Conn :
          \/ Connect(c) \/ Disconnect(c) \/ Accept(c) \/ Dispatch(c) \/ ShakeHands(c)
          \/ \E k \in Cookies, v \in Values \cup {Absent} : ChangeCookie(c, k, v)
          \/ Threads(c)

\* The main loop and the threads run; clients, with whom a handshake is made, and
\* signals may never come.
Fairness ==
  /\ WF_vars(main # "exited" /\ MainLoop)
  /\ \A c \in Conn : WF_vars(main # "exited" /\ Threads(c))

Spec == Init /\ [][Next]_vars /\ Fairness

(* Properties. *)

\* A thread from the reservation of its slot to the drop of its SlotGuard.
Holding == {"starting", "shaking", "ungreeted", "serving", "closing", "deleting",
            "setting", "writing", "saved"}
Holders == {c \in Conn : thread[c] \in Holding}

TypeOK ==
  /\ flag \in BOOLEAN /\ signal \in {"waiting", "stored", "sent"}
  /\ acceptor \in {"accepting", "peeking", "ended"}
  /\ handoff \in Seq(Conn)
  /\ main \in {"selecting", "spawning", "draining", "saving", "exited"}
  /\ woken \subseteq Conn \cup {NoConn}
  /\ live \in Int
  /\ client \in [Conn -> {"none", "backlog", "peeked", "queued", "taken",
                          "open", "closed", "refused"}]
  /\ thread \in [Conn -> Holding \cup {"none", "ended"}]
  /\ processor \in [Conn -> {"none", "running", "stopped"}]
  /\ template \in Jars /\ base \in [Conn -> Jars] /\ own \in [Conn -> Jars]
  /\ changes \in [Conn -> 0 .. MaxChanges]
  /\ lock \in Conn \cup {NoConn}
  /\ jar \in Jars /\ disk \in Jars
  /\ newest \in [Cookies -> Conn \cup {NoConn}] /\ unsaved \in BOOLEAN

\* The counter that limits connections is the number of threads that have one,
\* whichever way a thread fails to start or ends (SlotGuard, the failed spawn).
SlotsCountThreads == live = Cardinality(Holders) /\ live <= MaxConnections

\* For each cookie the last change that was merged, or the cookie of the start.
NewestContent ==
  [k \in Cookies |-> IF newest[k] = NoConn THEN template[k] ELSE own[newest[k]][k]]

\* Whenever nobody holds persistence_lock, the jar and, unless the last save failed,
\* the file hold for each cookie the last change that was merged: connections that
\* started from the same old jar and end in any order do not undo each other's changes.
StoredIsNewest == lock = NoConn => jar = NewestContent /\ (~unsaved => disk = jar)

\* What the two rest on: a connection whose thread is done has its changes in the
\* jar, the lock belongs to the thread that merges, and nothing moves under it.
MayDiffer(c) ==
  thread[c] \in {"shaking", "ungreeted", "serving", "closing", "deleting", "setting"}
LockHeld == \A c \in Conn : thread[c] \in {"deleting", "setting", "writing"} <=> lock = c
MergedAreDone == \A k \in Cookies : newest[k] # NoConn =>
                   thread[newest[k]] \in {"writing", "saved", "ended"}
JarUnderLock ==
  /\ \A c \in Conn : thread[c] = "setting" =>
       jar = [k \in Cookies |-> IF k \in Deleted(c) THEN Absent ELSE NewestContent[k]]
  /\ (\A c \in Conn : thread[c] # "setting") => jar = NewestContent
ChangesAreMerged ==
  \A c \in Conn : ~MayDiffer(c) => \A k \in Delta(c) : newest[k] # NoConn
NoneBeforeStart == \A c \in Conn : thread[c] \in {"none", "starting"} => Delta(c) = {}

\* A socket is handed over once, and has no thread before.
HandedOnce ==
  /\ \A c \in Conn : thread[c] # "none" => client[c] \in {"open", "closed", "refused"}
  /\ \A i \in DOMAIN handoff : client[handoff[i]] = "queued"
  /\ \A i, j \in DOMAIN handoff : handoff[i] = handoff[j] => i = j

ServerInv ==
  /\ TypeOK /\ LockHeld /\ MergedAreDone /\ JarUnderLock
  /\ ChangesAreMerged /\ NoneBeforeStart /\ HandedOnce

\* A drain that has waited for the slots, not for the deadline, finds the changes
\* of all connections in the jar, and in the file unless the last save failed: a slot
\* is released after its merge and save.
DrainWaitsForSaves ==
  [][main = "draining" /\ main' = "saving" /\ live = 0
       => /\ jar = NewestContent /\ (~unsaved => disk = jar)
          /\ \A c \in Conn : \A k \in Delta(c) : newest[k] # NoConn]_vars

\* A client that has gone frees its slot: its thread gets the lock and ends.  It does
\* not if the notice of a shutdown stopped the processor during the handshake: then
\* the reader waits for NewConnection's reply as long as the process lives.
ClosedConnectionsEnd ==
  \A c \in Conn :
    client[c] = "closed" ~> (thread[c] = "ended" \/ thread[c] = "ungreeted" \/ main = "exited")

\* Once the server has stopped accepting, it exits, whatever its clients do.
DrainEnds == main = "draining" ~> main = "exited"

\* docs/Persist-cookies-and-storage.md:35 says state is written on a clean exit,
\* and server.rs:363-365 that the notice ends every connection whose processor is
\* not wedged.  Said of the exit: the changes of all connections whose processors
\* have stopped are in the jar that is saved.
CleanExitSavesCookies ==
  main = "exited" /\ (\A c \in Conn : processor[c] # "running")
    => \A c \in Conn : \A k \in Delta(c) : newest[k] # NoConn
=============================================================================
