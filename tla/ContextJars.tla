---------------------------- MODULE ContextJars ----------------------------
(***************************************************************************)
(* The durable state of ONE browser context, kept by DomjetCdpServer of    *)
(* packages/browser/src/cdp-server.mts.  Every page of the context has a   *)
(* Worker of its own, and every Worker has two cookie jars: that of its    *)
(* CDP core, which profiles are exported from and restored into, and that  *)
(* of its document, which Set-Cookie and document.cookie write.  There is  *)
(* no jar of the context: the server copies state from page to page when   *)
(* pages are created, restarted and closed and when a profile is saved.    *)
(*                                                                         *)
(* A call is a sequence of steps, one for each Worker it waits for, and    *)
(* other calls run between them.  Starting a Worker, together with copying *)
(* the context's state into a restarted one, is part of the step that      *)
(* needs it.  A cookie is its name: it is in a jar or it is not.           *)
(***************************************************************************)
EXTENDS Integers, Sequences, FiniteSets

CONSTANTS
  Pages,          \* page targets; a closed page may stand for a later one
  Callers,        \* clients of the server: SDK objects, CDP connections
  Cookies,        \* cookies set over CDP and by the SDK
  PageCookies,    \* cookies that pages receive or set themselves
  NoPage,
  NoJar,          \* no snapshot
  CallsAtOnce,    \* how many calls are under way at once
  WorkersEnd,     \* page Workers end (a deadline, the memory cap): "never", "noticed"
                  \* by the next call, which is one to that page, or "unnoticed"
  PagelessCalls   \* whether cookies are set and cleared while no page is open

ASSUME JarsAssumption ==
  /\ NoPage \notin Pages
  /\ IsFiniteSet(Callers)
  /\ \A jar \in SUBSET (Cookies \cup PageCookies) : jar # NoJar
  /\ CallsAtOnce \in Nat \ {0}
  /\ WorkersEnd \in {"never", "noticed", "unnoticed"}
  /\ PagelessCalls \in BOOLEAN

Jars == SUBSET (Cookies \cup PageCookies)

VARIABLES
  targets,   \* this.targets: the open pages of the context, oldest first
  worker,    \* each page's Worker: "none", "up" or "ended"
  core,      \* the jar of its CDP core
  document,  \* the jar of its document
  kept,      \* contextSnapshots: the state of the last page that closed
  task,      \* the call of each caller
  saved,     \* the last profile exported for saving
  jar,       \* history: the cookies set by callers since the last clear
  lost       \* history: whether the context has lost track of them, in one of
             \* three ways: a cookie set, or a clear, while no page was open, or
             \* the end of the only running Worker, left the pages that follow
             \* with other cookies; a clear of open pages starts afresh

vars == <<targets, worker, core, document, kept, task, saved, jar, lost>>

workerVars == <<worker, core, document>>
history == <<jar, lost>>

Content(copy) == IF copy = NoJar THEN {} ELSE copy

Open == {targets[i] : i \in 1 .. Len(targets)}
Without(p) ==
  LET place == CHOOSE i \in DOMAIN targets : targets[i] = p
  IN  IF p \in Open
      THEN [i \in 1 .. Len(targets) - 1 |-> targets[IF i < place THEN i ELSE i + 1]]
      ELSE targets
Newest(I) == targets[CHOOSE i \in I : \A j \in I : j <= i]
Oldest(I) == targets[CHOOSE i \in I : \A j \in I : i <= j]

NoTask == [step |-> "idle", page |-> NoPage, rest |-> <<>>, copy |-> NoJar]
Busy == {c \in Callers : task[c] # NoTask}
Idle == Busy = {}

\* A page id that is not in use.
Fresh(p) ==
  /\ p \notin Open
  /\ \A c \in Callers : task[c].page # p /\ \A i \in 1 .. Len(task[c].rest) : task[c].rest[i] # p

-----------------------------------------------------------------------------
(* Workers.                                                                *)

\* The places of the other pages with a running Worker.
RunningBut(p) == {i \in DOMAIN targets : targets[i] # p /\ worker[targets[i]] = "up"}

\* Faulty: a restarted page is given what was kept.
JarOfKept(p) ==
  CASE worker[p] = "up" -> core[p]
    [] worker[p] = "ended" -> Content(kept)
    [] OTHER -> {}

\* The CDP jar of a page once start() has returned.  A restarted page takes
\* over the state of the newest page that runs, or else what was kept when the
\* last page closed; a page that is started for the first time has none.
JarOf(p) ==
  CASE worker[p] = "up" -> core[p]
    [] worker[p] = "ended" /\ RunningBut(p) # {} -> core[Newest(RunningBut(p))]
    [] worker[p] = "ended" /\ RunningBut(p) = {} -> Content(kept)
    [] OTHER -> {}

\* start() followed by something that leaves these cookies in the CDP jar.
StartWith(p, cookies) ==
  /\ worker' = [worker EXCEPT ![p] = "up"]
  /\ core' = [core EXCEPT ![p] = cookies]
  /\ document' = [document EXCEPT ![p] = IF worker[p] = "up" THEN @ ELSE {}]

\* The Worker of a page stops, and its jars with it.
StopWorker(p, how) ==
  /\ worker' = [worker EXCEPT ![p] = how]
  /\ core' = [core EXCEPT ![p] = {}]
  /\ document' = [document EXCEPT ![p] = {}]

\* The opening of the context: the default context's first page is not started,
\* a new context has none, and a stored profile is restored into a page.
Init ==
  /\ \/ targets = <<>> /\ jar = {}
     \/ \E p \in Pages : targets = <<p>> /\ jar \in SUBSET Cookies
  /\ worker = [p \in Pages |-> IF p \in Open /\ jar # {} THEN "up" ELSE "none"]
  /\ core = [p \in Pages |-> IF p \in Open THEN jar ELSE {}]
  /\ document = [p \in Pages |-> {}]
  /\ kept = NoJar
  /\ task = [c \in Callers |-> NoTask]
  /\ saved = NoJar
  /\ lost = FALSE

\* Another call may begin, or a Worker end.
Turn ==
  /\ Cardinality(Busy) < CallsAtOnce
  /\ WorkersEnd = "noticed" => \A p \in Open : worker[p] # "ended"

Begin(c, step, page, rest, copy) ==
  /\ task[c] = NoTask
  /\ Turn
  /\ task' = [task EXCEPT ![c] = [step |-> step, page |-> page, rest |-> rest, copy |-> copy]]

End(c) == task' = [task EXCEPT ![c] = NoTask]

\* The page is ready; a page created with a URL is then navigated to it.
Ready(c) ==
  \/ End(c)
  \/ task' = [task EXCEPT ![c] = [NoTask EXCEPT !.step = "load", !.page = task[c].page]]

At(c, step) == task[c].step = step

-----------------------------------------------------------------------------
(* Creating a page: createTarget and #prepareTarget.                       *)

\* The page is in the map before it is started and given its state, which will
\* be that of the page which is the newest now.
CallCreate(c, p) ==
  /\ Fresh(p)
  /\ Begin(c, "start", p, IF targets = <<>> THEN <<>> ELSE <<targets[Len(targets)]>>, NoJar)
  /\ targets' = Append(targets, p)
  /\ UNCHANGED <<workerVars, kept, saved, history>>

\* Faulty: a page that was closed meanwhile keeps its Worker.
StartClosed(c) ==
  /\ At(c, "start")
  /\ StartWith(task[c].page, JarOf(task[c].page))
  /\ End(c)
  /\ UNCHANGED <<targets, kept, saved, history>>

\* Its Worker runs.  Without an older page, it is given what was kept.
StartCreated(c) ==
  LET t == task[c] IN
  /\ At(c, "start")
  /\ t.page \in Open
  /\ StartWith(t.page, JarOf(t.page))
  /\ \/ /\ t.rest # <<>>
        /\ worker[t.rest[1]] # "none"
        /\ task' = [task EXCEPT ![c].step = "export"]
     \/ /\ t.rest = <<>>
        /\ kept # NoJar
        /\ task' = [task EXCEPT ![c].step = "seed", ![c].copy = kept]
     \/ /\ IF t.rest # <<>> THEN worker[t.rest[1]] = "none" ELSE kept = NoJar
        /\ Ready(c)
  /\ UNCHANGED <<targets, kept, saved, history>>

\* Its Worker cannot be started, its first URL cannot be loaded, or the page was
\* closed meanwhile.
CreateFails(c) ==
  LET p == task[c].page IN
  /\ At(c, "start") \/ At(c, "load")
  /\ targets' = Without(p)
  /\ StopWorker(p, "none")
  /\ End(c)
  /\ UNCHANGED <<kept, saved, history>>

ExportSource(c) ==
  LET source == task[c].rest[1] IN
  /\ At(c, "export")
  /\ source \in Open
  /\ StartWith(source, JarOf(source))
  /\ task' = [task EXCEPT ![c].step = "seed", ![c].copy = JarOf(source)]
  /\ UNCHANGED <<targets, kept, saved, history>>

\* The state is restored into the CDP core of the new page.
SeedCreated(c) ==
  /\ At(c, "seed")
  /\ task[c].page \in Open
  /\ StartWith(task[c].page, task[c].copy)
  /\ Ready(c)
  /\ UNCHANGED <<targets, kept, saved, history>>

\* A page is left as it is when copying state into it fails.
SeedingFails(c) ==
  /\ \/ At(c, "export") /\ task[c].rest[1] \notin Open
     \/ At(c, "seed") /\ task[c].page \notin Open
  /\ Ready(c)
  /\ UNCHANGED <<targets, workerVars, kept, saved, history>>

LoadFirst(c) ==
  LET p == task[c].page IN
  /\ At(c, "load")
  /\ p \in Open
  /\ StartWith(p, JarOf(p))
  /\ End(c)
  /\ UNCHANGED <<targets, kept, saved, history>>

-----------------------------------------------------------------------------
(* Closing a page: #closeTarget.                                           *)

\* Whether the page is the last one is settled before anything is awaited.
CallClose(c, p) ==
  /\ p \in Open
  /\ Begin(c, IF Open = {p} /\ worker[p] # "none" THEN "keep" ELSE "remove", p, <<>>, NoJar)
  /\ UNCHANGED <<targets, workerVars, kept, saved, history>>

\* Faulty: the first snapshot is kept for good.
KeepFirstSnapshot(c) ==
  LET p == task[c].page IN
  /\ At(c, "keep")
  /\ StartWith(p, JarOf(p))
  /\ kept' = IF kept = NoJar THEN JarOf(p) ELSE kept
  /\ task' = [task EXCEPT ![c].step = "remove"]
  /\ UNCHANGED <<targets, saved, history>>

\* Faulty: the page is forgotten and its Worker is not closed.
ForgetPage(c) ==
  /\ At(c, "remove")
  /\ targets' = Without(task[c].page)
  /\ End(c)
  /\ UNCHANGED <<workerVars, kept, saved, history>>

\* The state of the last page is kept for the context; a failure is ignored.
KeepSnapshot(c) ==
  LET p == task[c].page IN
  /\ At(c, "keep")
  /\ \/ /\ p \in Open
        /\ StartWith(p, JarOf(p))
        /\ kept' = JarOf(p)
     \/ p \notin Open /\ UNCHANGED <<workerVars, kept>>
  /\ task' = [task EXCEPT ![c].step = "remove"]
  /\ UNCHANGED <<targets, saved, history>>

RemovePage(c) ==
  LET p == task[c].page IN
  /\ At(c, "remove")
  /\ targets' = Without(p)
  /\ StopWorker(p, "none")
  /\ End(c)
  /\ UNCHANGED <<kept, saved, history>>
-----------------------------------------------------------------------------
(* Saving a profile: exportContextSnapshot.                                *)

\* With no page open, what was kept is the profile; if nothing was kept, an
\* empty page is created for it.
CallCheckpoint(c) ==
  /\ \/ /\ targets = <<>>
        /\ kept # NoJar
        /\ Begin(c, "save", NoPage, <<>>, kept)
        /\ UNCHANGED targets
     \/ /\ targets = <<>>
        /\ kept = NoJar
        /\ \E p \in Pages :
             /\ Fresh(p)
             /\ Begin(c, "checkpoint", p, <<>>, NoJar)
             /\ targets' = <<p>>
     \/ /\ targets # <<>>
        /\ Begin(c, "checkpoint", targets[Len(targets)], SubSeq(targets, 1, Len(targets) - 1), NoJar)
        /\ UNCHANGED targets
  /\ UNCHANGED <<workerVars, kept, saved, history>>

\* The newest page is authoritative.
ExportNewest(c) ==
  LET p == task[c].page IN
  /\ At(c, "checkpoint")
  /\ \/ /\ p \in Open
        /\ StartWith(p, JarOf(p))
        /\ task' = [task EXCEPT ![c].step = "save", ![c].copy = JarOf(p)]
     \/ p \notin Open /\ End(c) /\ UNCHANGED workerVars
  /\ UNCHANGED <<targets, kept, saved, history>>

\* The other pages that have a Worker are brought to the same state.
RestoreSibling(c) ==
  LET p == task[c].rest[1] IN
  /\ At(c, "save")
  /\ task[c].rest # <<>>
  /\ IF p \in Open /\ worker[p] # "none"
     THEN StartWith(p, task[c].copy)
     ELSE UNCHANGED workerVars
  /\ task' = [task EXCEPT ![c].rest = Tail(@)]
  /\ UNCHANGED <<targets, kept, saved, history>>

ReturnSnapshot(c) ==
  /\ At(c, "save")
  /\ task[c].rest = <<>>
  /\ saved' = task[c].copy
  /\ End(c)
  /\ UNCHANGED <<targets, workerVars, kept, history>>

-----------------------------------------------------------------------------
(* Cookies: Storage.setCookies, Storage.clearDataForOrigin and getCookies. *)

CallSetCookie(c, k) ==
  /\ PagelessCalls \/ targets # <<>>
  /\ Begin(c, "set", NoPage, targets, {k})
  /\ UNCHANGED <<targets, workerVars, kept, saved, history>>

\* A cookie set over CDP reaches both jars of every page that was open when the
\* call began.  A page that was closed meanwhile fails the call.
SetInPage(c) ==
  LET p == task[c].rest[1] IN
  /\ At(c, "set")
  /\ task[c].rest # <<>>
  /\ \/ /\ p \in Open
        /\ worker' = [worker EXCEPT ![p] = "up"]
        /\ core' = [core EXCEPT ![p] = JarOf(p) \cup task[c].copy]
        /\ document' = [document EXCEPT ![p] =
             (IF worker[p] = "up" THEN @ ELSE {}) \cup task[c].copy]
        /\ task' = [task EXCEPT ![c].rest = Tail(@)]
     \/ p \notin Open /\ End(c) /\ UNCHANGED workerVars
  /\ UNCHANGED <<targets, kept, saved, history>>

SetReturns(c) ==
  /\ At(c, "set")
  /\ task[c].rest = <<>>
  /\ jar' = jar \cup task[c].copy
  /\ lost' = (lost \/ (targets = <<>> /\ ~(task[c].copy \subseteq jar)))
  /\ End(c)
  /\ UNCHANGED <<targets, workerVars, kept, saved>>

CallClear(c) ==
  /\ PagelessCalls \/ targets # <<>>
  /\ Begin(c, "clear", NoPage, <<>>, NoJar)
  /\ UNCHANGED <<targets, workerVars, kept, saved, history>>

\* The pages a clear has not reached yet, those created meanwhile included.
Uncleared(c) == {i \in DOMAIN targets : \A k \in DOMAIN task[c].rest : task[c].rest[k] # targets[i]}

ClearPage(c) ==
  LET p == Oldest(Uncleared(c)) IN
  /\ At(c, "clear")
  /\ Uncleared(c) # {}
  /\ worker' = [worker EXCEPT ![p] = "up"]
  /\ core' = [core EXCEPT ![p] = {}]
  /\ document' = [document EXCEPT ![p] = {}]
  /\ task' = [task EXCEPT ![c].rest = Append(@, p)]
  /\ UNCHANGED <<targets, kept, saved, history>>

ClearReturns(c) ==
  /\ At(c, "clear")
  /\ Uncleared(c) = {}
  /\ jar' = {}
  /\ lost' = (targets = <<>> /\ (lost \/ Content(kept) # {}))
  /\ End(c)
  /\ UNCHANGED <<targets, workerVars, kept, saved>>

\* Faulty: what was kept is never out of date.
ReportedKept == IF kept # NoJar THEN kept ELSE UNION {core[p] \cup document[p] : p \in Open}

\* What Storage.getCookies answers: both jars of every running page, or what
\* was kept when no Worker runs.
Running == {p \in Open : worker[p] = "up"}

Reported ==
  IF Running = {} /\ kept # NoJar THEN kept
  ELSE UNION {core[p] \cup document[p] : p \in Running}

-----------------------------------------------------------------------------
(* What pages do.                                                          *)

\* Set-Cookie of a response, or document.cookie.
Receive(p, k) ==
  /\ p \in Running
  /\ document' = [document EXCEPT ![p] = @ \cup {k}]
  /\ UNCHANGED <<targets, worker, core, kept, task, saved, history>>

\* discardEndedWorker comes with the page's next call.
WorkerEnds(p) ==
  /\ WorkersEnd # "never"
  /\ p \in Running
  /\ Turn
  /\ StopWorker(p, "ended")
  /\ lost' = (lost \/ (RunningBut(p) = {} /\ Content(kept) # jar))
  /\ UNCHANGED <<targets, kept, task, saved, jar>>

\* A call that only uses the page.
UsePage(p) ==
  /\ p \in Open
  /\ worker[p] # "up"
  /\ Cardinality(Busy) < CallsAtOnce
  /\ StartWith(p, JarOf(p))
  /\ UNCHANGED <<targets, kept, task, saved, history>>

\* releaseEngineMemoryIfHigh, before a navigation: the page moves to a fresh
\* Worker with the state of its CDP core.
CallRecycle(c, p) ==
  /\ p \in Running
  /\ Begin(c, "recycle", p, <<>>, core[p])
  /\ UNCHANGED <<targets, workerVars, kept, saved, history>>

FreshWorker(c) ==
  LET p == task[c].page IN
  /\ At(c, "recycle")
  /\ \/ /\ p \in Open
        /\ worker' = [worker EXCEPT ![p] = "up"]
        /\ core' = [core EXCEPT ![p] = {}]
        /\ document' = [document EXCEPT ![p] = {}]
        /\ task' = [task EXCEPT ![c].step = "reseed"]
     \/ p \notin Open /\ End(c) /\ UNCHANGED workerVars
  /\ UNCHANGED <<targets, kept, saved, history>>

\* The state that was exported before goes into it; a failure is ignored.
SeedFresh(c) ==
  LET p == task[c].page IN
  /\ At(c, "reseed")
  /\ IF p \in Open THEN StartWith(p, task[c].copy) ELSE UNCHANGED workerVars
  /\ End(c)
  /\ UNCHANGED <<targets, kept, saved, history>>

-----------------------------------------------------------------------------

CallStep(c) ==
  \/ StartCreated(c) \/ CreateFails(c) \/ ExportSource(c) \/ SeedCreated(c) \/ SeedingFails(c)
  \/ LoadFirst(c)
  \/ KeepSnapshot(c) \/ RemovePage(c)
  \/ ExportNewest(c) \/ RestoreSibling(c) \/ ReturnSnapshot(c)
  \/ SetInPage(c) \/ SetReturns(c) \/ ClearPage(c) \/ ClearReturns(c)
  \/ FreshWorker(c) \/ SeedFresh(c)

Next ==
  \/ \E c \in Callers :
       \/ CallStep(c)
       \/ CallCheckpoint(c) \/ CallClear(c)
       \/ \E p \in Pages : CallCreate(c, p) \/ CallClose(c, p) \/ CallRecycle(c, p)
       \/ \E k \in Cookies : CallSetCookie(c, k)
  \/ \E p \in Pages :
       \/ WorkerEnds(p) \/ UsePage(p)
       \/ \E k \in PageCookies : Receive(p, k)

Spec == Init /\ [][Next]_vars

-----------------------------------------------------------------------------

Steps == {"idle", "start", "export", "seed", "load", "keep", "remove", "checkpoint", "save",
          "set", "clear", "recycle", "reseed"}

TypeOK ==
  /\ targets \in Seq(Pages)
  /\ worker \in [Pages -> {"none", "up", "ended"}]
  /\ core \in [Pages -> Jars]
  /\ document \in [Pages -> Jars]
  /\ kept \in {NoJar} \cup Jars
  /\ task \in [Callers -> [step : Steps, page : Pages \cup {NoPage}, rest : Seq(Pages),
                           copy : {NoJar} \cup Jars]]
  /\ saved \in {NoJar} \cup Jars
  /\ jar \in Jars
  /\ lost \in BOOLEAN

\* No page that was closed, or failed to open, has left a Worker.
JarsInv ==
  /\ TypeOK
  /\ \A p \in Pages \ Open : worker[p] = "none" /\ core[p] \cup document[p] = {}

\* The pages of a context act as if they had one jar: between calls all running
\* pages have the same cookies in their CDP cores, whatever pages were created,
\* closed, restarted and recycled and whatever profiles were saved.  These are
\* the cookies that callers have set (not those that pages receive, which no core
\* holds), and so is the copy that is kept while no Worker runs, unless the
\* context has lost track of them.
PagesAgree ==
  Idle =>
    /\ \A p, q \in Running : core[p] = core[q]
    /\ lost \/ \A p \in Running : core[p] = jar
    /\ lost \/ Running # {} \/ Content(kept) = jar

\* cookies() reports the cookies that callers have set and those that its pages
\* received themselves, no others, unless the context has lost track of them.
ReportsTheContext ==
  Idle /\ ~lost =>
    jar \subseteq Reported /\ Reported \subseteq jar \cup UNION {document[p] : p \in Running}

\* A saved profile is the state that all running pages are then in, and unless the
\* context has lost track of them it holds the cookies that callers have set, and
\* no others.  Those that pages received are not saved.
SavesTheContext ==
  [][saved' # saved =>
       /\ \A p \in Running : core[p] = saved'
       /\ lost \/ saved' = jar]_vars
=============================================================================
