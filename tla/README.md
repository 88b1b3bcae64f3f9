# Domjet in TLA+

This directory holds a formal model of parts of Domjet (the TypeScript SDK in
`packages/` over the Rust and WASM engine in `crates/`): TLA+ modules, the
configurations TLC checks them with, and proofs that TLAPS checks.

The model is about state that several actors share and that has to survive
failures: browser profiles in their stores, browser contexts that load and
save them, the copies of a context's state in its page Workers, the threads,
connections and jars of the native CDP server, the identities that the portable
CDP core hands out to clients and to its host, and the document tree that
scripts rearrange. Line numbers refer to the sources; `PROJECT.json` maps every
definition to the lines it translates.

## The system

A program embeds a browser (`createBrowser`, `packages/browser/src/index.mts`).
The browser has contexts, a context may have a profile in a store, and its
pages are targets of a CDP server in the same process. Every page runs in a
Worker thread of its own with its own WASM instance and V8; the server talks to
it by messages. CDP clients (Playwright, Puppeteer) reach the same server over
WebSocket.

| Component | State | Operations | Talks to |
| --- | --- | --- | --- |
| Local store, `storage/src/index.mts` 149-340 | one file and one lock file per profile, a chain of promises per process | `load`, `save`, `remove` with `expectedVersion` | file system, other processes |
| S3 store, same file 596-752 | one object per profile, in a bucket | the same, by signed requests with retries and a timeout | bucket |
| Context, `browser/src/index.mts` 308-488 | lease, version and digest last seen, backup timer, backup under way, closed | constructor, `initialize`, `markDirty`, `backup`, `close` | store, CDP server |
| Browser VM, same file 490-654 | contexts, shared default browser | `newContext`, `close`, `createBrowser` | contexts, CDP server |
| Context state, `browser/src/cdp-server.mts` | `targets`, `contextSnapshots`, two cookie jars in each page's Worker | create and close a page, export and restore a context, set, clear and get cookies, restart and recycle a Worker | page Workers |
| Page Workers, same file 514-640, 1401-1450, 1754-1780 | `worker`, `startPromise`, `closed` per page, spare Workers, `closing` | start, discard, recycle, close, refill spares, server close | Worker client |
| CDP sessions, same file 1127-1277 | connections, sessions, a queue per session | attach, detach, dispatch in order | clients, pages |
| Worker client, `runtime/src/client.mts` | pending requests, closing, closed | request, timeout, abort, close, terminate | Worker thread |
| Page Worker, `runtime/src/worker.mts` | documents, tasks, jars | bridge between WASM, V8 and fetch | engine |
| Profile process, `browser/src/profile-process*.mts` | child process, its resource limits | launch, stop | operating system |
| Native CDP server, `crates/obscura-cdp/src/server.rs` 161-590 | live connections, hand-over queue, shutdown flag, a jar per connection, the persistence jar and its lock | accept, hand over, refuse, start and end connection threads, merge and save cookies, shut down | clients, signals, disk |
| CDP connection, same file 470-500, 683-1592 | socket and its reader, message channel, deferred messages, `intercepted_paused`, the `CdpContext` with its pages and their V8 isolates | read and answer at once or pass on, take a message, carry a command out, navigate while listening, announce and resolve intercepted requests, abort | client, pages' scripts |
| Portable CDP core, `crates/obscura-cdp/src/state.rs`, `portable_*.rs`, adapter `crates/obscura-wasm/src/cdp.rs` | contexts, pages, sessions, host actions, paused requests, a mirror of each document | attach, detach, create, close, dispose, start and complete actions, intercept and resolve requests | clients, the host's queues |
| Document tree, `crates/obscura-dom/src/tree.rs`, driven by `crates/obscura-js/src/ops.rs` | an arena of linked nodes, connected bits, shadow roots, an id index, edited style sheets | append, insert, remove, attach shadow roots, ids, walks and look-ups | scripts |
| Engine: style, layout, painting, JavaScript, network | page data | sequential computation inside one thread | - |

What is hard about it:

- two processes, or two calls of one process, write one profile; a process dies
  or the host loses power in the middle of it; a lock file outlives its holder;
- a checkpoint runs while the context is used, closed, or closed twice, and the
  version a context has seen is out of date when it saves;
- one context's cookies are in as many jars as it has pages (twice as many, in
  fact), and pages come, go, restart and are recycled while cookies are set and
  profiles saved;
- Workers end at any time: a deadline or the memory cap ends them, and the
  server notices at the page's next use;
- the native server gives every connection a thread and a copy of the cookies,
  merges what they changed when they end, in any order, and is shut down at any
  moment of this;
- a connection's processor must carry commands out in order although navigations
  take long, script requests wait for the client, and V8 allows one entered
  isolate per thread;
- the portable core's host works concurrently: what it was asked to do may be
  overtaken by newer navigations, detached sessions and closed pages;
- the tree's links, its connected bits and its indices are five copies of one
  structure, updated by hand on every move.

What makes the components correct:

- the stores: a profile is never half-written, an acknowledged save is durable,
  and calls with `expectedVersion` act as one conditional register;
- the contexts: one context at a time has a profile open, nothing stored is
  overwritten unseen, a close saves what it found, and every close ends;
- the context's state: its pages act as if there were one jar, `cookies()`
  reports it, and profiles are saved with it;
- the Workers: a page that is closed leaves none behind;
- the native server: its limit counts threads exactly, no connection undoes
  another one's cookies, and it ends;
- a connection: no isolate beside a live one, commands answered once and in
  order, waiting requests released by the client;
- the portable core: nothing outlives the session, page or connection it belongs
  to, no request is forgotten, every end is reported, and no answer brings back a
  document that was replaced after it was asked for;
- the tree: it is the tree of lists that the DOM standard describes.

## The modules

| Module | Models | Uses |
| --- | --- | --- |
| `CasRegister` | what a `ProfileStore` promises: the profile under one key is a register, each call one conditional write that takes effect at most once, and a failed call has changed nothing | - |
| `LocalStore` | `save` and `remove` of `local()`, from any number of processes | `CasRegister` (refinement) |
| `ProfileContext` | the openings of one profile in one process, over a store that other processes write as well | the register, as one atomic conditional save |
| `ContextJars` | the cookies of one context in the jars of its pages | - |
| `ServerLifecycle` | accept thread, main loop, signal thread, connection threads and cookie jars of the native CDP server | - |
| `CommandQueue` | what a client may count on: commands carried out once and in order, except for those that may overtake, be refused or be forgotten | - |
| `CdpConnection` | one connection of that server, its reader, its processor and its pages' scripts | `CommandQueue` (refinement) |
| `DomPromise` | the tree as lists of children, and which nodes are connected | - |
| `DomTree` | the tree as the code keeps it: links, bits, shadow roots, index, edited rules | `DomPromise` (refinement) |
| `PortableCdp` | the portable CDP core and its adapter, with clients and a concurrent host | - |
| `LocalStoreProofs`, `ProfileContextProofs`, `ServerLifecycleProofs`, `DomTreeProofs`, `PortableCdpProofs`, `CdpConnectionProofs`, `ContextJarsProofs` | theorems | the module they are named for |
| `NatSets` | induction over numbers, said of sets of them, for the proofs | - |
| `MCLocalStore`, `MCProfileContext`, `MCContextJars`, `MCServerLifecycle`, `MCCdpConnection`, `MCDomTree`, `MCPortableCdp` | small instances for TLC | the module they are named for |

The modules meet at these places. `ProfileContext` saves by one atomic step
(`SaveApplied` or `SaveRefused`); `LocalStore` implements the register that
justifies it (`ImplementsRegister`). `ProfileContext` exports the state of a
context in one step and lets Workers lose part of it (`WorkersEnd`);
`ContextJars` looks inside this step and shows when the export has the cookies
that callers set (`SavesTheContext`) and when it has not. `ServerLifecycle`
treats what happens inside a connection as "a cookie changes" and "the reader
ends"; `CdpConnection` looks inside, and its `End` is the processor's side of
`ReaderEnds`. `PortableCdp` is the same protocol for the WASM engine,
whose host is `cdp-server.mts` of `ContextJars`.

Operators that begin with `Faulty:` in their comment stand beside the operator
they would replace: a plausible mistake in that code. They are used by nothing
but the mutation check (`PROJECT.json`, "mutants"), which shows that each
property notices one.

### LocalStore

A call moves through `pc`: it queues in its process (`Invoke`, `HasTurn`,
`Leave` for `withProcessLock`), takes the lock file (`OpenLock`, `StatLock`,
`BreakLock`, `TimeOut`, `AbortWait` for the loop of `acquireFileLock`),
compares the version (`ReadProfile`), and replaces (`WriteTemporary`,
`SyncTemporary`, `RenameTemporary`, `SyncDirectory`) or unlinks
(`RemoveProfile`) the profile. `GiveUp` and `ReleaseFileLock` are the `finally`
blocks. Each awaited file operation is a step of its own; processes run in
between.

The environment fails in these ways: `IoError` at any step of the critical
section before its effect; `Crash` of a process at any step, leaving lock and
temporary files; `LosePower`, after which the directory entry is any of those
in `stable`, the ones that may have reached the disk, and data that was never
synced is `Torn`; `AgeLock`, with which a lock file passes `LOCK_STALE_MS`. A
lock file ages while its holder is dead or, if `AgingLocks` has "live", while
it is only slow. A version is the hash of the content, so a profile stands for
its own version.

### ProfileContext

A profile is the set of the changes made to it, so that "nothing is lost" is a
subset relation. `OpenContext`, `Initialize` and `InitializeFails` are the
constructor's lease and `initialize()`; `Change` and `MarkDirty` are separate
because a call's effect is there before `markDirty()` runs, and changes made by
scripts and CDP clients are never marked. A backup goes through "exporting",
"saving" and "saved"; `SettleBackup` is the settling of `#backupPromise`, which
every caller that joined it awaits. `CallClose`, `FinishClose` and `CloseFails`
are `close()`, also called twice.

### ContextJars

`targets` is the server's map in insertion order, whose last page is "the
newest" in the code. Each page has a `worker` and two jars: `core`, that of its
CDP core, from which profiles are exported and into which they are restored,
and `document`, that of its document, which `Set-Cookie` and `document.cookie`
write. `kept` is `contextSnapshots`. A call is a record in `task` with the pages
it still has to visit and the state it carries; each page it awaits is one step.

`JarOf` is `start()` with the reseeding of a restarted page. `CallCreate` to
`LoadFirst` are `createTarget` and `#prepareTarget` with the first navigation,
which may fail the creation after the page was seeded (`CreateFails`). `CallClose`
to `RemovePage` are `#closeTarget`, `CallCheckpoint` to `ReturnSnapshot` are
`exportContextSnapshot`, `CallSetCookie` to `ClearReturns` are the `Storage`
commands, `CallRecycle`, `FreshWorker` and `SeedFresh` are
`releaseEngineMemoryIfHigh`: export, then a fresh Worker, then the seeding.

`jar` is history, and independent of what the code keeps: the cookies that callers
have set since the last clear. `lost` is history as well: whether the code has
left that path. It does so in three ways, which the properties except by name and
the section on findings lists: a cookie set while no page is open, a clear while no
page is open and something was kept, and the end of the only running Worker when
what was kept is something else than `jar`. A clear that reaches open pages ends
it. Cookies that a page receives from a server are in no core; no property claims
that they are kept or saved.

### ServerLifecycle

`client[c]` follows a socket from the backlog through `Accept` and `Dispatch`
(which blocks in `peek`) and the bounded queue `handoff` to the main loop;
`thread[c]` follows its thread from the reserved slot, through the handshake
("shaking" until the processor exists, "ungreeted" while the reader waits for the
processor's first message and sees no close), to `ReleaseSlot`, the drop of its
`SlotGuard`. A runtime that cannot be built ends the thread at once, a stream that
cannot be converted sends it to its merge (`StreamFails`). `woken` says whom `notify_waiters` reached: only those who
wait at that moment, so a signal that comes while the main loop starts a
connection is not seen by it. A connection starts with a copy of `template`;
`LockPersistence`, `MergeDeletes`, `MergeSets` and `SaveCookies` are the steps
of `merge_cookie_delta` and the save, which may fail and is then logged and passed
over (`unsaved`: the file lacks something since). `newest` is history: who made the
last merged change of each cookie. The process ends with `SaveAndExit`, wherever the
threads are.

### CdpConnection

A message is on the `wire` until the reader takes it (`Read`): what
`fast_path_response` answers is answered there, ahead of all that waits;
`Browser.close` ends the reader (`Quit`); the rest goes into the channel `rx`.
`at` is where the processor is: in its biased `select`, in a command, in a
navigation that a command carries out before its answer ("eval", for
`emit_post_eval_nav`) or after it ("inner", for `check_pending_navigation`), in the
navigation of a page created with a url ("create"), in `process_with_interception`
("navigation"), or ended. `live` are the pages with an isolate, and `EndRealms` is
what happens to requests whose isolate goes. Methods of `is_v8_free_method` touch
no isolate (`TakeFree`); other commands suspend and resume as
`get_session_page_mut` does (`UseSessionPage`).

A script's request (`Request`) goes through the channel `irx`, is entered in
`paused` under an id counted per realm when it is announced (`Announce`), and
waits in `waiting` until `Resolve`. `Stale` stands for the entries of realms that
are gone. `Listen` is a message during a navigation: one with the name of a Fetch
decision in its text is tried as a decision and otherwise forgotten; everything
else is deferred or, beyond `MAX_DEFERRED_MESSAGES`, refused.

`End` is the end of the reader, with which `processor.abort()` (server.rs:494)
drops the processor at whatever await it is, or the notice of a shutdown to an idle
processor; nothing is modelled after it, although after such a notice the reader
goes on to answer what it answers itself until the process exits. Interception is
on, each page has the session it was created with, and what a command does to its
page is left out, except that scripts make requests and ask for navigations:
whether a navigation was asked for is a choice made where the code looks. Names of
pages are used again, where the code counts.

`CommandQueue` is the list of commands neither answered nor refused. `Answer` takes
the first. What goes out of turn is named: `Overtake` is an answer of the reader or
to a decision, `Refuse` an error to a command that finds another one waiting,
`Forget` a message that seems to decide, `Close` the end, which answers nothing.

### DomTree

The variables are the fields of `Node` and the tables of `DomTree`. `ParentOff`
to `LastOff` are the links as `detach_for_reparent` leaves them, `MoveTo` what a
move does to bits and edited rules, `Owned`, `Above`, `Chain` and `Light` the
code's walks as least fixed points. `SetInnerHtml`, `DetachNext` and `Cleared`
are the loop of `set_inner_html`; nothing runs in between. Text and comments are
elements that get no children. `DocumentMoves` lets scripts pass the document
itself to `appendChild`; it is `FALSE` in the run and in the theorems.

### PortableCdp

`pages`, `sessions`, `owner`, `actions` and `ready` are the tables of
`BrowserState`; `targets` and `closed` those of its adapter, which mirrors what
is paused and which navigation's document it shows; `told`, `handed` and
`waiting` are what client and host know. Every command is one step, since the
core is called synchronously. The host's steps (`HandOver`, `CompleteAction`,
`InterceptFetchRequest`, `CancelFetchRequests`, `DrainFetchResolutions`,
`RestoreContext`, `SyncTargetState`) interleave with them. A navigation claims the
page's next `generation` when it starts, which makes older answers stale
(`Accepted`). The answer of any action may bring the state of a document, which the
adapter then mirrors (`CompleteAction` with `brings`; `doc` names the action), and
`SyncTargetState` puts in whatever the host gives, without a look at the generation
(`doc` is 0). `since` is history: the first action started after the page's document
was last replaced.

## The runs

| Run | Instance | Shows |
| --- | --- | --- |
| `LocalStore_fresh` | 3 calls, 2 of them in one process, 2 contents, 6 kinds of request, crashes and I/O errors, no stale locks | `StoreInv`, `MutualExclusion`, `SavedIsDurable`, `NoLostUpdate`, and the refinement `ImplementsRegister` |
| `LocalStore_stale` | 3 calls, 1 content, locks of dead and of live holders grow stale, power loss, fairness | `NeverTorn` even when two calls hold the lock; `EveryCallEnds` |
| `LocalStore_race` | 3 calls that expect no profile, locks of dead holders grow stale | **violates** `NoLostUpdate` |
| `ProfileContext_reopen` | 2 openings, a close, 1 change here and 1 elsewhere, the debounce timer, all failures, fairness | `ContextInv`, `OneContextAtATime`, `CloseSavesWhatItFound`, `StoredChangesSurvive`, `ClosesEnd` |
| `ContextJars_serial` | 3 pages, 2 cookies set, 1 received, one call at a time, Workers end | `JarsInv`, `PagesAgree`, `ReportsTheContext`, `SavesTheContext` |
| `ContextJars_overlap` | 3 pages, 1 cookie, two calls at a time, Workers end unnoticed | `JarsInv`: no Worker is left behind |
| `ContextJars_restart` | as `serial`, 1 cookie, but a Worker's end is not noticed at once | **violates** `PagesAgree` |
| `ServerLifecycle_saves` | 3 clients, 2 slots, a queue of 1, 1 cookie with 1 value or none, saves that may fail, a signal at any time, fairness | `ServerInv`, `SlotsCountThreads`, `StoredIsNewest`, `DrainWaitsForSaves`, `ClosedConnectionsEnd`, `DrainEnds` |
| `ServerLifecycle_exit` | 2 clients | **violates** `CleanExitSavesCookies` |
| `CdpConnection_serves` | 2 pages, 2 command ids, 2 script requests, 1 request of a realm, 2 in their channel, 1 message unread and 1 deferred, an end at any time, fairness | `CdpInv`, `OnlyCreateAddsIsolates`, `OnlyTheClientReleases`, the refinement `IsPromisedQueue`, `CommandsEnd` |
| `DomTree_moves` | a document and 3 nodes, 1 id | `TreeInv`, `WalksAgree`, `LookupIsLive`, `EditedRulesAreCurrent`, the refinement `IsPromisedTree` |
| `PortableCdp_lives` | 2 connections, 2 sessions, 2 pages, 2 contexts, 2 actions, 1 request, generations up to 2 for restores | `PortableInv`, `RequestsAreHeld`, `ClientsAreTold`, `StaleResultsAreRefused` |

The bounds. A race for the lock needs a stale lock's dead owner and two rivals,
three calls in all; two of them share a process, so the chain of promises and
the lock file are both contended. Two contents tell "the expected profile"
from another one. Two openings are the old and the new holder of a lease, one
close meets the timer's backup and another process, and one change on each side
is enough for one to be lost. Three pages are the
closing or restarting one, the newest and another; a cookie is in a jar or not,
and two tell a jar that lacks one from an empty one.
Three clients of two slots are the least of which one is refused, and two that
merge one cookie in both orders the least that can undo each other. Two
pages contend for the thread, their first requests for one id, and a message in
hand, one deferred and one unread for their order; the limits are 1 so that they
are reached, and an id that was answered is used again. Since a realm's counter
starts again, one request of a realm is enough for an id to come back, and two in
the channel for one of them to be of a realm that is gone. Four nodes make every shape of a moved subtree whose old and new
place meet: siblings, a parent and its child, a host, its root and a node
below it. Two sessions of one page are the last listener and another; two
actions an old navigation and a newer one.

`CHECK_DEADLOCK FALSE` stands where calls, clients or identities are used once
each, or a connection ends: the system stops when they are used up.

### What the violations show

- `LocalStore_race`: `acquireFileLock` stats the lock file and then removes
  whatever has its name (188-190). Two waiters see the lock of a dead process;
  one removes it and takes the lock; the other removes *that* lock and takes its
  own. Both have compared the same version, both saves succeed, one is lost.
  `storage.test.mts:39` promises that "local optimistic writes serialize
  concurrent writers".
- `ContextJars_restart`: `#closeTarget` keeps the context's state when the last
  page closes (2252), and takes a page whose Worker has ended for an open one.
  When the last page that runs is closed, the state is kept nowhere and the
  other page restarts empty, without any overlap of calls. Deeper in the same
  instance, creating a page next to a newest page whose Worker has ended leaves
  both empty: the old one seeds itself from the new one (1621-1624).
- `ServerLifecycle_exit`: at a shutdown each processor breaks out of its loop
  (server.rs:755), but nothing tells the reader of an open socket. The thread
  keeps its slot, the drain lasts until `SHUTDOWN_DRAIN_MS`, and the process
  exits before the thread merges its cookies.
  `docs/Persist-cookies-and-storage.md:35` says state is written "On clean
  process exit (Ctrl-C, SIGTERM)."

### Found while modelling, not shown by a run

- `backup()` joins a backup under way (browser `index.mts` 446), `close()`
  included, though its snapshot may have been exported before the last change;
  `packages/browser/README.md:33` requires a final checkpoint on close.
- A cookie a server sets is in its page's document jar only; profiles, kept
  snapshots and recycled pages carry the CDP core's jar, so it is neither kept nor
  saved. `packages/browser/README.md:25-26` says a context's cookies stay "in memory
  while the context is open (also after its pages close)".
- Of the cookies that callers set, the context loses track in three ways, which
  `lost` records: one set while no page is open is set nowhere (`cdp-server.mts`
  2225-2233); a clear while no page is open leaves the kept copy, which then comes
  back into the next page and the next profile; and when the only running Worker
  ends, the page restarts with what was kept when the last page closed, older than
  what was set or cleared since, or with nothing.
- Calls that overlap do not keep `PagesAgree`: two pages created at once both
  start from a page that was not given its state yet, two last pages that close
  at once keep nothing, and a checkpoint undoes a cookie set meanwhile. The code
  promises coherence (1583-1586), but nothing says calls may overlap.
- `cdp-server.mts` 1268: closing a client connection detaches its sessions but
  leaves the page Worker's connection to its core open, with its Fetch patterns.
- `docs/Persist-cookies-and-storage.md:36-37` says state is also written after
  navigations and `Network.setCookie`; `save_cookies` is called at server.rs 382
  and 508 only, when the server or a connection ends.
- `docs/Architecture-overview.md:101` says a client that disconnects leaves its
  pages running; the native server ends them with the connection.
- `notify_waiters` (server.rs 288) does not reach a main loop that is starting a
  connection: it goes on until the accept thread sees the flag at the next socket.
- A shutdown that stops a processor before it has answered `NewConnection` leaves the
  reader waiting for that answer (server.rs 1537) for good: it holds a sender of the
  channel itself. The thread keeps its slot and does not see its client close;
  `ClosedConnectionsEnd` makes an exception of it, and the drain ends by its deadline.
- `Target.createTarget` with a url (target.rs 95) navigates the new page without
  suspending the live one, so that a thread has two isolates, against the comment at
  server.rs 1174. `OnlyCreateAddsIsolates` excepts this command and nothing else.
- An intercepted request of a page that is not the one `AnnounceIdle` finds first, or
  that a navigation of another page announces, goes to the client in that page's name
  (server.rs 738-747, 809-818, 1268-1274). Since ids are counted per realm, it may
  also take the place of another page's waiting request in `intercepted_paused`,
  which then goes on without a decision (953); `OnlyTheClientReleases` excepts that.
- `Browser.close` puts its answer into the reply channel and then aborts the task that
  sends it (server.rs 1565-1570, 1590): the client need not get it.
- During a navigation a message whose text contains the name of a Fetch decision, and
  that resolves no request, gets no answer and is dropped (server.rs 1288-1297):
  a decision that comes late, or an evaluation whose source mentions one.
- A navigation that a script asks for during a command is carried out by the
  dispatcher or the command itself, which do not listen (server.rs 1433, `runtime.rs`
  12-46): requests that it makes wait unannounced until its deadline.
- With `DocumentMoves = TRUE` the document can get a parent, against the comment
  at tree.rs 1035; since `detach_for_reparent` returns early for it, appending it
  a second time makes it its own sibling (`LinksAgree` and `NoCycles` fail after
  three steps), and it keeps its bit below a node that is not connected.
- The id index and the scan choose differently among elements that share an id.
- In the portable core, an evaluation that starts after a navigation was claimed, but
  is computed on the old document, is accepted with whatever document state it brings
  (`crates/obscura-wasm/src/cdp.rs` 457-461, 708-808), and `syncTargetState` (512-525)
  looks at no generation: either can bring back a document that is gone. The host in
  this repository sends `__obscuraState` with navigations, reloads and
  `setDocumentContent` only (`cdp-server.mts` 2011-2028) and does not call
  `syncTargetState`, so `StaleResultsAreRefused` says what the adapter promises to
  any host: what was started before the replacement is refused.
- In the portable core, a resolution queued for a page that is closed before the
  host drains it is lost, and detaching one of two listening sessions clears the
  adapter's copy of what the other has paused.

## Fairness

`LocalStore`: weak fairness of each call's steps, since every file operation
that Node has started settles and the event loop runs what is ready; strong
fairness of `TimeOut`, since a call that finds a fresh lock again and again is
not at that test all the time, but passes it until `LOCK_WAIT_MS` are over. No
fairness of `Invoke`, of failures or of `AgeLock`.

`ProfileContext`: weak fairness of `Initialize`, the steps of a backup, the
timer and the end of a close. None of calls, changes, failures or other
processes.

`ServerLifecycle`: weak fairness of the main loop and of each connection's
thread until the process exits: the operating system schedules threads, and
`DrainTimeout` is a timer. None of clients, the accept thread or signals.

`CdpConnection`: weak fairness of the reader, of taking messages, of the end of a
command, and of the end of a navigation, which has a deadline of its own. None of
the client, of scripts, or of the connection's end.

`ContextJars`, `DomTree` and `PortableCdp` state no liveness: the tree and the
core are called and return.

## Proofs

TLC checks the instances above; the proof modules show the same for all values
of the constants that satisfy the named assumption of their module, and what a
theorem assumes beyond it.

`LocalStoreProofs`
- `Typing`: `TypeOK` with `TurnsTaken`, which says that a call past the chain of
  its process is the first in it. Without it, `Tail` of a queue in `Leave` might
  be that of an empty one.
- `ProfileNeverTorn` rests on `SyncedFirst` alone: what is about to be renamed
  is synced. It depends on no lock, so it holds for stale locks, too.
- `LockExcludes`, `SavesAreDurable` and `ExpectationsHonoured` assume
  `AgingLocks = {}`. The inductive invariant is `StoreInv`: `MutualExclusion`
  is not inductive since `ReleaseFileLock` removes a lock file without looking
  whose it is; `LockHeld` (who is in the critical section owns the lock file)
  and `LocksFresh` make it so (`StoreInvariance`). `StillExpected` carries the compared version from
  `ReadProfile` to the rename, which only holds because of `LockHeld`.
- `LocalStoreIsRegister`: initial states map to initial states, and each step is
  a `Start`, `Apply`, `Refuse` or `Fail` of `CasRegister`, or a stutter. It
  assumes no stale locks and no power loss.

`ProfileContextProofs`
- `LeaseExcludes`, `CloseCheckpoints` and `StoredChangesAreKept` rest on
  `ContextInv` (`ContextInvariant`), for any number of contexts and closes. Its heart is `SeenKept` (what a context has seen is in its state
  and still stored, except what Workers lost), `SnapshotBetween` (a snapshot
  lies between the two) and `PromiseCarried` (a close's own backup carries what
  the close found).

`ServerLifecycleProofs`
- `SlotsAreExact`: `live` is the number of threads between reservation and drop,
  from `HandedOnce` (a socket is handed over once and has no thread before), with
  the cardinality of the set of holders changing by one at a time.
- `NewestIsStored` and `DrainKeepsCookies` rest on `ServerInv`: `StoredIsNewest`
  holds between merges only, so `JarUnderLock` says what the jar is during one,
  `LockHeld` that there is one at a time, and `MergedAreDone` that nothing in the
  jar belongs to a connection that may still change it. `ChangesAreMerged` then
  gives the drain its cookies.

`DomTreeProofs`, for `DocumentMoves = FALSE`: with `TRUE` the shape of the tree is
lost, as said above. The arena is finite (`IsFiniteSet(Nodes)`), as a `Vec` is.
- `ShapeInvariance`: `TreeShape`. `Unlinked`, `Appended` and `Inserted` show that the
  links stay lists; `Grounds` puts `NoCycles` as "every nonempty set has a node
  whose parent or host is outside", which survives unlinking and survives
  linking because `WouldCreateCycle` was false (`NoWayRound`), including its
  shortcut for leaves (`LeafNotAbove`); `OwnedIff` equates the downward walk that
  sets bits with the upward one, for `ConnectedAgree`.
  `ConnectedMeansBelowDocument` follows.
- `Invariance`: `TreeInv`, that is `TreeShape` with `IndexAgree` (what the index
  names is an element with that id), which look-ups need.
- `EditedRules`: a move clears what `MoveTo` says it clears; `ChainFacts` and
  `LightIff` relate the chain of ancestors that is cleared before a move to the
  trees as they are after it.
- `Promised`: each operation on links is the one on lists. `SameList` says that a
  sequence that starts at the first child, goes on along `next` and ends at the
  last one is the list (`ListedOnce`: no node is in it twice), so that an
  operation needs only a sequence with these properties: the old one without the
  node, with it at the end, or before another one (`ListedWithout`,
  `ListedAppended`, `ListedInserted`). `RunExists` shows that the bound of the
  loop in `children()`, the number of nodes, is never what ends it.
- `Walks`: `next_in_subtree` climbs until it finds a next sibling, `prev_in_subtree`
  goes to the deepest last descendant. Such functions follow a pointer; that they
  exist is shown once (`FollowExists`), that the pointer gets somewhere by
  `NoCycles` upward and `Leafward` downward. That the walk forward leaves nothing
  out uses that the nodes are finitely many: it is injective on what it passes,
  and an injective map of a finite set into itself is onto it (`ClosedIsOnto`).
- `Lookup`: the scan of `get_element_by_id` sees all of the document
  (`ScanFinds`, by `Walks`), and what the index names is only taken if it is
  connected and its tree is the document's (`IndexedIsLive`).

`PortableCdpProofs`
- `Invariance`: `PortableInv`, one lemma for each operation.
- `NoRequestIsForgotten`, `SessionsAreReported` and `StaleAreRefused` rest on
  it. The last needs that an action which carries its page's generation was started
  since the document was replaced (`FreshKeeps` and the lemmas after it).

`CdpConnectionProofs`
- `Invariance` (`CdpInv`), `IsolatesAdded` and `ClientsRelease` assume nothing but
  the constants' assumptions and rest on the inductive `Inv`: what the processor works
  on (`Processor`, with `WorkedOn`: while a navigation listens, its page alone may be
  live) and where requests may be (`Reqs`). Since ids start again with a realm, the
  last needs `StaleFirst`, for each page: what its old realms left in the channel is
  ahead of what the live one sent, and nothing of the live one has been announced
  while any of it is left. So an old announcement displaces requests of other pages
  at most, which `ClientsRelease` excepts.
- `KeepsThePromise` (`IsPromisedQueue`): the message in hand, the deferred ones, the
  channel and the socket, in this order, are the abstract queue. Its invariant `Queue`
  is that these are lists of messages, and empty when the connection has ended. A step
  appends one, removes the first, removes one that may overtake, be refused or be
  forgotten, or leaves the list as it is: taking a message only moves the border
  between two of its parts (`TakenInHand`).

`ContextJarsProofs`
- `NothingIsLeft` (`JarsInv`), with any calls at once: from `Base`, which adds
  that no page is in the map twice and that whoever is to copy a state has one.
- `OneJar` (`PagesAgree`), `Reports` and `Saves` assume `CallsAtOnce = 1` and
  `WorkersEnd # "unnoticed"`; `ContextJars_restart` shows why the second is
  needed, and two calls at once may leave pages with different jars. `PagesAgree`
  is about idle moments only, so `SerialOf(J)` says what each step of a call finds
  where the pages share the cookies `J`: who runs has them, who was never started has
  missed none, except the page the call is working on, and where nobody runs, what
  was kept has them. `Shared` says that there is such a `J`, and that it is `jar` as
  long as the context has not lost track; it is inductive because each loss only
  changes which `J` it is (`SerialLoses`, `SerialUnseen`).

`NatSets` has what these proofs need of induction: the library's rules take a
predicate as a parameter, so `LeastElement` and `UpTo` state them of sets of
numbers. It reaches as far as facts about the elements of a sequence; what a
recursive function computes is shown from its equation, once it is shown that a
function with that equation exists.

Only model-checked: liveness (`EveryCallEnds`, `ClosesEnd`,
`ClosedConnectionsEnd`, `DrainEnds`, `CommandsEnd`),
since the prover does not reason about fairness and `ENABLED`. Every other property of a
run that passes is proved, under the conditions named above.

## Not modelled

- TypeScript side: the S3 store, the Browser VM, Worker lifecycles, CDP sessions
  of `cdp-server.mts`, the Worker client and profile processes (plan below).
  Sealing of profiles, WebSocket frames, network policy, limits and protocol
  types are conversions and checks of data without state.
- More than half of the 144,000 lines of Rust is style, layout, painting and the
  embedding of V8: sequential computation on numbers and text. A bounded model
  would repeat it without asking it anything, so the share of mapped lines stays
  small.
- In `ContextJars`, cookies are names without domains and expiry, the end of a
  context is left out, and so are failures of single exports other than those of
  pages that have gone.
- In `ServerLifecycle`, HTTP endpoints and storage other than cookies.
- In `CdpConnection`, `Fetch.enable` and `disable` (interception is on), several
  sessions of one page, screencasts, messages that are no CDP command, and the reader
  after the notice of a shutdown.
- In `DomTree`, form control state, hover, cloning and serialization, and
  `DomTree::remove`, which frees slots and is called by tests only.
- In `PortableCdp`, the caps of `state.rs` 21-46, messages without numeric ids,
  URL patterns and stages of interception, bodies, network state, and a context
  restore whose state cannot be applied. Request ids are used once.

## Plan

1. Done: `CasRegister`, `LocalStore`, `ProfileContext`, `ServerLifecycle`,
   `ContextJars`, `DomTree`, `PortableCdp`, `CdpConnection` and their proofs.
2. `S3Store`: requests, lost answers, timeouts, retries and late requests against
   a conditional bucket; which part of `CasRegister` it still implements. One
   run; refinement of a weaker register, and a proof of it.
3. `PageWorkers`: `start`, `discardEndedWorker`, recycling and `close` of pages,
   spare Workers, `maxTargets` and `DomjetCdpServer.close`. Properties: no
   Worker outlives its page or the server, at most one Worker for a page, every
   close ends. Two to three pages, one spare.
4. `CdpSessions`: the order of commands in a session (`commandOrdering`),
   attaching and detaching, over `PortableCdp` as the core of each page.
5. `WorkerClient`: requests, timeouts, aborts and the Worker's end; every request
   settles once, and none after close.
6. Proofs of the new modules, beside them: for `S3Store` the refinement, for
   `PageWorkers` and `CdpSessions` their invariants.
