--------------------------- MODULE CdpConnection ---------------------------
(***************************************************************************)
(* One CDP connection of crates/obscura-cdp/src/server.rs: the reader      *)
(* answers some commands itself and passes the others on to cdp_processor, *)
(* which carries them out on the pages of its CdpContext, runs navigations *)
(* as tasks during which it goes on listening, and tells the client of     *)
(* script requests that wait for its decision.                             *)
(*                                                                         *)
(* Interception is on.  Every page has the one session it was created      *)
(* with.  What commands do to a page is left out, except that its scripts  *)
(* may make requests and ask for a navigation.  Request ids are counted    *)
(* per realm, as intercept_counter is; a realm is what init_js makes.      *)
(***************************************************************************)
EXTENDS Naturals, Sequences, FiniteSets

CONSTANTS
  Pages, None,
  Ids,             \* ids of commands under way; a client may use them again
  Ops,             \* script requests that wait for the client
  Stale,           \* one whose realm is gone
  MaxDeferred,     \* MAX_DEFERRED_MESSAGES
  MaxUnread,       \* bound: messages on the wire and in the channel
  MaxRequests,     \* bound: requests of one realm
  MaxUnannounced   \* bound: requests in their channel

ASSUME ConnectionAssumption ==
  /\ None \notin Pages \cup Ops
  /\ None \notin [page : Pages, id : 1 .. MaxRequests, shown : BOOLEAN]
  /\ Stale \notin Ops \cup {None}
  /\ MaxDeferred \in Nat \ {0} /\ MaxUnread \in Nat
  /\ MaxRequests \in Nat /\ MaxUnannounced \in Nat

VARIABLES
  wire,       \* messages sent, which the reader has not read
  rx,         \* those it has passed on
  deferred,   \* messages set aside during a navigation
  at,         \* "select", "command", "eval", "inner" and "create" (navigations
              \* that a command carries out before its answer, after it, and for
              \* a new page), "navigation" (process_with_interception) or "ended"
  current,    \* the message being carried out
  target,     \* the page it is about
  committed,  \* init_js has run in this navigation
  pages,      \* ctx.pages
  live,       \* those with a JsRuntime
  count,      \* intercept_counter of each page's realm
  waiting,    \* the ops in resolve_rx.await: page, request id, announced or not
  irx,        \* the channel of intercepted requests
  paused      \* intercepted_paused

queues == <<wire, rx, deferred>>
doing == <<at, current, target, committed>>
requests == <<count, waiting, irx, paused>>
vars == <<queues, doing, pages, live, requests>>

RequestIds == 1 .. MaxRequests

\* What the server takes a message for.  "free": is_v8_free_method; "mentions": a
\* command with the name of a decision somewhere in its text; "resolve": a decision;
\* "body": another Fetch method about a request; "fast": fast_path_response; "quit":
\* Browser.close.
Message(k, x, i) == [kind |-> k, of |-> x, id |-> i]
AboutPage == {"navigate", "command", "mentions", "free", "close"}
AboutRequest == {"resolve", "body"}
AboutNone == {"create", "fast", "quit"}
Messages ==
  {Message(k, p, i) : k \in AboutPage, p \in Pages, i \in Ids}
    \cup {Message(k, r, i) : k \in AboutRequest, r \in RequestIds, i \in Ids}
    \cup {Message(k, None, i) : k \in AboutNone, i \in Ids}

ASSUME MessageAssumption == None \notin Messages

Init ==
  /\ wire = <<>> /\ rx = <<>> /\ deferred = <<>>
  /\ at = "select" /\ current = None /\ target = None
  /\ committed = FALSE
  /\ pages = {} /\ live = {}
  /\ count = [p \in Pages |-> 0]
  /\ waiting = [o \in Ops |-> None] /\ irx = <<>>
  /\ paused = [r \in RequestIds |-> None]

(* The client, and the reader of its messages. *)

InHand == IF at \notin {"command", "eval", "navigation", "create"} \/ current = None THEN <<>>
          ELSE <<current>>
\* Messages that are neither answered nor refused yet.
Todo == InHand \o deferred \o rx \o wire

\* Clients name the pages and requests they have been told of.
Send(m) ==
  /\ at # "ended" /\ Len(wire \o rx) < MaxUnread
  /\ m.kind \in AboutPage => m.of \in pages
  /\ m.kind \in AboutRequest => paused[m.of] # None
  /\ \A k \in DOMAIN Todo : Todo[k].id # m.id
  /\ wire' = Append(wire, m)
  /\ UNCHANGED <<rx, deferred, doing, pages, live, requests>>

\* handle_connection_ws: some commands it answers itself.
Read ==
  /\ wire # <<>> /\ Head(wire).kind # "quit" /\ wire' = Tail(wire)
  /\ rx' = IF Head(wire).kind = "fast" THEN rx ELSE Append(rx, Head(wire))
  /\ UNCHANGED <<deferred, doing, pages, live, requests>>

(* Realms. *)

OpsOf(S) == {o \in Ops : waiting[o] # None /\ waiting[o].page \in S}

\* Faulty: the requests of the old realms go on waiting.
FaultyEndRealms(S) ==
  /\ count' = [p \in Pages |-> IF p \in S THEN 0 ELSE count[p]]
  /\ UNCHANGED <<waiting, irx, paused>>

\* The realms of the pages S end, and with them their requests; what the channel
\* and the table hold of those has nobody to answer to.
EndRealms(S) ==
  LET gone(x) == IF x \in OpsOf(S) THEN Stale ELSE x IN
  /\ count' = [p \in Pages |-> IF p \in S THEN 0 ELSE count[p]]
  /\ waiting' = [o \in Ops |-> IF o \in OpsOf(S) THEN None ELSE waiting[o]]
  /\ irx' = [k \in DOMAIN irx |-> [irx[k] EXCEPT !.op = gone(irx[k].op)]]
  /\ paused' = [r \in RequestIds |-> gone(paused[r])]

\* Faulty: the page that is live goes on living.
FaultyUseSessionPage(p) ==
  /\ live' = live \cup {p}
  /\ EndRealms({})

\* get_session_page_mut: the first other page that is live is suspended where p has to
\* be resumed.
UseSessionPage(p) ==
  \E S \in SUBSET (live \ {p}) :
    /\ Cardinality(S) = IF p \in live \/ live = {} THEN 0 ELSE 1
    /\ live' = (live \ S) \cup {p}
    /\ EndRealms(S)

(* Taking a message, with no navigation under way.  Deferred ones are first. *)

\* The select is biased: messages come before the rest.
Idle == at = "select" /\ deferred = <<>> /\ rx = <<>>

\* Faulty: what is in the channel comes first.
FaultyTake(m) ==
  /\ at = "select"
  /\ \/ rx = <<>> /\ deferred # <<>> /\ m = Head(deferred) /\ deferred' = Tail(deferred) /\ rx' = rx
     \/ rx # <<>> /\ m = Head(rx) /\ rx' = Tail(rx) /\ deferred' = deferred
  /\ wire' = wire

Take(m) ==
  /\ at = "select"
  /\ \/ deferred # <<>> /\ m = Head(deferred) /\ deferred' = Tail(deferred) /\ rx' = rx
     \/ deferred = <<>> /\ rx # <<>> /\ m = Head(rx) /\ rx' = Tail(rx) /\ deferred' = deferred
  /\ wire' = wire

Carry(where, m, p) ==
  /\ at' = where /\ current' = m /\ target' = p
  /\ committed' = FALSE

Answered == Carry("select", None, None)

\* What check_pending_navigation then finds for a page of S is navigated to by dispatch.
AnsweredFor(S) == Answered \/ \E p \in S : Carry("inner", None, p)

\* Faulty: the other pages are not suspended.
FaultyStartNavigation(m, p) ==
  Carry("navigation", m, p) /\ UNCHANGED <<pages, live, requests>>

\* process_with_interception up to its select loop.
StartNavigation(m, p) ==
  /\ Carry("navigation", m, p)
  /\ live' = live \cap {p} /\ EndRealms(live \ {p})
  /\ UNCHANGED pages

TakeNavigate(m) ==
  /\ m.kind = "navigate" /\ Take(m)
  /\ IF m.of \in pages THEN StartNavigation(m, m.of)
     ELSE Answered /\ UNCHANGED <<pages, live, requests>>

TakeCommand(m) ==
  /\ m.kind \in {"command", "mentions"} /\ Take(m)
  /\ IF m.of \in pages THEN Carry("command", m, m.of) /\ UseSessionPage(m.of) /\ UNCHANGED pages
     ELSE Answered /\ UNCHANGED <<pages, live, requests>>

\* No page is suspended or resumed.
TakeFree(m) ==
  /\ m.kind = "free" /\ Take(m)
  /\ AnsweredFor(live \cap {m.of})
  /\ UNCHANGED <<pages, live, requests>>

\* Target.createTarget: navigate_blank leaves the page without a JsRuntime; a url
\* is fetched by the handler itself, which suspends no page.  An unknown browser
\* context is an error.
TakeCreate(m) ==
  /\ m.kind = "create" /\ Take(m)
  /\ \/ Answered /\ UNCHANGED pages
     \/ \E p \in Pages \ pages :
          /\ pages' = pages \cup {p}
          /\ Answered \/ Carry("create", m, p)
  /\ UNCHANGED <<live, requests>>

\* Target.closeTarget.
TakeClose(m) ==
  /\ m.kind = "close" /\ Take(m)
  /\ pages' = pages \ {m.of} /\ live' = live \ {m.of}
  /\ EndRealms(live \cap {m.of})
  /\ Answered

\* handle_fetch_resolution: any method on a paused request's id takes the resolver
\* out, and one that is no decision drops it: the request goes on as it was.
Resolve(r) ==
  /\ waiting' = [o \in Ops |-> IF o = paused[r] THEN None ELSE waiting[o]]
  /\ paused' = [paused EXCEPT ![r] = None]
  /\ UNCHANGED <<count, irx>>

\* What does not resolve a request goes on to dispatch.
TakeFetch(m) ==
  /\ m.kind \in AboutRequest /\ Take(m)
  /\ Resolve(m.of)
  /\ AnsweredFor(IF m.kind = "resolve" /\ paused[m.of] # None THEN {} ELSE live)
  /\ UNCHANGED <<pages, live>>

(* Commands. *)

\* A script has asked for a navigation, and emit_post_eval_nav or the like carries it
\* out before the command is answered.
NavigateInCommand ==
  /\ at = "command"
  /\ Carry("eval", current, target)
  /\ UNCHANGED <<queues, pages, live, requests>>

EndCommand ==
  /\ at \in {"command", "eval"}
  /\ AnsweredFor({target})
  /\ UNCHANGED <<queues, pages, live, requests>>

EndInner ==
  /\ at \in {"inner", "create"}
  /\ Answered
  /\ UNCHANGED <<queues, pages, live, requests>>

(* Navigations, which end by their deadline if by nothing else. *)

\* init_js, once for each document of a chain.
NewRealm ==
  /\ at \in {"navigation", "eval", "inner", "create"}
  /\ committed' = TRUE
  /\ live' = live \cup {target} /\ EndRealms({target})
  /\ UNCHANGED <<queues, at, current, target, pages>>

\* A message during a navigation: decisions are passed on, and answered if they find
\* their request; what only mentions one is lost.  Everything else waits or, where too
\* much does, is refused.
Listen(m) ==
  /\ at = "navigation" /\ rx # <<>> /\ m = Head(rx) /\ rx' = Tail(rx) /\ wire' = wire
  /\ IF m.kind = "resolve" THEN Resolve(m.of) /\ UNCHANGED deferred
     ELSE IF m.kind = "mentions" THEN UNCHANGED <<deferred, requests>>
     ELSE /\ UNCHANGED requests
          /\ deferred' = IF Len(deferred) >= MaxDeferred THEN deferred
                          ELSE Append(deferred, m)
  /\ UNCHANGED <<doing, pages, live>>

\* Faulty: a navigation waits for the client for ever.
FaultyEndNavigation ==
  /\ at = "navigation" /\ \A o \in Ops : waiting[o] # None => waiting[o].page # target
  /\ Answered
  /\ UNCHANGED <<queues, pages, live, requests>>

EndNavigation ==
  /\ at = "navigation"
  /\ Answered
  /\ UNCHANGED <<queues, pages, live, requests>>

(* Scripts: in a command, in a navigation, and in the turns of the event loop that *)
(* the processor gives the live page while it has nothing else to do.              *)

Runs(p) ==
  /\ p \in live
  /\ \/ Idle
     \/ at = "command" /\ target = p
     \/ at \in {"navigation", "eval", "inner", "create"} /\ target = p /\ committed

\* op_fetch_url up to resolve_rx.await.
Request(p, o) ==
  /\ Runs(p) /\ waiting[o] = None /\ count[p] < MaxRequests /\ Len(irx) < MaxUnannounced
  /\ count' = [count EXCEPT ![p] = @ + 1]
  /\ waiting' = [waiting EXCEPT ![o] = [page |-> p, id |-> count[p] + 1, shown |-> FALSE]]
  /\ irx' = Append(irx, [op |-> o, page |-> p, id |-> count[p] + 1])
  /\ UNCHANGED <<queues, doing, pages, live, paused>>

\* take_live_pending_navigation.
PumpNavigation(p) ==
  /\ Idle /\ p \in live
  /\ StartNavigation(None, p)
  /\ UNCHANGED <<queues>>

\* emit_intercepted_request: where the id is in the table, the resolver there is
\* dropped and its request goes on as it was.
Announce ==
  LET new == Head(irx) IN
  /\ irx' = Tail(irx)
  /\ paused' = [paused EXCEPT ![new.id] = new.op]
  /\ waiting' = [o \in Ops |-> IF o = new.op THEN [waiting[o] EXCEPT !.shown = TRUE]
                               ELSE IF o = paused[new.id] THEN None ELSE waiting[o]]
  /\ UNCHANGED <<queues, doing, pages, live, count>>

AnnounceInNavigation == at = "navigation" /\ irx # <<>> /\ Announce

\* In the name of a page that is live; without one the request fails.
AnnounceIdle ==
  /\ Idle /\ irx # <<>>
  /\ IF live # {} THEN Announce
     ELSE /\ irx' = Tail(irx)
          /\ waiting' = [o \in Ops |-> IF o = Head(irx).op THEN None ELSE waiting[o]]
          /\ UNCHANGED <<queues, doing, pages, live, count, paused>>

\* The reader ends, by a close or an error of the socket, and the processor is aborted,
\* wherever it is; or an idle one sees the notice of a shutdown.
End ==
  /\ at # "ended"
  /\ wire' = <<>> /\ rx' = <<>> /\ deferred' = <<>>
  /\ Carry("ended", None, None)
  /\ pages' = {} /\ live' = {} /\ EndRealms(live)

\* Browser.close ends the reader, and its answer is not sent any more.
Quit == wire # <<>> /\ Head(wire).kind = "quit" /\ End

TakeMessage ==
  \E m \in Messages : \/ TakeNavigate(m) \/ TakeCommand(m) \/ TakeFree(m) \/ TakeCreate(m)
                      \/ TakeClose(m) \/ TakeFetch(m)

Next ==
  \/ \E m \in Messages : Send(m) \/ Listen(m)
  \/ Read
  \/ TakeMessage
  \/ NavigateInCommand \/ EndCommand \/ EndInner
  \/ NewRealm \/ EndNavigation
  \/ \E p \in Pages : PumpNavigation(p) \/ \E o \in Ops : Request(p, o)
  \/ AnnounceInNavigation \/ AnnounceIdle
  \/ End \/ Quit

Fairness ==
  /\ WF_vars(Read) /\ WF_vars(Quit) /\ WF_vars(TakeMessage)
  /\ WF_vars(EndCommand) /\ WF_vars(EndInner) /\ WF_vars(EndNavigation)

Spec == Init /\ [][Next]_vars
FairSpec == Spec /\ Fairness

(* Properties. *)

TypeOK ==
  /\ wire \in Seq(Messages) /\ rx \in Seq(Messages) /\ deferred \in Seq(Messages)
  /\ at \in {"select", "command", "eval", "inner", "create", "navigation", "ended"}
  /\ current \in Messages \cup {None} /\ target \in Pages \cup {None}
  /\ committed \in BOOLEAN
  /\ pages \subseteq Pages /\ live \subseteq pages
  /\ count \in [Pages -> 0 .. MaxRequests]
  /\ waiting \in [Ops -> [page : Pages, id : RequestIds, shown : BOOLEAN] \cup {None}]
  /\ irx \in Seq([op : Ops \cup {Stale}, page : Pages, id : RequestIds])
  /\ paused \in [RequestIds -> Ops \cup {Stale, None}]

\* Every request that waits can still be answered: it is in the channel, once, or
\* the client was told of it and the table has it under the id the client knows.
RequestsCanBeAnswered ==
  /\ \A o \in Ops : waiting[o] # None =>
       IF waiting[o].shown THEN paused[waiting[o].id] = o
       ELSE \E k \in DOMAIN irx :
              irx[k] = [op |-> o, page |-> waiting[o].page, id |-> waiting[o].id]
  /\ \A r \in RequestIds : paused[r] \in Ops =>
       waiting[paused[r]] # None /\ waiting[paused[r]].id = r /\ waiting[paused[r]].shown
  /\ \A k \in DOMAIN irx : irx[k].op # Stale =>
       waiting[irx[k].op] = [page |-> irx[k].page, id |-> irx[k].id, shown |-> FALSE]
  /\ \A k, l \in DOMAIN irx : irx[k].op = irx[l].op /\ irx[k].op # Stale => k = l

\* Only a live realm has requests, and it numbers them.
RequestsAreOfTheRealm ==
  /\ \A o \in Ops : waiting[o] # None =>
       waiting[o].page \in live /\ waiting[o].id <= count[waiting[o].page]
  /\ \A o, x \in Ops : waiting[o] # None /\ waiting[x] # None /\ o # x =>
       waiting[o].page # waiting[x].page \/ waiting[o].id # waiting[x].id
  /\ \A p \in Pages \ live : count[p] = 0

\* The page of a navigation that listens is the only one that may be live, and the page
\* of a command is live.
WorkedOn ==
  /\ at \notin {"select", "ended"} => target \in pages
  /\ at = "navigation" => live \subseteq {target}
  /\ at \in {"command", "eval", "inner"} => target \in live

CdpInv == TypeOK /\ RequestsCanBeAnswered /\ RequestsAreOfTheRealm /\ WorkedOn

\* V8 allows one entered isolate per thread (server.rs:1174-1182).  The navigation of
\* Target.createTarget breaks that; nothing else adds an isolate to those there are.
OnlyCreateAddsIsolates ==
  [][at # "create" => \/ Cardinality(live') <= Cardinality(live)
                      \/ Cardinality(live') = 1]_vars

\* A request stops waiting when a message names it or its realm ends, or when another
\* page's request, which may even be stale, is announced under its id; and not because
\* a request of its own page has taken that id.
Takes(q, r) ==
  q # <<>> /\ q' = Tail(q) /\ Head(q).kind \in AboutRequest /\ Head(q).of = r
Displaces(w) ==
  irx # <<>> /\ irx' = Tail(irx) /\ Head(irx).id = w.id /\ Head(irx).page # w.page
OnlyTheClientReleases ==
  [][\A o \in Ops : waiting[o] # None /\ waiting'[o] = None =>
       \/ Takes(rx, waiting[o].id) \/ Takes(deferred, waiting[o].id)
       \/ waiting[o].page \notin live' \/ count'[waiting[o].page] = 0
       \/ Displaces(waiting[o])]_vars

\* Commands are carried out once and in order, across navigations and what is deferred
\* meanwhile; what overtakes them is what the reader answers, and decisions.
Promise == INSTANCE CommandQueue WITH
  Commands <- Messages,
  Ahead <- {m \in Messages : m.kind \in {"fast", "resolve"}},
  Decisions <- {m \in Messages : m.kind \in {"resolve", "mentions"}},
  todo <- Todo, closed <- at = "ended"
IsPromisedQueue == Promise!Spec

\* No command waits for ever behind another, behind a navigation or behind a request
\* that the client never decides about.
CommandsEnd ==
  \A i \in Ids : (\E k \in DOMAIN Todo : Todo[k].id = i)
                   ~> (\A k \in DOMAIN Todo : Todo[k].id # i)
=============================================================================
