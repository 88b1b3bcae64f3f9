----------------------------- MODULE PortableCdp -----------------------------
(***************************************************************************)
(* The portable CDP core: BrowserState of crates/obscura-cdp/src/state.rs, *)
(* which owns contexts, pages, sessions, pending host actions and paused   *)
(* requests, and its adapter PortableCdp of crates/obscura-wasm/src/cdp.rs,*)
(* which keeps a target with a document mirror for every page.  The core   *)
(* runs one call at a time.  Its host, which drains its queues, carries    *)
(* out actions and waits for intercepted requests, runs concurrently: what *)
(* it was handed may be overtaken by any later call before it comes back.  *)
(*                                                                         *)
(* Identities are drawn from counters and never used twice.  Here those of *)
(* connections, sessions, pages and contexts are members of sets, and used *)
(* is what was given out; an action keeps its number, which orders it.     *)
(* Requests to the core have numeric ids, as CDP requires, so browser      *)
(* commands take the path through the shared dispatcher.  The caps of      *)
(* state.rs:21-46 are out of reach of the instances and left out.          *)
(***************************************************************************)
EXTENDS Naturals, Functions

CONSTANTS
  Conns, Sessions, Pages, Contexts,  \* the identities that may be given out
  FirstPage,       \* page-1, made with the core
  DefaultContext,
  Requests,        \* requests of pages, each of them sent once
  MaxAction,       \* bound: actions started
  MaxGeneration    \* bound: document generation up to which a context is restored

ASSUME PortableAssumption ==
  /\ FirstPage \in Pages /\ DefaultContext \in Contexts
  /\ MaxAction \in Nat /\ MaxGeneration \in Nat

VARIABLES
  contexts,  \* live browser contexts
  pages,     \* PageState of each live page: its context, document_generation,
             \* the sessions with Fetch patterns, the paused requests, the
             \* requests with a resolution that the host has not drained, and
             \* (history) since, the first action about the document it is at
  targets,   \* adapter: each target's paused_fetches, and doc, the action whose
             \* result its mirror shows, 0 for the first or a synchronized state
  conns,     \* each open connection's auto_attach
  sessions,  \* the page of each session
  owner,     \* session_connections
  actions,   \* PendingAction of each action under way
  ready,     \* ready_host_actions, handed out in the order of their numbers
  next,      \* the number of the next action
  closed,    \* adapter: fetch_resolutions, requests failed with their target
  used,      \* identities given out
  told,      \* client: the sessions each connection has been told of
  handed,    \* host: actions it carries out
  waiting    \* host: requests that wait for a resolution, and their page

vars == <<contexts, pages, targets, conns, sessions, owner, actions, ready, next,
          closed, used, told, handed, waiting>>

clients == <<conns, sessions, owner, told, used>>
work    == <<actions, ready, next, handed>>
fetches == <<closed, waiting>>

Page(x) == [context |-> x, generation |-> 1, since |-> 1,
            listeners |-> {}, paused |-> {}, decided |-> {}]
Target == [paused |-> {}, doc |-> 0]

Init ==
  /\ contexts = {DefaultContext}
  /\ pages = [p \in {FirstPage} |-> Page(DefaultContext)]
  /\ targets = [p \in {FirstPage} |-> Target]
  /\ conns = <<>> /\ sessions = <<>> /\ owner = <<>> /\ told = <<>>
  /\ used = {FirstPage, DefaultContext}
  /\ actions = <<>> /\ ready = {} /\ next = 1 /\ handed = {}
  /\ closed = {} /\ waiting = <<>>

Without(f, S) == Restrict(f, DOMAIN f \ S)
SessionsOf(p) == {s \in DOMAIN sessions : sessions[s] = p}
SessionsBy(c) == {s \in DOMAIN owner : owner[s] = c}

\* cancel_host_action_ids
Cancel(A) == actions' = Without(actions, A) /\ ready' = ready \ A

(* Attaching.  A new session for every pair of connection and page. *)

NewSessions(pairs) ==
  UNION {Bijection(N, pairs) : N \in SUBSET (Sessions \ used)}

Attach(g) ==
  /\ sessions' = [s \in DOMAIN sessions \cup DOMAIN g |->
                    IF s \in DOMAIN g THEN g[s][2] ELSE sessions[s]]
  /\ owner' = [s \in DOMAIN owner \cup DOMAIN g |->
                 IF s \in DOMAIN g THEN g[s][1] ELSE owner[s]]
  /\ told' = [c \in DOMAIN told |-> told[c] \cup {s \in DOMAIN g : g[s][1] = c}]

AttachToTarget(c, p) ==
  /\ c \in DOMAIN conns /\ p \in DOMAIN targets
  /\ \E g \in NewSessions({<<c, p>>}) : Attach(g) /\ used' = used \cup DOMAIN g
  /\ UNCHANGED <<contexts, pages, targets, conns, work, fetches>>

SetAutoAttach(c, on) ==
  /\ c \in DOMAIN conns
  /\ conns' = [conns EXCEPT ![c] = on]
  /\ LET attached == {sessions[s] : s \in SessionsBy(c)}
         pairs == IF on THEN {c} \X (DOMAIN targets \ attached) ELSE {}
     IN \E g \in NewSessions(pairs) : Attach(g) /\ used' = used \cup DOMAIN g
  /\ UNCHANGED <<contexts, pages, targets, work, fetches>>

(* Fetch interception. *)

FetchEnable(s) ==
  /\ s \in DOMAIN sessions
  /\ pages' = [pages EXCEPT ![sessions[s]].listeners = @ \cup {s}]
  /\ UNCHANGED <<contexts, targets, clients, work, fetches>>

\* clear_fetch_patterns: without a listener, what is paused continues.
FaultyUnlisten(page, S) ==
  IF page.listeners \subseteq S
  THEN [page EXCEPT !.listeners = {}, !.paused = {}] ELSE [page EXCEPT !.listeners = @ \ S]
Unlisten(page, S) ==
  IF page.listeners \subseteq S
  THEN [page EXCEPT !.listeners = {}, !.paused = {}, !.decided = @ \cup page.paused]
  ELSE [page EXCEPT !.listeners = @ \ S]

\* The sessions S no longer listen; the adapter forgets what their targets paused.
StopListening(S) ==
  /\ pages' = [p \in DOMAIN pages |->
                 IF S \cap SessionsOf(p) = {} THEN pages[p] ELSE Unlisten(pages[p], S)]
  /\ targets' = [p \in DOMAIN targets |->
                   IF S \cap SessionsOf(p) = {} THEN targets[p]
                   ELSE [targets[p] EXCEPT !.paused = {}]]

FetchDisable(s) ==
  /\ s \in DOMAIN sessions
  /\ StopListening({s})
  /\ UNCHANGED <<contexts, clients, work, fetches>>

\* The host asks about a request that some listener's pattern matches.
InterceptFetchRequest(r, p) ==
  /\ r \notin used /\ p \in DOMAIN targets
  /\ pages[p].listeners # {}
  /\ pages' = [pages EXCEPT ![p].paused = @ \cup {r}]
  /\ targets' = [targets EXCEPT ![p].paused = @ \cup {r}]
  /\ waiting' = [q \in DOMAIN waiting \cup {r} |-> IF q = r THEN p ELSE waiting[q]]
  /\ used' = used \cup {r}
  /\ UNCHANGED <<contexts, conns, sessions, owner, told, work, closed>>

Decide(page, r) == [page EXCEPT !.paused = @ \ {r}, !.decided = @ \cup {r}]

\* Fetch.continueRequest, fulfillRequest and failRequest of a paused request
ResolveFetch(s, r) ==
  /\ s \in DOMAIN sessions
  /\ LET p == sessions[s] IN
       /\ r \in pages[p].paused
       /\ pages' = [pages EXCEPT ![p] = Decide(@, r)]
       /\ targets' = [targets EXCEPT ![p].paused = @ \ {r}]
  /\ UNCHANGED <<contexts, clients, work, fetches>>

DrainFetchResolutions ==
  LET drained == closed \cup UNION {pages[p].decided : p \in DOMAIN targets} IN
  /\ drained # {}
  /\ pages' = [p \in DOMAIN pages |->
                 IF p \in DOMAIN targets THEN [pages[p] EXCEPT !.decided = {}] ELSE pages[p]]
  /\ closed' = {}
  /\ waiting' = Without(waiting, drained)
  /\ UNCHANGED <<contexts, targets, clients, work>>

\* The realm of page p is reset: the host gives up its requests.
CancelFetchRequests(p) ==
  LET given == {r \in DOMAIN waiting : waiting[r] = p} IN
  /\ given # {}
  /\ waiting' = Without(waiting, given)
  /\ pages' = [q \in DOMAIN pages |->
                 IF q = p THEN [pages[q] EXCEPT !.paused = @ \ given] ELSE pages[q]]
  /\ targets' = [q \in DOMAIN targets |->
                   IF q = p THEN [targets[q] EXCEPT !.paused = @ \ given] ELSE targets[q]]
  /\ UNCHANGED <<contexts, clients, work, closed>>

(* Connections and their end. *)

OpenConnection(c) ==
  /\ c \in Conns \ used
  /\ used' = used \cup {c}
  /\ conns' = [d \in DOMAIN conns \cup {c} |-> IF d = c THEN FALSE ELSE conns[d]]
  /\ told' = [d \in DOMAIN told \cup {c} |-> IF d = c THEN {} ELSE told[d]]
  /\ UNCHANGED <<contexts, pages, targets, sessions, owner, work, fetches>>

Detach(S) ==
  /\ StopListening(S)
  /\ sessions' = Without(sessions, S)
  /\ owner' = Without(owner, S)

\* cancel_host_actions_for_connection
FaultyActionsBy(c) == {}
ActionsBy(c) == {a \in DOMAIN actions : actions[a].conn = c}

CloseConnection(c) ==
  /\ c \in DOMAIN conns
  /\ Detach(SessionsBy(c))
  /\ conns' = Without(conns, {c})
  /\ told' = Without(told, {c})
  /\ Cancel(ActionsBy(c))
  /\ UNCHANGED <<contexts, used, next, handed, fetches>>

DetachFromTarget(s) ==
  /\ s \in DOMAIN sessions
  /\ Detach({s})
  /\ told' = [told EXCEPT ![owner[s]] = @ \ {s}]
  /\ Cancel({a \in DOMAIN actions : actions[a].conn = owner[s] /\ actions[a].session = s})
  /\ UNCHANGED <<contexts, conns, used, next, handed, fetches>>

(* Targets and contexts. *)

CreateTarget(p, x) ==
  /\ DOMAIN conns # {}
  /\ p \in Pages \ used /\ x \in contexts
  /\ pages' = [q \in DOMAIN pages \cup {p} |-> IF q = p THEN Page(x) ELSE pages[q]]
  /\ targets' = [q \in DOMAIN targets \cup {p} |-> IF q = p THEN Target ELSE targets[q]]
  /\ \E g \in NewSessions({c \in DOMAIN conns : conns[c]} \X {p}) :
       Attach(g) /\ used' = used \cup DOMAIN g \cup {p}
  /\ UNCHANGED <<contexts, conns, work, fetches>>

FaultyReportDetached(S) == UNCHANGED told
ReportDetached(S) == told' = [c \in DOMAIN told |-> told[c] \ S]

\* close_page and destroy_target: the state is gone before the adapter looks
\* for what to fail, and the sessions to report were collected before that.
Destroy(P) ==
  LET S == {s \in DOMAIN sessions : sessions[s] \in P} IN
  /\ pages' = Without(pages, P)
  /\ targets' = Without(targets, P)
  /\ closed' = closed \cup UNION {targets[p].paused : p \in P}
  /\ sessions' = Without(sessions, S)
  /\ owner' = Without(owner, S)
  /\ ReportDetached(S)
  /\ Cancel({a \in DOMAIN actions : actions[a].page \in P})

CloseTarget(p) ==
  /\ DOMAIN conns # {}
  /\ p \in DOMAIN targets
  /\ Destroy({p})
  /\ UNCHANGED <<contexts, conns, used, next, handed, waiting>>

CreateBrowserContext(x) ==
  /\ DOMAIN conns # {}
  /\ x \in Contexts \ used
  /\ contexts' = contexts \cup {x} /\ used' = used \cup {x}
  /\ UNCHANGED <<pages, targets, conns, sessions, owner, told, work, fetches>>

DisposeBrowserContext(x) ==
  /\ DOMAIN conns # {}
  /\ x \in contexts \ {DefaultContext}
  /\ contexts' = contexts \ {x}
  /\ Destroy({p \in DOMAIN pages : pages[p].context = x})
  /\ UNCHANGED <<conns, used, next, handed, waiting>>

\* The page goes to its next generation: later actions are about a new document.
Replaced(page) == [page EXCEPT !.generation = page.generation + 1, !.since = next]

RestoreContext(x) ==
  /\ x \in contexts
  /\ \A p \in DOMAIN pages : pages[p].context = x => pages[p].generation < MaxGeneration
  /\ pages' = [p \in DOMAIN pages |->
                 IF pages[p].context = x THEN Replaced(pages[p]) ELSE pages[p]]
  /\ UNCHANGED <<contexts, targets, clients, work, fetches>>

(* Host actions. *)

\* A navigation, reload or new content claims the next generation at once.
FaultyClaim(page, kind) == IF kind = "navigate" THEN [page EXCEPT !.since = next] ELSE page
Claim(page, kind) == IF kind = "navigate" THEN Replaced(page) ELSE page

StartAction(s, kind) ==
  /\ s \in DOMAIN sessions /\ owner[s] \in DOMAIN conns
  /\ next <= MaxAction
  /\ LET p == sessions[s]
         page == Claim(pages[p], kind)
     IN /\ pages' = [pages EXCEPT ![p] = page]
        /\ actions' = [a \in DOMAIN actions \cup {next} |->
             IF a = next THEN [kind |-> kind, page |-> p, generation |-> page.generation,
                               conn |-> owner[s], session |-> s]
             ELSE actions[a]]
  /\ ready' = ready \cup {next} /\ next' = next + 1
  /\ UNCHANGED <<contexts, targets, clients, handed, fetches>>

HandOver(a) ==
  /\ a \in ready /\ \A b \in ready : a <= b
  /\ ready' = ready \ {a} /\ handed' = handed \cup {a}
  /\ UNCHANGED <<contexts, pages, targets, clients, actions, next, fetches>>

\* action_is_live and validate_pending_action
Accepted(a) ==
  /\ a \in DOMAIN actions
  /\ LET d == actions[a] IN
       /\ d.session \in DOMAIN owner /\ owner[d.session] = d.conn
       /\ sessions[d.session] = d.page
       /\ d.page \in DOMAIN targets
       /\ d.generation = pages[d.page].generation

\* The host reports the end of an action.  Whatever its kind, a success may bring
\* the state of the document (__obscuraState), which then is what is mirrored.
CompleteAction(a, succeeds, brings) ==
  /\ a \in handed
  /\ handed' = handed \ {a}
  /\ targets' = IF succeeds /\ brings /\ Accepted(a)
                THEN [targets EXCEPT ![actions[a].page].doc = a] ELSE targets
  /\ Cancel({a})
  /\ UNCHANGED <<contexts, pages, clients, next, fetches>>

\* The host pushes a state that is no action's result; no generation is checked.
SyncTargetState(p) ==
  /\ p \in DOMAIN targets
  /\ targets' = [targets EXCEPT ![p].doc = 0]
  /\ UNCHANGED <<contexts, pages, clients, work, fetches>>

Clients(c) ==
  \/ OpenConnection(c)
  \/ CloseConnection(c)
  \/ \E p \in Pages : AttachToTarget(c, p)
  \/ \E on \in BOOLEAN : SetAutoAttach(c, on)

Commands(s) ==
  \/ FetchEnable(s)
  \/ FetchDisable(s)
  \/ \E r \in Requests : ResolveFetch(s, r)
  \/ DetachFromTarget(s)
  \/ \E kind \in {"navigate", "evaluate"} : StartAction(s, kind)

Browser ==
  \/ \E p \in Pages : CloseTarget(p)
  \/ \E p \in Pages, x \in Contexts : CreateTarget(p, x)
  \/ \E x \in Contexts : CreateBrowserContext(x) \/ DisposeBrowserContext(x)

Host ==
  \/ \E r \in Requests, p \in Pages : InterceptFetchRequest(r, p)
  \/ \E p \in Pages : CancelFetchRequests(p)
  \/ DrainFetchResolutions
  \/ \E a \in ready : HandOver(a)
  \/ \E a \in handed, succeeds, brings \in BOOLEAN : CompleteAction(a, succeeds, brings)
  \/ \E p \in Pages : SyncTargetState(p)
  \/ \E x \in Contexts : RestoreContext(x)

Next ==
  \/ \E c \in Conns : Clients(c)
  \/ \E s \in Sessions : Commands(s)
  \/ Browser
  \/ Host

Spec == Init /\ [][Next]_vars

-----------------------------------------------------------------------------

Kinds == {"navigate", "evaluate"}
PageStates(X) == [context : X, generation : Nat, since : Nat, listeners : SUBSET Sessions,
                  paused : SUBSET Requests, decided : SUBSET Requests]

TypeOK ==
  /\ DefaultContext \in contexts /\ contexts \subseteq Contexts
  /\ pages \in [DOMAIN pages -> PageStates(contexts)]
  /\ DOMAIN pages \subseteq Pages
  /\ targets \in [DOMAIN pages -> [paused : SUBSET Requests, doc : Nat]]
  /\ conns \in [DOMAIN conns -> BOOLEAN] /\ DOMAIN conns \subseteq Conns
  /\ told \in [DOMAIN conns -> SUBSET Sessions]
  /\ sessions \in [DOMAIN sessions -> DOMAIN pages] /\ DOMAIN sessions \subseteq Sessions
  /\ owner \in [DOMAIN sessions -> DOMAIN conns]
  /\ next \in Nat \ {0}
  /\ actions \in [DOMAIN actions -> [kind : Kinds, page : Pages, generation : Nat,
                                     conn : Conns, session : Sessions]]
  /\ DOMAIN actions \subseteq 1 .. next - 1
  /\ ready \subseteq DOMAIN actions
  /\ handed \subseteq 1 .. next - 1
  /\ closed \subseteq Requests
  /\ waiting \in [DOMAIN waiting -> Pages] /\ DOMAIN waiting \subseteq Requests
  /\ DOMAIN pages \cup DOMAIN conns \cup DOMAIN sessions \subseteq used
  /\ \A r \in DOMAIN waiting : waiting[r] \in used

\* Every action under way was asked for by a session that is still attached,
\* through the connection that owns it, to the page it is about: there is always
\* somebody to answer, and nothing of a session or page outlives it.
ActionsAreLive ==
  \A a \in DOMAIN actions :
    /\ actions[a].session \in DOMAIN sessions
    /\ owner[actions[a].session] = actions[a].conn
    /\ sessions[actions[a].session] = actions[a].page

\* Requests are paused only where a session listens that is attached to the
\* page, and the adapter's copy never names a request that is not paused.
PausesHaveAListener ==
  \A p \in DOMAIN pages :
    /\ pages[p].listeners \subseteq SessionsOf(p)
    /\ pages[p].paused # {} => pages[p].listeners # {}
    /\ targets[p].paused \subseteq pages[p].paused

PortableInv == TypeOK /\ ActionsAreLive /\ PausesHaveAListener

\* A request that the host waits for, of a page that is still open, is paused or
\* has a resolution on its way: whatever sessions and connections come and go
\* (state.rs:1297-1319), no request of a live page is forgotten.
RequestsAreHeld ==
  \A r \in DOMAIN waiting :
    waiting[r] \in DOMAIN pages =>
      r \in pages[waiting[r]].paused \cup pages[waiting[r]].decided

\* Each client has been told of exactly the sessions it has: every session that
\* begins is announced, and every session that ends otherwise than with its
\* connection is reported detached, however it ends (cdp.rs:1802-1838).
ClientsAreTold ==
  \A c \in DOMAIN conns : told[c] = SessionsBy(c)

\* The result of an action, of whatever kind, never reaches the mirror once the
\* page has been navigated, or its context restored, after the action was started:
\* an answer that comes back late does not bring back the document it was about,
\* whether what replaced that is under way, done, failed or cancelled
\* (state.rs:1945-1949, 2056-2062).
StaleResultsAreRefused ==
  [][\A p \in DOMAIN targets \cap DOMAIN targets' :
       targets'[p].doc \notin {targets[p].doc, 0} => targets'[p].doc >= pages[p].since]_vars
=============================================================================
