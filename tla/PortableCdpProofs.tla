-------------------------- MODULE PortableCdpProofs --------------------------
(***************************************************************************)
(* Proofs about the portable CDP core, for any sets of connections,        *)
(* sessions, pages, contexts and requests, and any number of actions.      *)
(***************************************************************************)
EXTENDS PortableCdp, TLAPS

USE DEF Kinds

\* What is left of a function when some of its domain is removed.
LEMMA WithoutIsRestriction ==
  ASSUME NEW f, NEW S
  PROVE  /\ DOMAIN Without(f, S) = DOMAIN f \ S
         /\ \A x \in DOMAIN f \ S : Without(f, S)[x] = f[x]
BY DEF Without, Restrict

\* New sessions get an unused identity each, and one of the pairs asked for.
LEMMA NewSessionsAreNew ==
  ASSUME NEW pairs, NEW g \in NewSessions(pairs)
  PROVE  /\ DOMAIN g \subseteq Sessions \ used
         /\ g \in [DOMAIN g -> pairs]
BY DEF NewSessions, Bijection, Injection, Surjection

\* What a page keeps and loses when sessions stop listening to it.
LEMMA UnlistenKeeps ==
  ASSUME NEW X, NEW page \in PageStates(X), NEW S
  PROVE  /\ Unlisten(page, S) \in PageStates(X)
         /\ Unlisten(page, S).context = page.context
         /\ Unlisten(page, S).generation = page.generation
         /\ Unlisten(page, S).since = page.since
         /\ Unlisten(page, S).listeners = page.listeners \ S
         /\ Unlisten(page, S).paused \subseteq page.paused
         /\ Unlisten(page, S).listeners = {} => Unlisten(page, S).paused = {}
         /\ Unlisten(page, S).paused \cup Unlisten(page, S).decided = page.paused \cup page.decided
BY DEF Unlisten, PageStates

\* What a page keeps when its document is replaced.
LEMMA ReplacedPage ==
  ASSUME TypeOK, NEW X, NEW page \in PageStates(X)
  PROVE  /\ Replaced(page) \in PageStates(X)
         /\ Replaced(page).context = page.context
         /\ Replaced(page).generation = page.generation + 1 /\ Replaced(page).since = next
         /\ Replaced(page).listeners = page.listeners
         /\ Replaced(page).paused = page.paused /\ Replaced(page).decided = page.decided
<1>1. next \in Nat
  BY DEF TypeOK
<1>2. PICK n \in Nat, m \in Nat : n = page.generation + 1 /\ m = next
  BY <1>1 DEF PageStates
<1>3. Replaced(page) = [page EXCEPT !.generation = n, !.since = m]
  BY <1>2 DEF Replaced
<1> QED
  BY <1>2, <1>3 DEF PageStates

-----------------------------------------------------------------------------
(* The inductive invariant is PortableInv itself. *)

LEMMA Initial == Init => PortableInv
<1> SUFFICES ASSUME Init PROVE PortableInv
  OBVIOUS
<1>1. /\ <<>> \in [{} -> BOOLEAN] /\ <<>> \in [{} -> SUBSET Sessions]
      /\ <<>> \in [{} -> {FirstPage}] /\ <<>> \in [{} -> {}] /\ <<>> \in [{} -> Pages]
      /\ DOMAIN <<>> = {}
  OBVIOUS
<1>2. Page(DefaultContext) \in PageStates({DefaultContext}) /\ Target \in [paused : SUBSET Requests, doc : Nat]
  BY DEF Page, PageStates, Target
<1>3. /\ DOMAIN pages = {FirstPage} /\ pages \in [{FirstPage} -> PageStates({DefaultContext})]
      /\ targets \in [{FirstPage} -> [paused : SUBSET Requests, doc : Nat]]
  BY <1>2 DEF Init
<1>4. /\ conns \in [DOMAIN conns -> BOOLEAN] /\ told \in [DOMAIN conns -> SUBSET Sessions]
      /\ sessions \in [DOMAIN sessions -> DOMAIN pages] /\ owner \in [DOMAIN sessions -> DOMAIN conns]
      /\ waiting \in [DOMAIN waiting -> Pages]
      /\ DOMAIN conns = {} /\ DOMAIN sessions = {} /\ DOMAIN actions = {} /\ DOMAIN waiting = {}
  BY <1>1, <1>3 DEF Init
<1>5. actions \in [DOMAIN actions -> [kind : Kinds, page : Pages, generation : Nat,
                                     conn : Conns, session : Sessions]]
  BY DEF Init
<1>6. TypeOK
  BY <1>3, <1>4, <1>5, PortableAssumption DEF Init, TypeOK
<1>7. ActionsAreLive
  BY <1>4 DEF ActionsAreLive
<1>8. pages[FirstPage].listeners = {} /\ pages[FirstPage].paused = {} /\ targets[FirstPage].paused = {}
  BY DEF Init, Page, Target
<1>9. PausesHaveAListener
  BY <1>3, <1>8 DEF PausesHaveAListener
<1> QED
  BY <1>6, <1>7, <1>9 DEF PortableInv

\* New sessions, whoever gets them: also when pages appear with them.
LEMMA Attaching ==
  ASSUME PortableInv, NEW pairs \in SUBSET ((DOMAIN conns) \X (DOMAIN pages')),
         NEW g \in NewSessions(pairs), Attach(g), DOMAIN pages \subseteq DOMAIN pages'
  PROVE  /\ sessions' \in [DOMAIN sessions' -> DOMAIN pages']
         /\ DOMAIN sessions' = DOMAIN sessions \cup DOMAIN g
         /\ DOMAIN sessions' \subseteq Sessions
         /\ owner' \in [DOMAIN sessions' -> DOMAIN conns]
         /\ told' \in [DOMAIN conns -> SUBSET Sessions]
         /\ \A s \in DOMAIN sessions : /\ s \notin DOMAIN g
                                        /\ sessions'[s] = sessions[s] /\ owner'[s] = owner[s]
<1> USE DEF PortableInv, TypeOK
<1>1. /\ DOMAIN g \subseteq Sessions \ used
      /\ \A s \in DOMAIN g : g[s] \in (DOMAIN conns) \X (DOMAIN pages')
  BY NewSessionsAreNew
<1>2. /\ \A s \in DOMAIN g : g[s][1] \in DOMAIN conns /\ g[s][2] \in DOMAIN pages'
      /\ \A s \in DOMAIN sessions : s \notin DOMAIN g
  BY <1>1
<1>3. /\ DOMAIN sessions' = DOMAIN sessions \cup DOMAIN g
      /\ DOMAIN owner' = DOMAIN sessions \cup DOMAIN g
      /\ \A s \in DOMAIN g : sessions'[s] = g[s][2] /\ owner'[s] = g[s][1]
      /\ \A s \in DOMAIN sessions : sessions'[s] = sessions[s] /\ owner'[s] = owner[s]
  BY <1>2 DEF Attach
<1>4. sessions' \in [DOMAIN sessions' -> DOMAIN pages'] /\ owner' \in [DOMAIN sessions' -> DOMAIN conns]
  BY <1>2, <1>3 DEF Attach
<1>5. told' \in [DOMAIN conns -> SUBSET Sessions]
  BY <1>1 DEF Attach
<1> QED
  BY <1>1, <1>2, <1>3, <1>4, <1>5

\* Nothing else changes in a step that only attaches.
LEMMA AttachedKeeps ==
  ASSUME PortableInv, NEW pairs \in SUBSET ((DOMAIN conns) \X (DOMAIN pages)),
         NEW g \in NewSessions(pairs), Attach(g), used' = used \cup DOMAIN g,
         conns' \in [DOMAIN conns -> BOOLEAN],
         UNCHANGED <<contexts, pages, targets, work, fetches>>
  PROVE  PortableInv'
<1>1. /\ sessions' \in [DOMAIN sessions' -> DOMAIN pages']
      /\ DOMAIN sessions' = DOMAIN sessions \cup DOMAIN g
      /\ DOMAIN sessions' \subseteq Sessions
      /\ owner' \in [DOMAIN sessions' -> DOMAIN conns]
      /\ told' \in [DOMAIN conns -> SUBSET Sessions]
      /\ \A s \in DOMAIN sessions : sessions'[s] = sessions[s] /\ owner'[s] = owner[s]
  BY Attaching
<1>2. TypeOK'
  BY <1>1 DEF PortableInv, TypeOK, work, fetches
<1>3. ActionsAreLive'
  BY <1>1 DEF PortableInv, ActionsAreLive, work
<1>4. PausesHaveAListener'
  BY <1>1 DEF PortableInv, PausesHaveAListener, SessionsOf, TypeOK
<1> QED
  BY <1>2, <1>3, <1>4 DEF PortableInv

LEMMA AttachToTargetKeeps ==
  ASSUME PortableInv, NEW c, NEW p, AttachToTarget(c, p)
  PROVE  PortableInv'
<1>1. PICK g \in NewSessions({<<c, p>>}) : Attach(g) /\ used' = used \cup DOMAIN g
  BY DEF AttachToTarget
<1>2. /\ c \in DOMAIN conns /\ p \in DOMAIN targets
      /\ UNCHANGED <<contexts, pages, targets, conns, work, fetches>>
  BY DEF AttachToTarget
<1>3. /\ {<<c, p>>} \in SUBSET ((DOMAIN conns) \X (DOMAIN pages))
      /\ conns' \in [DOMAIN conns -> BOOLEAN]
  BY <1>2 DEF PortableInv, TypeOK
<1> QED
  BY <1>1, <1>2, <1>3, AttachedKeeps

LEMMA SetAutoAttachKeeps ==
  ASSUME PortableInv, NEW c, NEW on \in BOOLEAN, SetAutoAttach(c, on)
  PROVE  PortableInv'
<1> DEFINE attached == {sessions[s] : s \in SessionsBy(c)}
           pairs == IF on THEN {c} \X (DOMAIN targets \ attached) ELSE {}
<1>1. PICK g \in NewSessions(pairs) : Attach(g) /\ used' = used \cup DOMAIN g
  BY DEF SetAutoAttach
<1>2. /\ c \in DOMAIN conns /\ conns' = [conns EXCEPT ![c] = on]
      /\ UNCHANGED <<contexts, pages, targets, work, fetches>>
  BY DEF SetAutoAttach
<1>3. conns' \in [DOMAIN conns -> BOOLEAN] /\ DOMAIN targets = DOMAIN pages
  BY <1>2 DEF PortableInv, TypeOK
<1>4. pairs \in SUBSET ((DOMAIN conns) \X (DOMAIN pages))
  BY <1>2, <1>3
<1> HIDE DEF pairs
<1> QED
  BY <1>1, <1>2, <1>3, <1>4, AttachedKeeps

-----------------------------------------------------------------------------
(* Interception. *)

LEMMA FetchEnableKeeps ==
  ASSUME PortableInv, NEW s, FetchEnable(s)
  PROVE  PortableInv'
<1> USE DEF PortableInv
<1>1. /\ s \in DOMAIN sessions /\ sessions[s] \in DOMAIN pages /\ s \in Sessions
      /\ pages' = [pages EXCEPT ![sessions[s]].listeners = @ \cup {s}]
      /\ UNCHANGED <<contexts, targets, clients, work, fetches>>
  BY DEF FetchEnable, TypeOK
<1>2. /\ DOMAIN pages' = DOMAIN pages /\ pages' \in [DOMAIN pages -> PageStates(contexts)]
      /\ \A p \in DOMAIN pages :
           /\ pages'[p].paused = pages[p].paused
           /\ pages'[p].listeners = pages[p].listeners \cup (IF p = sessions[s] THEN {s} ELSE {})
  BY <1>1 DEF TypeOK, PageStates
<1>3. TypeOK'
  BY <1>1, <1>2 DEF TypeOK, clients, work, fetches
<1>4. ActionsAreLive'
  BY <1>1 DEF ActionsAreLive, clients, work
<1>5. \A p \in DOMAIN pages : SessionsOf(p)' = SessionsOf(p)
  BY <1>1 DEF SessionsOf, clients
<1>6. s \in SessionsOf(sessions[s])
  BY <1>1 DEF SessionsOf
<1>7. PausesHaveAListener'
  BY <1>1, <1>2, <1>5, <1>6 DEF PausesHaveAListener
<1> QED
  BY <1>3, <1>4, <1>7

\* What a page and its target keep when sessions stop listening.
LEMMA StopListeningKeeps ==
  ASSUME PortableInv, NEW S, StopListening(S)
  PROVE  /\ pages' \in [DOMAIN pages -> PageStates(contexts)]
         /\ targets' \in [DOMAIN pages -> [paused : SUBSET Requests, doc : Nat]]
         /\ \A p \in DOMAIN pages :
              /\ pages'[p].context = pages[p].context
              /\ pages'[p].generation = pages[p].generation
              /\ pages'[p].since = pages[p].since
              /\ pages'[p].listeners = pages[p].listeners \ S
              /\ pages'[p].paused # {} => pages'[p].listeners # {}
              /\ pages'[p].paused \cup pages'[p].decided = pages[p].paused \cup pages[p].decided
              /\ targets'[p].paused \subseteq pages'[p].paused
              /\ targets'[p].doc = targets[p].doc
<1> USE DEF PortableInv
<1>1. /\ pages' = [p \in DOMAIN pages |->
                 IF S \cap SessionsOf(p) = {} THEN pages[p] ELSE Unlisten(pages[p], S)]
      /\ targets' = [p \in DOMAIN pages |->
                 IF S \cap SessionsOf(p) = {} THEN targets[p] ELSE [targets[p] EXCEPT !.paused = {}]]
  BY DEF StopListening, TypeOK
<1>2. SUFFICES ASSUME NEW p \in DOMAIN pages
               PROVE  /\ pages'[p] \in PageStates(contexts)
                      /\ targets'[p] \in [paused : SUBSET Requests, doc : Nat]
                      /\ pages'[p].context = pages[p].context
                      /\ pages'[p].generation = pages[p].generation
                      /\ pages'[p].since = pages[p].since
                      /\ pages'[p].listeners = pages[p].listeners \ S
                      /\ pages'[p].paused # {} => pages'[p].listeners # {}
                      /\ pages'[p].paused \cup pages'[p].decided = pages[p].paused \cup pages[p].decided
                      /\ targets'[p].paused \subseteq pages'[p].paused
                      /\ targets'[p].doc = targets[p].doc
  BY <1>1
<1>3. /\ pages[p] \in PageStates(contexts) /\ targets[p] \in [paused : SUBSET Requests, doc : Nat]
      /\ pages[p].listeners \subseteq SessionsOf(p)
      /\ pages[p].paused # {} => pages[p].listeners # {}
      /\ targets[p].paused \subseteq pages[p].paused
  BY DEF TypeOK, PausesHaveAListener
<1>4. CASE S \cap SessionsOf(p) = {}
  BY <1>1, <1>3, <1>4
<1>5. CASE S \cap SessionsOf(p) # {}
  <2>1. pages'[p] = Unlisten(pages[p], S) /\ targets'[p] = [targets[p] EXCEPT !.paused = {}]
    BY <1>1, <1>5
  <2> QED
    BY <1>3, <2>1, UnlistenKeeps
<1> QED
  BY <1>4, <1>5

LEMMA FetchDisableKeeps ==
  ASSUME PortableInv, NEW s, FetchDisable(s)
  PROVE  PortableInv'
<1> USE DEF PortableInv
<1>1. /\ s \in DOMAIN sessions /\ StopListening({s})
      /\ UNCHANGED <<contexts, clients, work, fetches>>
  BY DEF FetchDisable
<1>2. /\ pages' \in [DOMAIN pages -> PageStates(contexts)] /\ DOMAIN pages' = DOMAIN pages
      /\ targets' \in [DOMAIN pages -> [paused : SUBSET Requests, doc : Nat]]
      /\ \A p \in DOMAIN pages :
           /\ pages'[p].listeners \subseteq pages[p].listeners
           /\ pages'[p].paused # {} => pages'[p].listeners # {}
           /\ targets'[p].paused \subseteq pages'[p].paused
  BY <1>1, StopListeningKeeps
<1>3. TypeOK'
  BY <1>1, <1>2 DEF TypeOK, clients, work, fetches
<1>4. ActionsAreLive'
  BY <1>1 DEF ActionsAreLive, clients, work
<1>5. PausesHaveAListener'
  BY <1>1, <1>2 DEF PausesHaveAListener, SessionsOf, clients
<1> QED
  BY <1>3, <1>4, <1>5

LEMMA InterceptKeeps ==
  ASSUME PortableInv, NEW r \in Requests, NEW p, InterceptFetchRequest(r, p)
  PROVE  PortableInv'
<1> USE DEF PortableInv
<1>1. /\ r \notin used /\ p \in DOMAIN pages /\ DOMAIN targets = DOMAIN pages
      /\ pages[p].listeners # {}
      /\ pages' = [pages EXCEPT ![p].paused = @ \cup {r}]
      /\ targets' = [targets EXCEPT ![p].paused = @ \cup {r}]
      /\ waiting' = [q \in DOMAIN waiting \cup {r} |-> IF q = r THEN p ELSE waiting[q]]
      /\ used' = used \cup {r}
      /\ UNCHANGED <<contexts, conns, sessions, owner, told, work, closed>>
  BY DEF InterceptFetchRequest, TypeOK
<1>2. /\ DOMAIN pages' = DOMAIN pages /\ pages' \in [DOMAIN pages -> PageStates(contexts)]
      /\ \A q \in DOMAIN pages :
           /\ pages'[q].paused = pages[q].paused \cup (IF q = p THEN {r} ELSE {})
           /\ pages'[q].listeners = pages[q].listeners
  BY <1>1 DEF TypeOK, PageStates
<1>3. /\ targets' \in [DOMAIN pages -> [paused : SUBSET Requests, doc : Nat]]
      /\ \A q \in DOMAIN pages :
           targets'[q].paused = targets[q].paused \cup (IF q = p THEN {r} ELSE {})
  BY <1>1 DEF TypeOK
<1>4. /\ waiting' \in [DOMAIN waiting' -> Pages] /\ DOMAIN waiting' \subseteq Requests
      /\ \A q \in DOMAIN waiting' : waiting'[q] \in used
  BY <1>1 DEF TypeOK
<1>5. TypeOK'
  BY <1>1, <1>2, <1>3, <1>4 DEF TypeOK, work
<1>6. ActionsAreLive'
  BY <1>1 DEF ActionsAreLive, work
<1>7. PausesHaveAListener'
  BY <1>1, <1>2, <1>3 DEF PausesHaveAListener, SessionsOf
<1> QED
  BY <1>5, <1>6, <1>7

LEMMA DecideKeeps ==
  ASSUME NEW X, NEW page \in PageStates(X), NEW r \in Requests
  PROVE  /\ Decide(page, r) \in PageStates(X)
         /\ Decide(page, r).listeners = page.listeners
         /\ Decide(page, r).paused = page.paused \ {r}
         /\ Decide(page, r).decided = page.decided \cup {r}
         /\ Decide(page, r).generation = page.generation
         /\ Decide(page, r).since = page.since
BY DEF Decide, PageStates

LEMMA ResolveFetchKeeps ==
  ASSUME PortableInv, NEW s, NEW r \in Requests, ResolveFetch(s, r)
  PROVE  PortableInv'
<1> USE DEF PortableInv
<1> DEFINE p == sessions[s]
<1>1. /\ p \in DOMAIN pages /\ r \in pages[p].paused /\ DOMAIN targets = DOMAIN pages
      /\ pages' = [pages EXCEPT ![p] = Decide(@, r)]
      /\ targets' = [targets EXCEPT ![p].paused = @ \ {r}]
      /\ UNCHANGED <<contexts, clients, work, fetches>>
  BY DEF ResolveFetch, TypeOK
<1> HIDE DEF p
<1>0. /\ Decide(pages[p], r) \in PageStates(contexts)
      /\ Decide(pages[p], r).paused = pages[p].paused \ {r}
      /\ Decide(pages[p], r).listeners = pages[p].listeners
  BY <1>1, DecideKeeps DEF TypeOK
<1>2. /\ DOMAIN pages' = DOMAIN pages /\ pages' \in [DOMAIN pages -> PageStates(contexts)]
      /\ \A q \in DOMAIN pages :
           /\ pages'[q].paused = IF q = p THEN pages[q].paused \ {r} ELSE pages[q].paused
           /\ pages'[q].listeners = pages[q].listeners
  BY <1>0, <1>1 DEF TypeOK
<1>3. /\ targets' \in [DOMAIN pages -> [paused : SUBSET Requests, doc : Nat]]
      /\ \A q \in DOMAIN pages :
           targets'[q].paused = IF q = p THEN targets[q].paused \ {r} ELSE targets[q].paused
  BY <1>1 DEF TypeOK
<1>4. TypeOK'
  BY <1>1, <1>2, <1>3 DEF TypeOK, clients, work, fetches
<1>5. ActionsAreLive'
  BY <1>1 DEF ActionsAreLive, clients, work
<1>6. \A q \in DOMAIN pages : SessionsOf(q)' = SessionsOf(q)
  BY <1>1 DEF SessionsOf, clients
<1>7. PausesHaveAListener'
  <2> SUFFICES ASSUME NEW q \in DOMAIN pages
               PROVE  /\ pages'[q].listeners \subseteq SessionsOf(q)'
                      /\ pages'[q].paused # {} => pages'[q].listeners # {}
                      /\ targets'[q].paused \subseteq pages'[q].paused
    BY <1>2 DEF PausesHaveAListener
  <2> QED
    BY <1>2, <1>3, <1>6 DEF PausesHaveAListener
<1> QED
  BY <1>4, <1>5, <1>7

LEMMA DrainKeeps ==
  ASSUME PortableInv, DrainFetchResolutions
  PROVE  PortableInv'
<1> USE DEF PortableInv
<1> DEFINE drained == closed \cup UNION {pages[p].decided : p \in DOMAIN targets}
<1>1. /\ pages' = [p \in DOMAIN pages |->
                 IF p \in DOMAIN targets THEN [pages[p] EXCEPT !.decided = {}] ELSE pages[p]]
      /\ closed' = {}
      /\ waiting' = Without(waiting, drained)
      /\ UNCHANGED <<contexts, targets, clients, work>>
  BY DEF DrainFetchResolutions
<1> HIDE DEF drained
<1>2. /\ DOMAIN pages' = DOMAIN pages /\ pages' \in [DOMAIN pages -> PageStates(contexts)]
      /\ \A q \in DOMAIN pages :
           /\ pages'[q].paused = pages[q].paused
           /\ pages'[q].listeners = pages[q].listeners
  BY <1>1 DEF TypeOK, PageStates
<1>3. /\ DOMAIN waiting' \subseteq DOMAIN waiting
      /\ waiting' \in [DOMAIN waiting' -> Pages]
      /\ \A q \in DOMAIN waiting' : waiting'[q] = waiting[q]
  BY <1>1 DEF TypeOK, Without, Restrict
<1>4. TypeOK'
  BY <1>1, <1>2, <1>3 DEF TypeOK, clients, work
<1>5. ActionsAreLive'
  BY <1>1 DEF ActionsAreLive, clients, work
<1>6. \A q \in DOMAIN pages : SessionsOf(q)' = SessionsOf(q)
  BY <1>1 DEF SessionsOf, clients
<1>7. PausesHaveAListener'
  BY <1>1, <1>2, <1>6 DEF PausesHaveAListener
<1> QED
  BY <1>4, <1>5, <1>7

LEMMA CancelFetchKeeps ==
  ASSUME PortableInv, NEW p, CancelFetchRequests(p)
  PROVE  PortableInv'
<1> USE DEF PortableInv
<1> DEFINE given == {r \in DOMAIN waiting : waiting[r] = p}
<1>1. /\ waiting' = Without(waiting, given)
      /\ pages' = [q \in DOMAIN pages |->
                     IF q = p THEN [pages[q] EXCEPT !.paused = @ \ given] ELSE pages[q]]
      /\ targets' = [q \in DOMAIN pages |->
                       IF q = p THEN [targets[q] EXCEPT !.paused = @ \ given] ELSE targets[q]]
      /\ UNCHANGED <<contexts, clients, work, closed>>
  BY DEF CancelFetchRequests, TypeOK
<1> HIDE DEF given
<1>2. /\ DOMAIN pages' = DOMAIN pages /\ pages' \in [DOMAIN pages -> PageStates(contexts)]
      /\ \A q \in DOMAIN pages :
           /\ pages'[q].paused = IF q = p THEN pages[q].paused \ given ELSE pages[q].paused
           /\ pages'[q].listeners = pages[q].listeners
  <2>1. pages \in [DOMAIN pages -> PageStates(contexts)] BY DEF TypeOK
  <2>2. ASSUME NEW s \in PageStates(contexts)
        PROVE  LET f == [s EXCEPT !.paused = @ \ given]
               IN  f \in PageStates(contexts) /\ f.paused = s.paused \ given
                     /\ f.listeners = s.listeners
    BY DEF PageStates
  <2>3. DOMAIN pages' = DOMAIN pages BY <1>1
  <2>4. ASSUME NEW q \in DOMAIN pages
        PROVE  /\ pages'[q] \in PageStates(contexts)
               /\ pages'[q].paused = IF q = p THEN pages[q].paused \ given ELSE pages[q].paused
               /\ pages'[q].listeners = pages[q].listeners
    <3> HIDE DEF PortableInv
    <3>1. pages[q] \in PageStates(contexts) BY <2>1
    <3>2. CASE q = p BY <1>1, <2>2, <3>1, <3>2
    <3>3. CASE q # p BY <1>1, <3>1, <3>3
    <3> QED BY <3>2, <3>3
  <2> HIDE DEF PortableInv
  <2>5. pages' \in [DOMAIN pages -> PageStates(contexts)] BY <1>1, <2>3, <2>4
  <2> QED BY <2>3, <2>4, <2>5
<1>3. /\ targets' \in [DOMAIN pages -> [paused : SUBSET Requests, doc : Nat]]
      /\ \A q \in DOMAIN pages :
           targets'[q].paused = IF q = p THEN targets[q].paused \ given ELSE targets[q].paused
  BY <1>1 DEF TypeOK
<1>4. /\ DOMAIN waiting' \subseteq DOMAIN waiting
      /\ waiting' \in [DOMAIN waiting' -> Pages]
      /\ \A q \in DOMAIN waiting' : waiting'[q] = waiting[q]
  BY <1>1 DEF TypeOK, Without, Restrict
<1>5. TypeOK'
  BY <1>1, <1>2, <1>3, <1>4 DEF TypeOK, clients, work
<1>6. ActionsAreLive'
  BY <1>1 DEF ActionsAreLive, clients, work
<1>7. \A q \in DOMAIN pages : SessionsOf(q)' = SessionsOf(q)
  BY <1>1 DEF SessionsOf, clients
<1>8. PausesHaveAListener'
  BY <1>1, <1>2, <1>3, <1>7 DEF PausesHaveAListener
<1> QED
  BY <1>5, <1>6, <1>8

-----------------------------------------------------------------------------
(* Connections, sessions and pages that end. *)

LEMMA OpenConnectionKeeps ==
  ASSUME PortableInv, NEW c, OpenConnection(c)
  PROVE  PortableInv'
<1> USE DEF PortableInv
<1>1. /\ c \in Conns \ used
      /\ used' = used \cup {c}
      /\ conns' = [d \in DOMAIN conns \cup {c} |-> IF d = c THEN FALSE ELSE conns[d]]
      /\ told' = [d \in DOMAIN conns \cup {c} |-> IF d = c THEN {} ELSE told[d]]
      /\ UNCHANGED <<contexts, pages, targets, sessions, owner, work, fetches>>
  BY DEF OpenConnection, TypeOK
<1>2. /\ DOMAIN conns' = DOMAIN conns \cup {c}
      /\ conns' \in [DOMAIN conns' -> BOOLEAN]
      /\ told' \in [DOMAIN conns' -> SUBSET Sessions]
  BY <1>1 DEF TypeOK
<1>3. TypeOK'
  BY <1>1, <1>2 DEF TypeOK, work, fetches
<1>4. ActionsAreLive'
  BY <1>1 DEF ActionsAreLive, work
<1>5. PausesHaveAListener'
  BY <1>1 DEF PausesHaveAListener, SessionsOf
<1> QED
  BY <1>3, <1>4, <1>5

Action == [kind : Kinds, page : Pages, generation : Nat, conn : Conns, session : Sessions]

LEMMA CancelKeeps ==
  ASSUME TypeOK, NEW A, Cancel(A)
  PROVE  /\ DOMAIN actions' = DOMAIN actions \ A
         /\ actions' \in [DOMAIN actions' -> Action]
         /\ \A a \in DOMAIN actions' : actions'[a] = actions[a]
         /\ ready' \subseteq DOMAIN actions'
<1>1. actions' = Without(actions, A) /\ ready' = ready \ A
  BY DEF Cancel
<1>2. /\ DOMAIN actions' = DOMAIN actions \ A
      /\ \A a \in DOMAIN actions' : actions'[a] = actions[a]
  BY <1>1 DEF Without, Restrict
<1>3. actions \in [DOMAIN actions -> Action]
  BY DEF TypeOK, Action
<1>4. actions' \in [DOMAIN actions' -> Action]
  BY <1>1, <1>2, <1>3 DEF Without, Restrict
<1>5. ready' \subseteq DOMAIN actions'
  BY <1>1, <1>2 DEF TypeOK
<1> QED
  BY <1>2, <1>4, <1>5

\* Sessions end: the rest keep their page and connection.
LEMMA SessionsEnd ==
  ASSUME TypeOK, NEW S, sessions' = Without(sessions, S), owner' = Without(owner, S)
  PROVE  /\ DOMAIN sessions' = DOMAIN sessions \ S
         /\ DOMAIN owner' = DOMAIN sessions \ S
         /\ sessions' \in [DOMAIN sessions' -> DOMAIN pages]
         /\ owner' \in [DOMAIN sessions' -> DOMAIN conns]
         /\ \A s \in DOMAIN sessions' : sessions'[s] = sessions[s] /\ owner'[s] = owner[s]
<1>1. /\ sessions \in [DOMAIN sessions -> DOMAIN pages]
      /\ owner \in [DOMAIN sessions -> DOMAIN conns]
  BY DEF TypeOK
<1> QED
  BY <1>1 DEF Without, Restrict

\* A connection closes or a session detaches: what remains is consistent, when
\* the actions of the sessions that end are cancelled.
LEMMA DetachKeeps ==
  ASSUME PortableInv, NEW S, NEW A, Detach(S), Cancel(A),
         conns' \in [DOMAIN conns' -> BOOLEAN], DOMAIN conns' \subseteq DOMAIN conns,
         told' \in [DOMAIN conns' -> SUBSET Sessions],
         \A s \in DOMAIN sessions \ S : owner[s] \in DOMAIN conns',
         \A a \in DOMAIN actions : actions[a].session \in S => a \in A,
         UNCHANGED <<contexts, used, next, handed, fetches>>
  PROVE  PortableInv'
<1> USE DEF PortableInv
<1>1. /\ DOMAIN sessions' = DOMAIN sessions \ S
      /\ DOMAIN owner' = DOMAIN sessions \ S
      /\ sessions' \in [DOMAIN sessions' -> DOMAIN pages]
      /\ \A s \in DOMAIN sessions' : sessions'[s] = sessions[s] /\ owner'[s] = owner[s]
      /\ owner' \in [DOMAIN sessions' -> DOMAIN conns]
  BY SessionsEnd DEF Detach
<1>2. owner' \in [DOMAIN sessions' -> DOMAIN conns']
  BY <1>1
<1>3. /\ pages' \in [DOMAIN pages -> PageStates(contexts)] /\ DOMAIN pages' = DOMAIN pages
      /\ targets' \in [DOMAIN pages -> [paused : SUBSET Requests, doc : Nat]]
      /\ \A p \in DOMAIN pages :
           /\ pages'[p].listeners = pages[p].listeners \ S
           /\ pages'[p].paused # {} => pages'[p].listeners # {}
           /\ targets'[p].paused \subseteq pages'[p].paused
  BY StopListeningKeeps DEF Detach
<1>4. /\ DOMAIN actions' = DOMAIN actions \ A
      /\ actions' \in [DOMAIN actions' -> Action]
      /\ \A a \in DOMAIN actions' : actions'[a] = actions[a]
      /\ ready' \subseteq DOMAIN actions'
  BY CancelKeeps
<1>5. TypeOK'
  BY <1>1, <1>2, <1>3, <1>4 DEF TypeOK, fetches, Action
<1>6. ActionsAreLive'
  BY <1>1, <1>4 DEF ActionsAreLive
<1>7. \A p \in DOMAIN pages : SessionsOf(p)' = SessionsOf(p) \ S
  BY <1>1 DEF SessionsOf
<1>8. PausesHaveAListener'
  BY <1>3, <1>7 DEF PausesHaveAListener
<1> QED
  BY <1>5, <1>6, <1>8

LEMMA CloseConnectionKeeps ==
  ASSUME PortableInv, NEW c, CloseConnection(c)
  PROVE  PortableInv'
<1> USE DEF PortableInv
<1>1. /\ c \in DOMAIN conns /\ Detach(SessionsBy(c)) /\ Cancel(ActionsBy(c))
      /\ conns' = Without(conns, {c}) /\ told' = Without(told, {c})
      /\ UNCHANGED <<contexts, used, next, handed, fetches>>
  BY DEF CloseConnection
<1>2. /\ DOMAIN conns' = DOMAIN conns \ {c}
      /\ conns' \in [DOMAIN conns' -> BOOLEAN]
      /\ told' \in [DOMAIN conns' -> SUBSET Sessions]
  BY <1>1 DEF TypeOK, Without, Restrict
<1>3. \A s \in DOMAIN sessions \ SessionsBy(c) : owner[s] \in DOMAIN conns'
  BY <1>2 DEF TypeOK, SessionsBy
<1>4. \A a \in DOMAIN actions : actions[a].session \in SessionsBy(c) => a \in ActionsBy(c)
  BY DEF ActionsAreLive, SessionsBy, ActionsBy
<1> QED
  BY <1>1, <1>2, <1>3, <1>4, DetachKeeps

LEMMA DetachFromTargetKeeps ==
  ASSUME PortableInv, NEW s, DetachFromTarget(s)
  PROVE  PortableInv'
<1> USE DEF PortableInv
<1> DEFINE A == {a \in DOMAIN actions : actions[a].conn = owner[s] /\ actions[a].session = s}
<1>1. /\ s \in DOMAIN sessions /\ Detach({s}) /\ Cancel(A)
      /\ told' = [told EXCEPT ![owner[s]] = @ \ {s}]
      /\ UNCHANGED <<contexts, conns, used, next, handed, fetches>>
  BY DEF DetachFromTarget
<1>2. /\ conns' \in [DOMAIN conns' -> BOOLEAN] /\ DOMAIN conns' = DOMAIN conns
      /\ told' \in [DOMAIN conns' -> SUBSET Sessions]
  BY <1>1 DEF TypeOK
<1>3. \A t \in DOMAIN sessions \ {s} : owner[t] \in DOMAIN conns'
  BY <1>2 DEF TypeOK
<1>4. \A a \in DOMAIN actions : actions[a].session \in {s} => a \in A
  BY DEF ActionsAreLive
<1> HIDE DEF A
<1> QED
  BY <1>1, <1>2, <1>3, <1>4, DetachKeeps

LEMMA CreateTargetKeeps ==
  ASSUME PortableInv, NEW p, NEW x, CreateTarget(p, x)
  PROVE  PortableInv'
<1> USE DEF PortableInv
<1> DEFINE pairs == {c \in DOMAIN conns : conns[c]} \X {p}
<1>1. /\ p \in Pages \ used /\ x \in contexts
      /\ pages' = [q \in DOMAIN pages \cup {p} |-> IF q = p THEN Page(x) ELSE pages[q]]
      /\ targets' = [q \in DOMAIN pages \cup {p} |-> IF q = p THEN Target ELSE targets[q]]
      /\ UNCHANGED <<contexts, conns, work, fetches>>
  BY DEF CreateTarget, TypeOK
<1>2. PICK g \in NewSessions(pairs) : Attach(g) /\ used' = used \cup DOMAIN g \cup {p}
  BY DEF CreateTarget
<1>3. /\ DOMAIN pages' = DOMAIN pages \cup {p} /\ p \notin DOMAIN pages
      /\ DOMAIN pages \subseteq DOMAIN pages'
  BY <1>1 DEF TypeOK
<1>4. pairs \in SUBSET ((DOMAIN conns) \X (DOMAIN pages'))
  BY <1>3
<1> HIDE DEF pairs
<1>5. /\ sessions' \in [DOMAIN sessions' -> DOMAIN pages']
      /\ DOMAIN sessions' = DOMAIN sessions \cup DOMAIN g
      /\ DOMAIN sessions' \subseteq Sessions
      /\ owner' \in [DOMAIN sessions' -> DOMAIN conns]
      /\ told' \in [DOMAIN conns -> SUBSET Sessions]
      /\ \A s \in DOMAIN sessions : sessions'[s] = sessions[s] /\ owner'[s] = owner[s]
  BY <1>2, <1>3, <1>4, Attaching
<1>6. Page(x) \in PageStates(contexts) /\ Page(x).listeners = {} /\ Page(x).paused = {}
  BY <1>1 DEF Page, PageStates
<1>7. Target \in [paused : SUBSET Requests, doc : Nat] /\ Target.paused = {}
  BY DEF Target
<1>8. /\ pages' \in [DOMAIN pages' -> PageStates(contexts)]
      /\ targets' \in [DOMAIN pages' -> [paused : SUBSET Requests, doc : Nat]]
  BY <1>1, <1>3, <1>6, <1>7 DEF TypeOK
<1>9. TypeOK'
  BY <1>1, <1>2, <1>3, <1>5, <1>8 DEF TypeOK, work, fetches
<1>10. ActionsAreLive'
  BY <1>1, <1>5 DEF ActionsAreLive, work
<1>11. \A q \in DOMAIN pages : SessionsOf(q) \subseteq SessionsOf(q)'
  BY <1>5 DEF SessionsOf
<1>12. PausesHaveAListener'
  <2> SUFFICES ASSUME NEW q \in DOMAIN pages'
               PROVE  /\ pages'[q].listeners \subseteq SessionsOf(q)'
                      /\ pages'[q].paused # {} => pages'[q].listeners # {}
                      /\ targets'[q].paused \subseteq pages'[q].paused
    BY DEF PausesHaveAListener
  <2>1. CASE q = p
    BY <2>1, <1>1, <1>3, <1>6, <1>7
  <2>2. CASE q # p
    <3>1. q \in DOMAIN pages /\ pages'[q] = pages[q] /\ targets'[q] = targets[q]
      BY <2>2, <1>1, <1>3
    <3> QED
      BY <3>1, <1>11 DEF PausesHaveAListener
  <2> QED
    BY <2>1, <2>2
<1> QED
  BY <1>9, <1>10, <1>12

\* Pages end with their sessions and with every action about them.
LEMMA DestroyKeeps ==
  ASSUME PortableInv, NEW P \in SUBSET (DOMAIN pages), Destroy(P),
         DefaultContext \in contexts', contexts' \subseteq Contexts,
         \A p \in DOMAIN pages \ P : pages[p].context \in contexts',
         UNCHANGED <<conns, used, next, handed, waiting>>
  PROVE  PortableInv'
<1> USE DEF PortableInv
<1> DEFINE S == {s \in DOMAIN sessions : sessions[s] \in P}
           A == {a \in DOMAIN actions : actions[a].page \in P}
<1>1. /\ pages' = Without(pages, P) /\ targets' = Without(targets, P)
      /\ closed' = closed \cup UNION {targets[p].paused : p \in P}
      /\ sessions' = Without(sessions, S) /\ owner' = Without(owner, S)
      /\ told' = [c \in DOMAIN told |-> told[c] \ S]
      /\ Cancel(A)
  BY DEF Destroy, ReportDetached
<1>2. \A s \in DOMAIN sessions : s \in S <=> sessions[s] \in P
  OBVIOUS
<1>3. \A a \in DOMAIN actions : actions[a].page \in P => a \in A
  OBVIOUS
<1> HIDE DEF S, A
<1>4. /\ DOMAIN sessions' = DOMAIN sessions \ S
      /\ sessions' \in [DOMAIN sessions' -> DOMAIN pages]
      /\ owner' \in [DOMAIN sessions' -> DOMAIN conns]
      /\ \A s \in DOMAIN sessions' : sessions'[s] = sessions[s] /\ owner'[s] = owner[s]
  BY <1>1, SessionsEnd
<1>5. /\ DOMAIN pages' = DOMAIN pages \ P
      /\ \A p \in DOMAIN pages' : pages'[p] = pages[p] /\ targets'[p] = targets[p]
      /\ pages' \in [DOMAIN pages' -> PageStates(contexts)]
      /\ targets' \in [DOMAIN pages' -> [paused : SUBSET Requests, doc : Nat]]
  BY <1>1 DEF TypeOK, Without, Restrict
<1>6. sessions' \in [DOMAIN sessions' -> DOMAIN pages']
  BY <1>2, <1>4, <1>5
<1>7. pages' \in [DOMAIN pages' -> PageStates(contexts')]
  BY <1>5 DEF PageStates
<1>8. /\ DOMAIN actions' = DOMAIN actions \ A
      /\ actions' \in [DOMAIN actions' -> Action]
      /\ \A a \in DOMAIN actions' : actions'[a] = actions[a]
      /\ ready' \subseteq DOMAIN actions'
  BY <1>1, CancelKeeps
<1>9. told' \in [DOMAIN conns -> SUBSET Sessions]
  BY <1>1 DEF TypeOK
<1>10. closed' \subseteq Requests
  BY <1>1 DEF TypeOK
<1>11. TypeOK'
  BY <1>4, <1>5, <1>6, <1>7, <1>8, <1>9, <1>10 DEF TypeOK, Action
<1>12. ActionsAreLive'
  BY <1>2, <1>3, <1>4, <1>8 DEF ActionsAreLive
<1>13. \A p \in DOMAIN pages' : SessionsOf(p)' = SessionsOf(p)
  BY <1>2, <1>4, <1>5 DEF SessionsOf
<1>14. PausesHaveAListener'
  BY <1>5, <1>13 DEF PausesHaveAListener
<1> QED
  BY <1>11, <1>12, <1>14

LEMMA CloseTargetKeeps ==
  ASSUME PortableInv, NEW p, CloseTarget(p)
  PROVE  PortableInv'
<1>1. /\ {p} \in SUBSET (DOMAIN pages) /\ Destroy({p})
      /\ UNCHANGED <<contexts, conns, used, next, handed, waiting>>
  BY DEF CloseTarget, PortableInv, TypeOK
<1>2. /\ DefaultContext \in contexts' /\ contexts' \subseteq Contexts
      /\ \A q \in DOMAIN pages : pages[q].context \in contexts'
  BY <1>1 DEF PortableInv, TypeOK, PageStates
<1> QED
  BY <1>1, <1>2, DestroyKeeps

LEMMA CreateBrowserContextKeeps ==
  ASSUME PortableInv, NEW x, CreateBrowserContext(x)
  PROVE  PortableInv'
<1> USE DEF PortableInv
<1>1. /\ x \in Contexts /\ contexts' = contexts \cup {x} /\ used' = used \cup {x}
      /\ UNCHANGED <<pages, targets, conns, sessions, owner, told, work, fetches>>
  BY DEF CreateBrowserContext
<1>2. pages' \in [DOMAIN pages -> PageStates(contexts')]
  BY <1>1 DEF TypeOK, PageStates
<1>3. TypeOK'
  BY <1>1, <1>2 DEF TypeOK, work, fetches
<1>4. ActionsAreLive' /\ PausesHaveAListener'
  BY <1>1 DEF ActionsAreLive, PausesHaveAListener, SessionsOf, work
<1> QED
  BY <1>3, <1>4

LEMMA DisposeBrowserContextKeeps ==
  ASSUME PortableInv, NEW x, DisposeBrowserContext(x)
  PROVE  PortableInv'
<1> DEFINE P == {p \in DOMAIN pages : pages[p].context = x}
<1>1. /\ x \in contexts \ {DefaultContext} /\ contexts' = contexts \ {x} /\ Destroy(P)
      /\ UNCHANGED <<conns, used, next, handed, waiting>>
  BY DEF DisposeBrowserContext
<1>2. /\ P \in SUBSET (DOMAIN pages)
      /\ \A p \in DOMAIN pages \ P : pages[p].context # x
  OBVIOUS
<1> HIDE DEF P
<1>3. /\ DefaultContext \in contexts' /\ contexts' \subseteq Contexts
      /\ \A p \in DOMAIN pages \ P : pages[p].context \in contexts'
  BY <1>1, <1>2 DEF PortableInv, TypeOK, PageStates
<1> QED
  BY <1>1, <1>2, <1>3, DestroyKeeps

-----------------------------------------------------------------------------
(* Host actions. *)

LEMMA RestoreContextKeeps ==
  ASSUME PortableInv, NEW x, RestoreContext(x)
  PROVE  PortableInv'
<1> USE DEF PortableInv
<1>1. /\ pages' = [p \in DOMAIN pages |->
           IF pages[p].context = x THEN Replaced(pages[p]) ELSE pages[p]]
      /\ UNCHANGED <<contexts, targets, clients, work, fetches>>
  BY DEF RestoreContext
<1>2. /\ DOMAIN pages' = DOMAIN pages /\ pages' \in [DOMAIN pages -> PageStates(contexts)]
      /\ \A p \in DOMAIN pages :
           pages'[p].paused = pages[p].paused /\ pages'[p].listeners = pages[p].listeners
  <2>1. DOMAIN pages' = DOMAIN pages
    BY <1>1
  <2>2. ASSUME NEW p \in DOMAIN pages
        PROVE  /\ pages'[p] \in PageStates(contexts)
               /\ pages'[p].paused = pages[p].paused
               /\ pages'[p].listeners = pages[p].listeners
    <3>1. pages[p] \in PageStates(contexts)
      BY DEF TypeOK
    <3>2. pages'[p] = pages[p] \/ pages'[p] = Replaced(pages[p])
      BY <1>1
    <3> QED
      BY <3>1, <3>2, ReplacedPage
  <2> QED
    BY <1>1, <2>1, <2>2
<1>3. TypeOK'
  BY <1>1, <1>2 DEF TypeOK, clients, work, fetches
<1>4. ActionsAreLive'
  BY <1>1 DEF ActionsAreLive, clients, work
<1>5. PausesHaveAListener'
  BY <1>1, <1>2 DEF PausesHaveAListener, SessionsOf, clients
<1> QED
  BY <1>3, <1>4, <1>5

LEMMA StartActionKeeps ==
  ASSUME PortableInv, NEW s, NEW kind \in Kinds, StartAction(s, kind)
  PROVE  PortableInv'
<1> USE DEF PortableInv
<1> DEFINE p == sessions[s]
           claimed == Claim(pages[p], kind)
           new == [kind |-> kind, page |-> p, generation |-> claimed.generation,
                   conn |-> owner[s], session |-> s]
<1>1. /\ s \in DOMAIN sessions
      /\ pages' = [pages EXCEPT ![p] = claimed]
      /\ actions' = [a \in DOMAIN actions \cup {next} |-> IF a = next THEN new ELSE actions[a]]
      /\ ready' = ready \cup {next} /\ next' = next + 1
      /\ UNCHANGED <<contexts, targets, clients, handed, fetches>>
  BY DEF StartAction
<1>c. /\ claimed \in PageStates(contexts)
      /\ claimed.paused = pages[p].paused /\ claimed.listeners = pages[p].listeners
  <2>1. pages[p] \in PageStates(contexts)
    BY <1>1 DEF TypeOK
  <2> HIDE DEF p
  <2> QED
    BY <2>1, ReplacedPage DEF Claim
<1>2. /\ p \in DOMAIN pages /\ p \in Pages /\ s \in Sessions /\ owner[s] \in Conns
      /\ claimed.generation \in Nat
  <2> HIDE DEF claimed
  <2> QED
    BY <1>1, <1>c DEF TypeOK, PageStates
<1> HIDE DEF claimed
<1>3. new \in Action /\ new.session = s /\ new.conn = owner[s] /\ new.page = sessions[s]
  BY <1>2 DEF Action
<1> HIDE DEF p, new
<1>4. /\ DOMAIN pages' = DOMAIN pages /\ pages' \in [DOMAIN pages -> PageStates(contexts)]
      /\ \A q \in DOMAIN pages :
           pages'[q].paused = pages[q].paused /\ pages'[q].listeners = pages[q].listeners
  BY <1>1, <1>2, <1>c DEF TypeOK
<1>5. /\ DOMAIN actions' = DOMAIN actions \cup {next}
      /\ actions' \in [DOMAIN actions' -> Action]
      /\ actions'[next] = new
      /\ \A a \in DOMAIN actions \ {next} : actions'[a] = actions[a]
  BY <1>1, <1>3 DEF TypeOK, Action
<1>6. /\ next' \in Nat \ {0} /\ next \in 1 .. next' - 1
      /\ \A n \in 1 .. next - 1 : n \in 1 .. next' - 1
  BY <1>1 DEF TypeOK
<1>7. TypeOK'
  BY <1>1, <1>4, <1>5, <1>6 DEF TypeOK, clients, fetches, Action
<1>8. ActionsAreLive'
  BY <1>1, <1>3, <1>5 DEF ActionsAreLive, clients
<1>9. PausesHaveAListener'
  BY <1>1, <1>4 DEF PausesHaveAListener, SessionsOf, clients
<1> QED
  BY <1>7, <1>8, <1>9

LEMMA HandOverKeeps ==
  ASSUME PortableInv, NEW a, HandOver(a)
  PROVE  PortableInv'
<1> USE DEF PortableInv
<1>1. /\ a \in ready /\ ready' = ready \ {a} /\ handed' = handed \cup {a}
      /\ UNCHANGED <<contexts, pages, targets, clients, actions, next, fetches>>
  BY DEF HandOver
<1>2. TypeOK'
  BY <1>1 DEF TypeOK, clients, fetches
<1>3. ActionsAreLive' /\ PausesHaveAListener'
  BY <1>1 DEF ActionsAreLive, PausesHaveAListener, SessionsOf, clients
<1> QED
  BY <1>2, <1>3

LEMMA CompleteActionKeeps ==
  ASSUME PortableInv, NEW a, NEW succeeds \in BOOLEAN, NEW brings \in BOOLEAN, CompleteAction(a, succeeds, brings)
  PROVE  PortableInv'
<1> USE DEF PortableInv
<1>1. /\ a \in handed /\ handed' = handed \ {a} /\ Cancel({a})
      /\ UNCHANGED <<contexts, pages, clients, next, fetches>>
  BY DEF CompleteAction
<1>2. /\ targets' \in [DOMAIN pages -> [paused : SUBSET Requests, doc : Nat]]
      /\ \A p \in DOMAIN pages : targets'[p].paused = targets[p].paused
  <2>1. a \in Nat
    BY <1>1 DEF TypeOK
  <2>2. \/ targets' = targets
        \/ targets' = [targets EXCEPT ![actions[a].page].doc = a]
    BY DEF CompleteAction
  <2>3. targets \in [DOMAIN pages -> [paused : SUBSET Requests, doc : Nat]]
    BY DEF TypeOK
  <2>4. CASE targets' = targets
    BY <2>3, <2>4
  <2>5. CASE targets' = [targets EXCEPT ![actions[a].page].doc = a]
    BY <2>1, <2>3, <2>5
  <2> QED
    BY <2>2, <2>4, <2>5
<1>3. /\ DOMAIN actions' = DOMAIN actions \ {a}
      /\ actions' \in [DOMAIN actions' -> Action]
      /\ \A b \in DOMAIN actions' : actions'[b] = actions[b]
      /\ ready' \subseteq DOMAIN actions'
  BY <1>1, CancelKeeps
<1>4. TypeOK'
  BY <1>1, <1>2, <1>3 DEF TypeOK, clients, fetches, Action
<1>5. ActionsAreLive'
  BY <1>1, <1>3 DEF ActionsAreLive, clients
<1>6. PausesHaveAListener'
  <2>1. DOMAIN pages' = DOMAIN pages /\ \A p \in DOMAIN pages : SessionsOf(p)' = SessionsOf(p)
    BY <1>1 DEF SessionsOf, clients
  <2> QED
    BY <1>1, <1>2, <2>1 DEF PausesHaveAListener
<1> QED
  BY <1>4, <1>5, <1>6

LEMMA SyncTargetStateKeeps ==
  ASSUME PortableInv, NEW p, SyncTargetState(p)
  PROVE  PortableInv'
<1> USE DEF PortableInv
<1>1. /\ p \in DOMAIN targets /\ targets' = [targets EXCEPT ![p].doc = 0]
      /\ UNCHANGED <<contexts, pages, clients, work, fetches>>
  BY DEF SyncTargetState
<1>2. /\ targets' \in [DOMAIN pages -> [paused : SUBSET Requests, doc : Nat]]
      /\ \A q \in DOMAIN pages : targets'[q].paused = targets[q].paused
  BY <1>1 DEF TypeOK
<1>3. TypeOK'
  BY <1>1, <1>2 DEF TypeOK, clients, work, fetches
<1>4. ActionsAreLive'
  BY <1>1 DEF ActionsAreLive, clients, work
<1>5. PausesHaveAListener'
  BY <1>1, <1>2 DEF PausesHaveAListener, SessionsOf, clients
<1> QED
  BY <1>3, <1>4, <1>5

-----------------------------------------------------------------------------

\* The invariant of the core holds in every state: there is a session behind
\* every action under way, a listener behind every pause (state.rs:1297-1319,
\* 1529-1539, 2028-2064).
THEOREM Invariance == Spec => []PortableInv
<1>1. ASSUME PortableInv, Next PROVE PortableInv'
  <2> USE <1>1
  <2>1. ASSUME NEW c \in Conns, Clients(c) PROVE PortableInv'
    BY <2>1, OpenConnectionKeeps, CloseConnectionKeeps, AttachToTargetKeeps, SetAutoAttachKeeps
       DEF Clients
  <2>2. ASSUME NEW s \in Sessions, Commands(s) PROVE PortableInv'
    BY <2>2, FetchEnableKeeps, FetchDisableKeeps, ResolveFetchKeeps, DetachFromTargetKeeps,
       StartActionKeeps DEF Commands
  <2>3. ASSUME Browser PROVE PortableInv'
    BY <2>3, CloseTargetKeeps, CreateTargetKeeps, CreateBrowserContextKeeps,
       DisposeBrowserContextKeeps DEF Browser
  <2>4. ASSUME Host PROVE PortableInv'
    BY <2>4, InterceptKeeps, CancelFetchKeeps, DrainKeeps, HandOverKeeps, CompleteActionKeeps,
       RestoreContextKeeps, SyncTargetStateKeeps DEF Host
  <2> QED
    BY <2>1, <2>2, <2>3, <2>4 DEF Next
<1>2. ASSUME PortableInv, UNCHANGED vars PROVE PortableInv'
  BY <1>2 DEF vars, PortableInv, TypeOK, ActionsAreLive, PausesHaveAListener, SessionsOf
<1> QED
  BY Initial, <1>1, <1>2, PTL DEF Spec

-----------------------------------------------------------------------------
(* No request of a live page is forgotten. *)

\* It is kept by a step after which no more requests wait, no more pages are
\* open, and every page still has each request paused or decided.
LEMMA HeldKeeps ==
  ASSUME RequestsAreHeld,
         \A r \in DOMAIN waiting' : r \in DOMAIN waiting /\ waiting'[r] = waiting[r],
         \A p \in DOMAIN pages' :
           /\ p \in DOMAIN pages
           /\ pages[p].paused \cup pages[p].decided \subseteq pages'[p].paused \cup pages'[p].decided
  PROVE  RequestsAreHeld'
BY DEF RequestsAreHeld

LEMMA ClientsHold ==
  ASSUME PortableInv, RequestsAreHeld, NEW c \in Conns, Clients(c)
  PROVE  RequestsAreHeld'
<1>1. UNCHANGED waiting
  BY DEF Clients, OpenConnection, CloseConnection, AttachToTarget, SetAutoAttach, fetches
<1>2. CASE CloseConnection(c)
  <2>1. StopListening(SessionsBy(c))
    BY <1>2 DEF CloseConnection, Detach
  <2> QED
    BY <1>1, <2>1, StopListeningKeeps, HeldKeeps
<1>3. CASE ~CloseConnection(c)
  <2>1. UNCHANGED pages
    BY <1>3 DEF Clients, OpenConnection, AttachToTarget, SetAutoAttach
  <2> QED
    BY <1>1, <2>1 DEF RequestsAreHeld
<1> QED
  BY <1>2, <1>3

LEMMA CommandsHold ==
  ASSUME PortableInv, RequestsAreHeld, NEW s \in Sessions, Commands(s)
  PROVE  RequestsAreHeld'
<1> USE DEF PortableInv
<1>1. UNCHANGED waiting
  BY DEF Commands, FetchEnable, FetchDisable, ResolveFetch, DetachFromTarget, StartAction, fetches
<1>2. CASE FetchEnable(s)
  <2>1. \A p \in DOMAIN pages' : p \in DOMAIN pages
    BY <1>2 DEF FetchEnable
  <2>2. \A p \in DOMAIN pages : /\ pages'[p].paused = pages[p].paused
                               /\ pages'[p].decided = pages[p].decided
    BY <1>2 DEF FetchEnable, TypeOK, PageStates
  <2> QED
    BY <1>1, <2>1, <2>2, HeldKeeps
<1>3. CASE FetchDisable(s) \/ DetachFromTarget(s)
  <2>1. StopListening({s})
    BY <1>3 DEF FetchDisable, DetachFromTarget, Detach
  <2> QED
    BY <1>1, <2>1, StopListeningKeeps, HeldKeeps
<1>4. ASSUME NEW r \in Requests, ResolveFetch(s, r) PROVE RequestsAreHeld'
  <2>1. /\ sessions[s] \in DOMAIN pages /\ r \in pages[sessions[s]].paused
        /\ pages' = [pages EXCEPT ![sessions[s]] = Decide(@, r)]
    BY <1>4 DEF ResolveFetch, TypeOK
  <2>2. /\ Decide(pages[sessions[s]], r).paused = pages[sessions[s]].paused \ {r}
        /\ Decide(pages[sessions[s]], r).decided = pages[sessions[s]].decided \cup {r}
    BY <2>1, DecideKeeps DEF TypeOK
  <2>3. \A p \in DOMAIN pages' :
           /\ p \in DOMAIN pages
           /\ pages[p].paused \cup pages[p].decided \subseteq pages'[p].paused \cup pages'[p].decided
    BY <2>1, <2>2 DEF TypeOK
  <2> QED
    BY <1>1, <2>3, HeldKeeps
<1>5. ASSUME NEW kind, StartAction(s, kind) PROVE RequestsAreHeld'
  <2>1. pages' = [pages EXCEPT ![sessions[s]] = Claim(pages[sessions[s]], kind)]
    BY <1>5 DEF StartAction
  <2>2. \A p \in DOMAIN pages' : /\ p \in DOMAIN pages
                                 /\ pages'[p].paused = pages[p].paused
                                 /\ pages'[p].decided = pages[p].decided
    BY <2>1, ReplacedPage DEF TypeOK, Claim
  <2> QED
    BY <1>1, <2>2, HeldKeeps
<1> QED
  BY <1>2, <1>3, <1>4, <1>5 DEF Commands

LEMMA BrowserHolds ==
  ASSUME PortableInv, RequestsAreHeld, Browser
  PROVE  RequestsAreHeld'
<1> USE DEF PortableInv
<1>1. UNCHANGED waiting
  BY DEF Browser, CloseTarget, CreateTarget, CreateBrowserContext, DisposeBrowserContext, fetches
<1>2. ASSUME NEW P, Destroy(P) PROVE RequestsAreHeld'
  <2>1. pages' = Without(pages, P)
    BY <1>2 DEF Destroy
  <2>2. \A p \in DOMAIN pages' : p \in DOMAIN pages /\ pages'[p] = pages[p]
    BY <2>1 DEF Without, Restrict
  <2> QED
    BY <1>1, <2>2, HeldKeeps
<1>3. ASSUME NEW p, NEW x, CreateTarget(p, x) PROVE RequestsAreHeld'
  <2>1. /\ p \notin used
        /\ pages' = [q \in DOMAIN pages \cup {p} |-> IF q = p THEN Page(x) ELSE pages[q]]
    BY <1>3 DEF CreateTarget
  <2>2. \A r \in DOMAIN waiting : waiting[r] # p
    BY <2>1 DEF TypeOK
  <2> QED
    BY <1>1, <2>1, <2>2 DEF RequestsAreHeld
<1>4. ASSUME UNCHANGED pages PROVE RequestsAreHeld'
  BY <1>1, <1>4 DEF RequestsAreHeld
<1> QED
  BY <1>2, <1>3, <1>4 DEF Browser, CloseTarget, CreateBrowserContext, DisposeBrowserContext

LEMMA HostHolds ==
  ASSUME PortableInv, RequestsAreHeld, Host
  PROVE  RequestsAreHeld'
<1> USE DEF PortableInv
<1>1. ASSUME NEW r \in Requests, NEW p, InterceptFetchRequest(r, p) PROVE RequestsAreHeld'
  <2>1. /\ p \in DOMAIN pages
        /\ pages' = [pages EXCEPT ![p].paused = @ \cup {r}]
        /\ waiting' = [q \in DOMAIN waiting \cup {r} |-> IF q = r THEN p ELSE waiting[q]]
    BY <1>1 DEF InterceptFetchRequest, TypeOK
  <2>2. /\ DOMAIN pages' = DOMAIN pages
        /\ \A q \in DOMAIN pages :
             /\ pages'[q].paused = pages[q].paused \cup (IF q = p THEN {r} ELSE {})
             /\ pages'[q].decided = pages[q].decided
    BY <2>1 DEF TypeOK, PageStates
  <2>3. \A q \in DOMAIN waiting' : \/ q = r /\ waiting'[q] = p
                                   \/ q \in DOMAIN waiting /\ waiting'[q] = waiting[q]
    BY <2>1
  <2> QED
    BY <2>1, <2>2, <2>3 DEF RequestsAreHeld
<1>2. ASSUME NEW p, CancelFetchRequests(p) PROVE RequestsAreHeld'
  <2> DEFINE given == {r \in DOMAIN waiting : waiting[r] = p}
  <2>1. /\ waiting' = Without(waiting, given)
        /\ pages' = [q \in DOMAIN pages |->
                       IF q = p THEN [pages[q] EXCEPT !.paused = @ \ given] ELSE pages[q]]
    BY <1>2 DEF CancelFetchRequests
  <2>2. \A r \in DOMAIN waiting' : r \in DOMAIN waiting /\ r \notin given /\ waiting'[r] = waiting[r]
    BY <2>1 DEF Without, Restrict
  <2>3. \A r \in DOMAIN waiting' : waiting'[r] # p
    BY <2>2
  <2> QED
    BY <2>1, <2>2, <2>3 DEF RequestsAreHeld
<1>3. ASSUME DrainFetchResolutions PROVE RequestsAreHeld'
  <2> DEFINE drained == closed \cup UNION {pages[p].decided : p \in DOMAIN targets}
  <2>1. /\ pages' = [p \in DOMAIN pages |->
                       IF p \in DOMAIN targets THEN [pages[p] EXCEPT !.decided = {}] ELSE pages[p]]
        /\ waiting' = Without(waiting, drained)
        /\ DOMAIN targets = DOMAIN pages
    BY <1>3 DEF DrainFetchResolutions, TypeOK
  <2>2. \A r \in DOMAIN waiting' : r \in DOMAIN waiting /\ r \notin drained /\ waiting'[r] = waiting[r]
    BY <2>1 DEF Without, Restrict
  <2>3. \A r \in DOMAIN waiting', p \in DOMAIN pages : r \notin pages[p].decided
    BY <2>1, <2>2
  <2>4. DOMAIN pages' = DOMAIN pages /\ \A p \in DOMAIN pages : pages'[p].paused = pages[p].paused
    BY <2>1 DEF TypeOK, PageStates
  <2> QED
    BY <2>2, <2>3, <2>4 DEF RequestsAreHeld
<1>4. ASSUME NEW x, RestoreContext(x) PROVE RequestsAreHeld'
  <2>1. /\ UNCHANGED waiting
        /\ pages' = [p \in DOMAIN pages |->
             IF pages[p].context = x THEN Replaced(pages[p]) ELSE pages[p]]
    BY <1>4 DEF RestoreContext, fetches
  <2>2. \A p \in DOMAIN pages' : /\ p \in DOMAIN pages
                                 /\ pages'[p].paused = pages[p].paused
                                 /\ pages'[p].decided = pages[p].decided
    BY <2>1, ReplacedPage DEF TypeOK
  <2> QED
    BY <2>1, <2>2, HeldKeeps
<1>5. ASSUME NEW a, NEW succeeds, NEW brings, HandOver(a) \/ CompleteAction(a, succeeds, brings) PROVE RequestsAreHeld'
  BY <1>5 DEF HandOver, CompleteAction, fetches, RequestsAreHeld
<1>6. ASSUME NEW p, SyncTargetState(p) PROVE RequestsAreHeld'
  BY <1>6 DEF SyncTargetState, fetches, RequestsAreHeld
<1> QED
  BY <1>1, <1>2, <1>3, <1>4, <1>5, <1>6 DEF Host

\* A request the host waits for, of a page that is open, is paused or decided.
THEOREM NoRequestIsForgotten == Spec => []RequestsAreHeld
<1>1. Init => RequestsAreHeld
  BY DEF Init, RequestsAreHeld
<1>2. ASSUME PortableInv, RequestsAreHeld, [Next]_vars PROVE RequestsAreHeld'
  <2>1. CASE Next
    BY <1>2, <2>1, ClientsHold, CommandsHold, BrowserHolds, HostHolds DEF Next
  <2>2. CASE UNCHANGED vars
    BY <1>2, <2>2 DEF vars, RequestsAreHeld
  <2> QED
    BY <1>2, <2>1, <2>2
<1> QED
  BY <1>1, <1>2, Invariance, PTL DEF Spec

-----------------------------------------------------------------------------
(* Every client knows its sessions. *)

\* Whoever gets new sessions is told of them, and nobody else is.
LEMMA AttachTells ==
  ASSUME PortableInv, ClientsAreTold, NEW pairs, NEW g \in NewSessions(pairs), Attach(g),
         DOMAIN conns' = DOMAIN conns
  PROVE  ClientsAreTold'
<1> USE DEF PortableInv
<1>1. DOMAIN g \subseteq Sessions \ used /\ DOMAIN owner = DOMAIN sessions
  BY NewSessionsAreNew DEF TypeOK
<1>2. \A s \in DOMAIN owner : s \notin DOMAIN g
  BY <1>1 DEF TypeOK
<1>3. /\ DOMAIN owner' = DOMAIN owner \cup DOMAIN g
      /\ \A s \in DOMAIN g : owner'[s] = g[s][1]
      /\ \A s \in DOMAIN owner : owner'[s] = owner[s]
  BY <1>2 DEF Attach
<1>4. SUFFICES ASSUME NEW c \in DOMAIN conns PROVE told'[c] = SessionsBy(c)'
  BY DEF ClientsAreTold
<1>5. told'[c] = told[c] \cup {s \in DOMAIN g : g[s][1] = c}
  BY DEF Attach, TypeOK
<1>6. told[c] = {s \in DOMAIN owner : owner[s] = c}
  BY DEF ClientsAreTold, SessionsBy
<1>7. SessionsBy(c)' = {s \in DOMAIN owner : owner[s] = c} \cup {s \in DOMAIN g : g[s][1] = c}
  BY <1>3 DEF SessionsBy
<1> QED
  BY <1>5, <1>6, <1>7

LEMMA ClientsTold ==
  ASSUME PortableInv, ClientsAreTold, NEW c \in Conns, Clients(c)
  PROVE  ClientsAreTold'
<1> USE DEF PortableInv
<1>1. ASSUME OpenConnection(c) PROVE ClientsAreTold'
  <2>1. /\ c \notin DOMAIN conns
        /\ DOMAIN conns' = DOMAIN conns \cup {c}
        /\ told' = [d \in DOMAIN conns \cup {c} |-> IF d = c THEN {} ELSE told[d]]
        /\ UNCHANGED owner
    BY <1>1 DEF OpenConnection, TypeOK
  <2>2. \A d : SessionsBy(d)' = SessionsBy(d)
    BY <2>1 DEF SessionsBy
  <2>3. SessionsBy(c) = {}
    BY <2>1 DEF SessionsBy, TypeOK
  <2> QED
    BY <2>1, <2>2, <2>3 DEF ClientsAreTold
<1>2. ASSUME CloseConnection(c) PROVE ClientsAreTold'
  <2>1. /\ conns' = Without(conns, {c}) /\ told' = Without(told, {c})
        /\ owner' = Without(owner, SessionsBy(c))
    BY <1>2 DEF CloseConnection, Detach
  <2>2. /\ DOMAIN conns' = DOMAIN conns \ {c}
        /\ \A d \in DOMAIN conns' : told'[d] = told[d]
    BY <2>1 DEF Without, Restrict, TypeOK
  <2>3. /\ DOMAIN owner' = DOMAIN owner \ SessionsBy(c)
        /\ \A s \in DOMAIN owner' : owner'[s] = owner[s]
    BY <2>1 DEF Without, Restrict
  <2>4. \A d \in DOMAIN conns' : SessionsBy(d)' = SessionsBy(d)
    BY <2>2, <2>3 DEF SessionsBy
  <2> QED
    BY <2>2, <2>4 DEF ClientsAreTold
<1>3. ASSUME NEW p, AttachToTarget(c, p) PROVE ClientsAreTold'
  BY <1>3, AttachTells DEF AttachToTarget
<1>4. ASSUME NEW on, SetAutoAttach(c, on) PROVE ClientsAreTold'
  <2> DEFINE attached == {sessions[s] : s \in SessionsBy(c)}
             pairs == IF on THEN {c} \X (DOMAIN targets \ attached) ELSE {}
  <2>1. DOMAIN conns' = DOMAIN conns /\ \E g \in NewSessions(pairs) : Attach(g)
    BY <1>4 DEF SetAutoAttach
  <2> HIDE DEF pairs
  <2> QED
    BY <2>1, AttachTells
<1> QED
  BY <1>1, <1>2, <1>3, <1>4 DEF Clients

LEMMA CommandsTold ==
  ASSUME PortableInv, ClientsAreTold, NEW s \in Sessions, Commands(s)
  PROVE  ClientsAreTold'
<1> USE DEF PortableInv
<1>1. CASE DetachFromTarget(s)
  <2>1. /\ s \in DOMAIN owner
        /\ told' = [told EXCEPT ![owner[s]] = @ \ {s}]
        /\ owner' = Without(owner, {s}) /\ UNCHANGED conns
    BY <1>1 DEF DetachFromTarget, Detach, TypeOK
  <2>2. /\ DOMAIN owner' = DOMAIN owner \ {s}
        /\ \A t \in DOMAIN owner' : owner'[t] = owner[t]
    BY <2>1 DEF Without, Restrict
  <2>3. SUFFICES ASSUME NEW c \in DOMAIN conns PROVE told'[c] = SessionsBy(c)'
    BY <2>1 DEF ClientsAreTold
  <2>4. SessionsBy(c)' = SessionsBy(c) \ {s}
    BY <2>2 DEF SessionsBy
  <2>5. told[c] = SessionsBy(c)
    BY DEF ClientsAreTold
  <2>6. CASE owner[s] = c
    BY <2>1, <2>4, <2>5, <2>6 DEF TypeOK
  <2>7. CASE owner[s] # c
    <3>1. s \notin SessionsBy(c) /\ told'[c] = told[c]
      BY <2>1, <2>7 DEF SessionsBy, TypeOK
    <3> QED
      BY <2>4, <2>5, <3>1
  <2> QED
    BY <2>6, <2>7
<1>2. CASE ~DetachFromTarget(s)
  <2>1. UNCHANGED <<conns, owner, told>>
    BY <1>2 DEF Commands, FetchEnable, FetchDisable, ResolveFetch, StartAction, clients
  <2> QED
    BY <2>1 DEF ClientsAreTold, SessionsBy
<1> QED
  BY <1>1, <1>2

LEMMA BrowserTold ==
  ASSUME PortableInv, ClientsAreTold, Browser
  PROVE  ClientsAreTold'
<1> USE DEF PortableInv
<1>1. ASSUME NEW P, Destroy(P), UNCHANGED conns PROVE ClientsAreTold'
  <2> DEFINE S == {s \in DOMAIN sessions : sessions[s] \in P}
  <2>1. owner' = Without(owner, S) /\ told' = [c \in DOMAIN told |-> told[c] \ S]
    BY <1>1 DEF Destroy, ReportDetached
  <2> HIDE DEF S
  <2>2. /\ DOMAIN owner' = DOMAIN owner \ S
        /\ \A t \in DOMAIN owner' : owner'[t] = owner[t]
    BY <2>1 DEF Without, Restrict
  <2>3. \A c : SessionsBy(c)' = SessionsBy(c) \ S
    BY <2>2 DEF SessionsBy
  <2> QED
    BY <1>1, <2>1, <2>3 DEF ClientsAreTold, TypeOK
<1>2. ASSUME NEW p, NEW x, CreateTarget(p, x) PROVE ClientsAreTold'
  <2>1. UNCHANGED conns /\ \E g \in NewSessions({c \in DOMAIN conns : conns[c]} \X {p}) : Attach(g)
    BY <1>2 DEF CreateTarget
  <2> QED
    BY <2>1, AttachTells
<1>3. ASSUME NEW x, CreateBrowserContext(x) PROVE ClientsAreTold'
  BY <1>3 DEF CreateBrowserContext, ClientsAreTold, SessionsBy
<1> QED
  BY <1>1, <1>2, <1>3 DEF Browser, CloseTarget, DisposeBrowserContext

LEMMA HostTold ==
  ASSUME ClientsAreTold, Host
  PROVE  ClientsAreTold'
<1>1. UNCHANGED <<conns, owner, told>>
  BY DEF Host, InterceptFetchRequest, CancelFetchRequests, DrainFetchResolutions, HandOver,
         CompleteAction, RestoreContext, SyncTargetState, clients
<1> QED
  BY <1>1 DEF ClientsAreTold, SessionsBy

\* However sessions begin and end, the client was told (cdp.rs:1802-1838).
THEOREM SessionsAreReported == Spec => []ClientsAreTold
<1>1. Init => ClientsAreTold
  BY DEF Init, ClientsAreTold
<1>2. ASSUME PortableInv, ClientsAreTold, [Next]_vars PROVE ClientsAreTold'
  <2>1. CASE Next
    BY <1>2, <2>1, ClientsTold, CommandsTold, BrowserTold, HostTold DEF Next
  <2>2. CASE UNCHANGED vars
    BY <1>2, <2>2 DEF vars, ClientsAreTold, SessionsBy
  <2> QED
    BY <1>2, <2>1, <2>2
<1> QED
  BY <1>1, <1>2, Invariance, PTL DEF Spec

-----------------------------------------------------------------------------
(* Stale results are refused.  An action under way carries a generation of   *)
(* its page, the page's own only if its document was not replaced since: so  *)
(* an action that is accepted is about the document the page is at.          *)

About(p) == {a \in DOMAIN actions : actions[a].page = p}

Fresh ==
  \A p \in DOMAIN pages :
    /\ pages[p].since <= next
    /\ \A a \in About(p) :
         /\ actions[a].generation <= pages[p].generation
         /\ a < pages[p].since => actions[a].generation < pages[p].generation

\* A step that starts no action and replaces no document keeps it, whatever it
\* cancels, closes or opens.
LEMMA FreshKeeps ==
  ASSUME PortableInv, Fresh, next' = next,
         \A a \in DOMAIN actions' : a \in DOMAIN actions /\ actions'[a] = actions[a],
         \A p \in DOMAIN pages' : p \in DOMAIN pages => /\ pages'[p].generation = pages[p].generation
                                                       /\ pages'[p].since = pages[p].since,
         \A p \in DOMAIN pages' : p \notin DOMAIN pages => pages'[p].since = 1
  PROVE  Fresh'
<1> USE DEF PortableInv
<1>1. SUFFICES ASSUME NEW p \in DOMAIN pages'
               PROVE  /\ pages'[p].since <= next
                      /\ \A a \in About(p)' :
                           /\ actions'[a].generation <= pages'[p].generation
                           /\ a < pages'[p].since => actions'[a].generation < pages'[p].generation
  BY DEF Fresh
<1>2. \A a \in About(p)' : a \in About(p) /\ actions'[a] = actions[a]
  BY DEF About
<1>3. CASE p \in DOMAIN pages
  BY <1>2, <1>3 DEF Fresh
<1>4. CASE p \notin DOMAIN pages
  <2>1. About(p) = {}
    BY <1>4 DEF About, ActionsAreLive, TypeOK
  <2>2. pages'[p].since = 1 /\ 1 <= next
    BY <1>4 DEF TypeOK
  <2> QED
    BY <1>2, <2>1, <2>2
<1> QED
  BY <1>3, <1>4

LEMMA StartActionIsFresh ==
  ASSUME PortableInv, Fresh, NEW s, NEW kind \in Kinds, StartAction(s, kind)
  PROVE  Fresh' /\ UNCHANGED targets
<1> USE DEF PortableInv
<1> DEFINE p == sessions[s]
           claimed == Claim(pages[p], kind)
           new == [kind |-> kind, page |-> p, generation |-> claimed.generation,
                   conn |-> owner[s], session |-> s]
<1>1. /\ s \in DOMAIN sessions
      /\ pages' = [pages EXCEPT ![p] = claimed]
      /\ actions' = [a \in DOMAIN actions \cup {next} |-> IF a = next THEN new ELSE actions[a]]
      /\ next' = next + 1
      /\ UNCHANGED targets
  BY DEF StartAction
<1>c. /\ claimed.generation = IF kind = "navigate" THEN pages[p].generation + 1 ELSE pages[p].generation
      /\ claimed.since = IF kind = "navigate" THEN next ELSE pages[p].since
      /\ pages[p].generation \in Nat /\ pages[p].since \in Nat
  <2>1. pages[p] \in PageStates(contexts)
    BY <1>1 DEF TypeOK
  <2> HIDE DEF p
  <2> QED
    BY <2>1, ReplacedPage DEF Claim, PageStates
<1> HIDE DEF claimed
<1>2. p \in DOMAIN pages /\ new.page = p /\ new.generation = claimed.generation
  BY <1>1 DEF TypeOK
<1> HIDE DEF p, new
<1>3. /\ DOMAIN pages' = DOMAIN pages
      /\ pages'[p].generation = claimed.generation
      /\ pages'[p].since = claimed.since
      /\ \A q \in DOMAIN pages : q # p => pages'[q] = pages[q]
  BY <1>1, <1>2, <1>c DEF TypeOK
<1>4. /\ next \notin DOMAIN actions /\ next \in Nat
      /\ DOMAIN actions' = DOMAIN actions \cup {next} /\ actions'[next] = new
      /\ \A a \in DOMAIN actions : actions'[a] = actions[a] /\ a \in Nat /\ a < next
  BY <1>1 DEF TypeOK
<1>5. \A q : \A a \in About(q)' : \/ a \in About(q) /\ actions'[a] = actions[a]
                                  \/ a = next /\ q = p
  BY <1>2, <1>4 DEF About
<1>6. SUFFICES ASSUME NEW q \in DOMAIN pages
               PROVE  /\ pages'[q].since <= next + 1
                      /\ \A a \in About(q)' :
                           /\ actions'[a].generation <= pages'[q].generation
                           /\ a < pages'[q].since => actions'[a].generation < pages'[q].generation
  BY <1>1, <1>3 DEF Fresh
<1>7. /\ pages[q].since \in Nat /\ pages[q].since <= next /\ pages[q].generation \in Nat
      /\ \A a \in About(q) : /\ actions[a].generation \in Nat /\ a \in Nat /\ a < next
                             /\ actions[a].generation <= pages[q].generation
                             /\ a < pages[q].since => actions[a].generation < pages[q].generation
  BY <1>4 DEF Fresh, TypeOK, PageStates, About
<1>8. CASE q # p
  BY <1>3, <1>4, <1>5, <1>7, <1>8
<1>9. CASE q = p /\ kind = "navigate"
  <2>1. pages'[q].generation = pages[q].generation + 1 /\ pages'[q].since = next
        /\ actions'[next].generation = pages[q].generation + 1
    BY <1>2, <1>3, <1>4, <1>9, <1>c
  <2> QED
    BY <1>4, <1>5, <1>7, <2>1
<1>10. CASE q = p /\ kind # "navigate"
  <2>1. pages'[q].generation = pages[q].generation /\ pages'[q].since = pages[q].since
        /\ actions'[next].generation = pages[q].generation
    BY <1>2, <1>3, <1>4, <1>10, <1>c
  <2> QED
    BY <1>4, <1>5, <1>7, <2>1
<1> QED
  BY <1>1, <1>8, <1>9, <1>10

\* What StaleResultsAreRefused says of a step.
StaleRefused ==
  \A p \in DOMAIN targets \cap DOMAIN targets' :
    targets'[p].doc \notin {targets[p].doc, 0} => targets'[p].doc >= pages[p].since

\* A step that leaves the mirrors of all pages it leaves open refuses anything.
LEMMA NothingMirrored ==
  ASSUME \A p \in DOMAIN targets' : p \in DOMAIN targets => targets'[p].doc = targets[p].doc
  PROVE  StaleRefused
BY DEF StaleRefused

LEMMA CompleteActionRefuses ==
  ASSUME PortableInv, Fresh, NEW a, NEW succeeds \in BOOLEAN, NEW brings \in BOOLEAN,
         CompleteAction(a, succeeds, brings)
  PROVE  Fresh' /\ StaleRefused
<1> USE DEF PortableInv
<1>1. /\ a \in handed /\ Cancel({a}) /\ UNCHANGED <<pages, next>>
  BY DEF CompleteAction
<1>2. \A b \in DOMAIN actions' : b \in DOMAIN actions /\ actions'[b] = actions[b]
  BY <1>1, CancelKeeps
<1>3. Fresh'
  BY <1>1, <1>2, FreshKeeps
<1>4. CASE succeeds /\ brings /\ Accepted(a)
  <2> DEFINE p == actions[a].page
  <2>1. /\ targets' = [targets EXCEPT ![p].doc = a]
        /\ a \in About(p) /\ actions[a].generation = pages[p].generation
        /\ p \in DOMAIN pages /\ DOMAIN targets = DOMAIN pages
    BY <1>4 DEF CompleteAction, Accepted, About, TypeOK
  <2>2. a \in Nat /\ pages[p].since \in Nat /\ pages[p].generation \in Nat
    BY <1>1, <2>1 DEF TypeOK, PageStates
  <2> HIDE DEF p
  <2>3. targets'[p].doc = a /\ \A q \in DOMAIN targets : q # p => targets'[q].doc = targets[q].doc
    BY <2>1 DEF TypeOK
  <2>4. a >= pages[p].since
    BY <2>1, <2>2 DEF Fresh
  <2> QED
    BY <1>3, <2>3, <2>4 DEF StaleRefused
<1>5. CASE ~(succeeds /\ brings /\ Accepted(a))
  BY <1>3, <1>5, NothingMirrored DEF CompleteAction
<1> QED
  BY <1>4, <1>5

\* A step that only drops pages, targets and actions.
LEMMA DestroyRefuses ==
  ASSUME PortableInv, Fresh, NEW P, Destroy(P), next' = next
  PROVE  Fresh' /\ StaleRefused
<1> USE DEF PortableInv
<1>1. /\ pages' = Without(pages, P) /\ targets' = Without(targets, P)
      /\ \E A : Cancel(A)
  BY DEF Destroy
<1>2. \A a \in DOMAIN actions' : a \in DOMAIN actions /\ actions'[a] = actions[a]
  BY <1>1, CancelKeeps
<1>3. /\ \A p \in DOMAIN pages' : p \in DOMAIN pages /\ pages'[p] = pages[p]
      /\ \A p \in DOMAIN targets' : p \in DOMAIN targets /\ targets'[p] = targets[p]
  BY <1>1 DEF Without, Restrict
<1>4. Fresh'
  BY <1>2, <1>3, FreshKeeps
<1> QED
  BY <1>3, <1>4, NothingMirrored

\* A step after which sessions no longer listen.
LEMMA StopListeningRefuses ==
  ASSUME PortableInv, Fresh, NEW S, StopListening(S), next' = next,
         UNCHANGED actions \/ \E A : Cancel(A)
  PROVE  Fresh' /\ StaleRefused
<1>1. /\ DOMAIN pages' = DOMAIN pages /\ DOMAIN targets' = DOMAIN pages
      /\ \A p \in DOMAIN pages : /\ pages'[p].generation = pages[p].generation
                                 /\ pages'[p].since = pages[p].since
                                 /\ targets'[p].doc = targets[p].doc
  BY StopListeningKeeps
<1>2. \A a \in DOMAIN actions' : a \in DOMAIN actions /\ actions'[a] = actions[a]
  <2>1. CASE UNCHANGED actions
    BY <2>1
  <2>2. ASSUME NEW A, Cancel(A) PROVE \A a \in DOMAIN actions' : a \in DOMAIN actions /\ actions'[a] = actions[a]
    BY <2>2, CancelKeeps DEF PortableInv
  <2> QED
    BY <2>1, <2>2
<1>3. Fresh'
  BY <1>1, <1>2, FreshKeeps
<1> QED
  BY <1>1, <1>3, NothingMirrored

LEMMA ClientsRefuse ==
  ASSUME PortableInv, Fresh, NEW c \in Conns, Clients(c)
  PROVE  Fresh' /\ StaleRefused
<1>1. CASE CloseConnection(c)
  BY <1>1, StopListeningRefuses DEF CloseConnection, Detach
<1>2. CASE ~CloseConnection(c)
  <2>1. UNCHANGED <<pages, targets, actions, next>>
    BY <1>2 DEF Clients, OpenConnection, AttachToTarget, SetAutoAttach, work
  <2> QED
    BY <2>1, FreshKeeps, NothingMirrored
<1> QED
  BY <1>1, <1>2

LEMMA CommandsRefuse ==
  ASSUME PortableInv, Fresh, NEW s \in Sessions, Commands(s)
  PROVE  Fresh' /\ StaleRefused
<1> USE DEF PortableInv
<1>1. CASE FetchEnable(s)
  <2>1. UNCHANGED <<targets, actions, next>>
    BY <1>1 DEF FetchEnable, work
  <2>2. \A p \in DOMAIN pages' : /\ p \in DOMAIN pages
                                 /\ pages'[p].generation = pages[p].generation
                                 /\ pages'[p].since = pages[p].since
    BY <1>1 DEF FetchEnable, TypeOK, PageStates
  <2>3. Fresh'
    BY <2>1, <2>2, FreshKeeps
  <2> QED
    BY <2>1, <2>3, NothingMirrored
<1>2. CASE FetchDisable(s) \/ DetachFromTarget(s)
  BY <1>2, StopListeningRefuses DEF FetchDisable, DetachFromTarget, Detach, work
<1>3. ASSUME NEW r \in Requests, ResolveFetch(s, r) PROVE Fresh' /\ StaleRefused
  <2>1. /\ UNCHANGED <<actions, next>>
        /\ sessions[s] \in DOMAIN pages
        /\ pages' = [pages EXCEPT ![sessions[s]] = Decide(@, r)]
        /\ targets' = [targets EXCEPT ![sessions[s]].paused = @ \ {r}]
    BY <1>3 DEF ResolveFetch, work, TypeOK
  <2>2. /\ Decide(pages[sessions[s]], r).generation = pages[sessions[s]].generation
        /\ Decide(pages[sessions[s]], r).since = pages[sessions[s]].since
    BY <2>1, DecideKeeps DEF TypeOK
  <2>3. \A p \in DOMAIN pages' : /\ p \in DOMAIN pages
                                 /\ pages'[p].generation = pages[p].generation
                                 /\ pages'[p].since = pages[p].since
    BY <2>1, <2>2 DEF TypeOK
  <2>4. \A p \in DOMAIN targets : targets'[p].doc = targets[p].doc
    BY <2>1 DEF TypeOK
  <2>5. Fresh'
    BY <2>1, <2>3, FreshKeeps
  <2> QED
    BY <2>4, <2>5, NothingMirrored
<1>4. ASSUME NEW kind \in Kinds, StartAction(s, kind) PROVE Fresh' /\ StaleRefused
  BY <1>4, StartActionIsFresh, NothingMirrored
<1> QED
  BY <1>1, <1>2, <1>3, <1>4 DEF Commands, Kinds

LEMMA BrowserRefuses ==
  ASSUME PortableInv, Fresh, Browser
  PROVE  Fresh' /\ StaleRefused
<1> USE DEF PortableInv
<1>1. ASSUME NEW P, Destroy(P), next' = next PROVE Fresh' /\ StaleRefused
  BY <1>1, DestroyRefuses
<1>2. ASSUME NEW p, NEW x, CreateTarget(p, x) PROVE Fresh' /\ StaleRefused
  <2>1. /\ UNCHANGED <<actions, next>>
        /\ pages' = [q \in DOMAIN pages \cup {p} |-> IF q = p THEN Page(x) ELSE pages[q]]
        /\ targets' = [q \in DOMAIN targets \cup {p} |-> IF q = p THEN Target ELSE targets[q]]
        /\ p \notin DOMAIN pages /\ p \notin DOMAIN targets
    BY <1>2 DEF CreateTarget, work, TypeOK
  <2>2. \A q \in DOMAIN pages' : IF q \in DOMAIN pages THEN pages'[q] = pages[q] ELSE pages'[q].since = 1
    BY <2>1 DEF Page
  <2>3. Fresh'
    BY <2>1, <2>2, FreshKeeps
  <2> QED
    BY <2>1, <2>3, NothingMirrored
<1>3. ASSUME NEW x, CreateBrowserContext(x) PROVE Fresh' /\ StaleRefused
  <2>1. UNCHANGED <<pages, targets, actions, next>>
    BY <1>3 DEF CreateBrowserContext, work
  <2> QED
    BY <2>1, FreshKeeps, NothingMirrored
<1> QED
  BY <1>1, <1>2, <1>3 DEF Browser, CloseTarget, DisposeBrowserContext

LEMMA RestoreContextRefuses ==
  ASSUME PortableInv, Fresh, NEW x, RestoreContext(x)
  PROVE  Fresh' /\ StaleRefused
<1> USE DEF PortableInv
<1>1. /\ pages' = [p \in DOMAIN pages |->
           IF pages[p].context = x THEN Replaced(pages[p]) ELSE pages[p]]
      /\ UNCHANGED <<targets, actions, next>>
  BY DEF RestoreContext, work
<1>2. ASSUME NEW p \in DOMAIN pages
      PROVE  \/ pages'[p] = pages[p]
             \/ pages'[p].generation = pages[p].generation + 1 /\ pages'[p].since = next
  <2>1. pages[p] \in PageStates(contexts)
    BY DEF TypeOK
  <2>2. pages'[p] = pages[p] \/ pages'[p] = Replaced(pages[p])
    BY <1>1
  <2> QED
    BY <2>1, <2>2, ReplacedPage
<1>3. DOMAIN pages' = DOMAIN pages
  BY <1>1
<1>4. /\ next \in Nat
      /\ \A p \in DOMAIN pages : pages[p].generation \in Nat
      /\ \A a \in DOMAIN actions : actions[a].generation \in Nat
  BY DEF TypeOK, PageStates
<1>5. Fresh'
  <2> SUFFICES ASSUME NEW p \in DOMAIN pages
      PROVE  /\ pages'[p].since <= next
             /\ \A a \in About(p) :
                  /\ actions[a].generation <= pages'[p].generation
                  /\ a < pages'[p].since => actions[a].generation < pages'[p].generation
    BY <1>1, <1>3 DEF Fresh, About
  <2>1. \A a \in About(p) : actions[a].generation <= pages[p].generation /\ actions[a].generation \in Nat
    BY <1>4 DEF Fresh, About
  <2>2. CASE pages'[p] = pages[p]
    BY <2>2 DEF Fresh
  <2>3. CASE pages'[p].generation = pages[p].generation + 1 /\ pages'[p].since = next
    <3> HIDE DEF About
    <3> QED
      BY <1>4, <2>1, <2>3
  <2> QED
    BY <1>2, <2>2, <2>3
<1> QED
  BY <1>1, <1>5, NothingMirrored

LEMMA HostRefuses ==
  ASSUME PortableInv, Fresh, Host
  PROVE  Fresh' /\ StaleRefused
<1> USE DEF PortableInv
<1>1. ASSUME UNCHANGED <<actions, next>>, DOMAIN pages' = DOMAIN pages,
             \A p \in DOMAIN pages : /\ pages'[p].generation = pages[p].generation
                                     /\ pages'[p].since = pages[p].since,
             \A p \in DOMAIN targets : targets'[p].doc = targets[p].doc
      PROVE  Fresh' /\ StaleRefused
  BY <1>1, FreshKeeps, NothingMirrored
<1>2. ASSUME NEW r \in Requests, NEW p, InterceptFetchRequest(r, p) PROVE Fresh' /\ StaleRefused
  <2>1. /\ pages' = [pages EXCEPT ![p].paused = @ \cup {r}]
        /\ targets' = [targets EXCEPT ![p].paused = @ \cup {r}]
        /\ UNCHANGED <<actions, next>>
    BY <1>2 DEF InterceptFetchRequest, work
  <2>2. /\ DOMAIN pages' = DOMAIN pages
        /\ \A q \in DOMAIN pages : /\ pages'[q].generation = pages[q].generation
                                   /\ pages'[q].since = pages[q].since
    BY <2>1 DEF TypeOK, PageStates
  <2>3. \A q \in DOMAIN targets : targets'[q].doc = targets[q].doc
    BY <2>1 DEF TypeOK
  <2> QED
    BY <1>1, <2>1, <2>2, <2>3
<1>3. ASSUME NEW p, CancelFetchRequests(p) PROVE Fresh' /\ StaleRefused
  <2> DEFINE given == {r \in DOMAIN waiting : waiting[r] = p}
  <2>1. /\ pages' = [q \in DOMAIN pages |->
                       IF q = p THEN [pages[q] EXCEPT !.paused = @ \ given] ELSE pages[q]]
        /\ targets' = [q \in DOMAIN targets |->
                         IF q = p THEN [targets[q] EXCEPT !.paused = @ \ given] ELSE targets[q]]
        /\ UNCHANGED <<actions, next>>
    BY <1>3 DEF CancelFetchRequests, work
  <2> HIDE DEF given
  <2>2. /\ DOMAIN pages' = DOMAIN pages
        /\ \A q \in DOMAIN pages : /\ pages'[q].generation = pages[q].generation
                                   /\ pages'[q].since = pages[q].since
    BY <2>1 DEF TypeOK, PageStates
  <2>3. \A q \in DOMAIN targets : targets'[q].doc = targets[q].doc
    BY <2>1 DEF TypeOK
  <2> QED
    BY <1>1, <2>1, <2>2, <2>3
<1>4. ASSUME DrainFetchResolutions PROVE Fresh' /\ StaleRefused
  <2>1. /\ pages' = [p \in DOMAIN pages |->
                       IF p \in DOMAIN targets THEN [pages[p] EXCEPT !.decided = {}] ELSE pages[p]]
        /\ UNCHANGED <<targets, actions, next>>
    BY <1>4 DEF DrainFetchResolutions, work
  <2>2. /\ DOMAIN pages' = DOMAIN pages
        /\ \A q \in DOMAIN pages : /\ pages'[q].generation = pages[q].generation
                                   /\ pages'[q].since = pages[q].since
    BY <2>1 DEF TypeOK, PageStates
  <2> QED
    BY <1>1, <2>1, <2>2
<1>5. ASSUME NEW x, RestoreContext(x) PROVE Fresh' /\ StaleRefused
  BY <1>5, RestoreContextRefuses
<1>6. ASSUME NEW a, HandOver(a) PROVE Fresh' /\ StaleRefused
  BY <1>1, <1>6 DEF HandOver
<1>7. ASSUME NEW a, NEW succeeds \in BOOLEAN, NEW brings \in BOOLEAN, CompleteAction(a, succeeds, brings)
      PROVE  Fresh' /\ StaleRefused
  BY <1>7, CompleteActionRefuses
<1>8. ASSUME NEW p, SyncTargetState(p) PROVE Fresh' /\ StaleRefused
  <2>1. targets' = [targets EXCEPT ![p].doc = 0] /\ UNCHANGED <<pages, actions, next>>
    BY <1>8 DEF SyncTargetState, work
  <2>2. \A q \in DOMAIN targets : targets'[q].doc \in {targets[q].doc, 0}
    BY <2>1 DEF TypeOK
  <2>3. Fresh'
    BY <2>1, FreshKeeps
  <2> QED
    BY <2>2, <2>3 DEF StaleRefused
<1> QED
  BY <1>2, <1>3, <1>4, <1>5, <1>6, <1>7, <1>8 DEF Host

\* No answer brings back a document that a navigation or a restore of the context
\* has replaced since the action was started (state.rs:1945-1949, 2056-2062).
THEOREM StaleAreRefused == Spec => StaleResultsAreRefused
<1>1. Init => Fresh
  <2> SUFFICES ASSUME Init PROVE Fresh
    OBVIOUS
  <2>1. \A p : About(p) = {}
    BY DEF Init, About
  <2>2. DOMAIN pages = {FirstPage} /\ pages[FirstPage].since = 1 /\ next = 1
    BY DEF Init, Page
  <2> QED
    BY <2>1, <2>2 DEF Fresh
<1>2. ASSUME PortableInv, Fresh, [Next]_vars PROVE Fresh' /\ StaleRefused
  <2>1. CASE Next
    BY <1>2, <2>1, ClientsRefuse, CommandsRefuse, BrowserRefuses, HostRefuses DEF Next
  <2>2. CASE UNCHANGED vars
    BY <1>2, <2>2 DEF vars, Fresh, About, StaleRefused
  <2> QED
    BY <1>2, <2>1, <2>2
<1>3. StaleRefused => (\A p \in DOMAIN targets \cap DOMAIN targets' :
       targets'[p].doc \notin {targets[p].doc, 0} => targets'[p].doc >= pages[p].since)
  BY DEF StaleRefused
<1> QED
  BY <1>1, <1>2, <1>3, Invariance, PTL DEF Spec, StaleResultsAreRefused
=============================================================================
