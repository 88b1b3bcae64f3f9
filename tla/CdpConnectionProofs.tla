------------------------ MODULE CdpConnectionProofs ------------------------
(***************************************************************************)
(* Theorems about CdpConnection: who releases a request, who adds an       *)
(* isolate, and what becomes of commands.                                  *)
(***************************************************************************)
EXTENDS CdpConnection, FiniteSetTheorems, SequenceTheorems, TLAPS

(* The inductive invariant. *)

\* What the channel holds of a page's realms that are gone is ahead of the requests of
\* its live one, so none of those has been announced while any of it is left.
StaleFirst ==
  /\ \A k, l \in DOMAIN irx :
       k < l /\ irx[k].page = irx[l].page /\ irx[l].op = Stale => irx[k].op = Stale
  /\ \A k \in DOMAIN irx, o \in Ops :
       irx[k].op = Stale /\ waiting[o] # None /\ waiting[o].page = irx[k].page =>
         ~waiting[o].shown

Processor ==
  /\ wire \in Seq(Messages) /\ rx \in Seq(Messages) /\ deferred \in Seq(Messages)
  /\ at \in {"select", "command", "eval", "inner", "create", "navigation", "ended"}
  /\ current \in Messages \cup {None} /\ target \in Pages \cup {None}
  /\ committed \in BOOLEAN
  /\ pages \subseteq Pages /\ live \subseteq pages /\ IsFiniteSet(live)
  /\ WorkedOn

Waits == [page : Pages, id : RequestIds, shown : BOOLEAN]
Entries == [op : Ops \cup {Stale}, page : Pages, id : RequestIds]
RequestTypes ==
  /\ count \in [Pages -> 0 .. MaxRequests]
  /\ waiting \in [Ops -> Waits \cup {None}]
  /\ irx \in Seq(Entries)
  /\ paused \in [RequestIds -> Ops \cup {Stale, None}]

Reqs == RequestTypes /\ RequestsCanBeAnswered /\ RequestsAreOfTheRealm /\ StaleFirst

-----------------------------------------------------------------------------

\* A message about a page names one, and one about a request a request id.
LEMMA MessageFacts ==
  ASSUME NEW m \in Messages
  PROVE  /\ m.kind \in AboutPage => m.of \in Pages
         /\ m.kind \in AboutRequest => m.of \in RequestIds
BY DEF Messages, Message, AboutPage, AboutRequest, AboutNone

\* Nothing is both a request and the absence of one.
LEMMA Distinct ==
  ASSUME ConnectionAssumption
  PROVE  /\ None \notin Ops /\ Stale \notin Ops /\ Stale # None
         /\ None \notin Waits /\ None \notin Pages
BY DEF ConnectionAssumption, Waits, RequestIds

\* A request, announced or not.
LEMMA IsWait ==
  ASSUME NEW p \in Pages, NEW i \in RequestIds, NEW b \in BOOLEAN
  PROVE  [page |-> p, id |-> i, shown |-> b] \in Waits
BY DEF Waits

\* A request is announced.
LEMMA ShownNow ==
  ASSUME NEW w \in Waits
  PROVE  [w EXCEPT !.shown = TRUE] = [page |-> w.page, id |-> w.id, shown |-> TRUE]
<1> DEFINE told == TRUE
<1>1. told \in BOOLEAN OBVIOUS
<1> HIDE DEF told
<1>2. [w EXCEPT !.shown = told] = [page |-> w.page, id |-> w.id, shown |-> told]
  BY <1>1 DEF Waits
<1> QED BY <1>2 DEF told

\* What is in the channel, and whose it is.
LEMMA ChannelFacts ==
  ASSUME ConnectionAssumption, Reqs, NEW k \in DOMAIN irx
  PROVE  /\ irx[k] \in Entries
         /\ irx[k].op \in Ops \cup {Stale} /\ irx[k].page \in Pages /\ irx[k].id \in RequestIds
         /\ irx[k].op # Stale =>
              /\ irx[k].op \in Ops
              /\ waiting[irx[k].op] = [page |-> irx[k].page, id |-> irx[k].id, shown |-> FALSE]
              /\ waiting[irx[k].op] # None
              /\ waiting[irx[k].op].page = irx[k].page /\ waiting[irx[k].op].id = irx[k].id
              /\ ~waiting[irx[k].op].shown
<1>1. irx[k] \in Entries BY DEF Reqs, RequestTypes
<1>2. irx[k].op \in Ops \cup {Stale} /\ irx[k].page \in Pages /\ irx[k].id \in RequestIds
  BY <1>1 DEF Entries
<1>3. ASSUME irx[k].op # Stale
      PROVE  /\ irx[k].op \in Ops
             /\ waiting[irx[k].op] = [page |-> irx[k].page, id |-> irx[k].id, shown |-> FALSE]
             /\ waiting[irx[k].op] # None
  <2>1. waiting[irx[k].op] = [page |-> irx[k].page, id |-> irx[k].id, shown |-> FALSE]
    BY <1>3 DEF Reqs, RequestsCanBeAnswered
  <2>2. waiting[irx[k].op] \in Waits BY <1>2, <2>1 DEF Waits
  <2> QED BY <1>2, <1>3, <2>1, <2>2, Distinct
<1> QED BY <1>1, <1>2, <1>3

\* What waits, and what of it the table has.
LEMMA WaitingFacts ==
  ASSUME Reqs, NEW o \in Ops, waiting[o] # None
  PROVE  /\ waiting[o] \in Waits
         /\ waiting[o].page \in Pages /\ waiting[o].id \in RequestIds
         /\ waiting[o].shown \in BOOLEAN
         /\ waiting[o].shown => paused[waiting[o].id] = o
         /\ ~waiting[o].shown => \E k \in DOMAIN irx :
              irx[k] = [op |-> o, page |-> waiting[o].page, id |-> waiting[o].id]
<1>1. waiting[o] \in Waits BY DEF Reqs, RequestTypes
<1>2. waiting[o].page \in Pages /\ waiting[o].id \in RequestIds /\ waiting[o].shown \in BOOLEAN
  BY <1>1 DEF Waits
<1> QED BY <1>1, <1>2 DEF Reqs, RequestsCanBeAnswered

LEMMA PausedFacts ==
  ASSUME Reqs, NEW r \in RequestIds, paused[r] \in Ops
  PROVE  /\ waiting[paused[r]] # None /\ waiting[paused[r]].id = r
         /\ waiting[paused[r]].shown
BY DEF Reqs, RequestsCanBeAnswered

\* Nothing happens to the requests.
LEMMA RequestsStay ==
  ASSUME Reqs, UNCHANGED requests, live' \in SUBSET Pages, live \subseteq live'
  PROVE  Reqs'
<1>1. count' = count /\ waiting' = waiting /\ irx' = irx /\ paused' = paused
  BY DEF requests
<1>2. RequestTypes' BY <1>1 DEF Reqs, RequestTypes
<1>3. RequestsCanBeAnswered' BY <1>1 DEF Reqs, RequestsCanBeAnswered
<1>4. RequestsAreOfTheRealm' BY <1>1 DEF Reqs, RequestsAreOfTheRealm
<1>5. StaleFirst' BY <1>1 DEF Reqs, StaleFirst
<1> QED BY <1>2, <1>3, <1>4, <1>5 DEF Reqs

\* Realms end, of some pages or of none.
LEMMA RealmsEnd ==
  ASSUME ConnectionAssumption, Reqs, NEW S \in SUBSET Pages, EndRealms(S),
         live' \in SUBSET Pages, live \ S \subseteq live'
  PROVE  Reqs'
<1> DEFINE gone(x) == IF x \in OpsOf(S) THEN Stale ELSE x
<1>1. /\ count' = [p \in Pages |-> IF p \in S THEN 0 ELSE count[p]]
      /\ waiting' = [o \in Ops |-> IF o \in OpsOf(S) THEN None ELSE waiting[o]]
      /\ irx' = [k \in DOMAIN irx |-> [irx[k] EXCEPT !.op = gone(irx[k].op)]]
      /\ paused' = [r \in RequestIds |-> gone(paused[r])]
  BY DEF EndRealms
<1>2. /\ \A o \in Ops : o \in OpsOf(S) <=> waiting[o] # None /\ waiting[o].page \in S
      /\ OpsOf(S) \subseteq Ops /\ Stale \notin OpsOf(S)
  BY Distinct DEF OpsOf
<1>3. \A o \in Ops : waiting'[o] # None =>
        waiting'[o] = waiting[o] /\ o \notin OpsOf(S) /\ waiting[o].page \notin S
  BY <1>1, <1>2
<1>4. /\ DOMAIN irx' = DOMAIN irx /\ DOMAIN irx = 1 .. Len(irx) /\ Len(irx) \in Nat
      /\ \A k \in DOMAIN irx : /\ irx'[k] \in Entries
                               /\ irx'[k].page = irx[k].page /\ irx'[k].id = irx[k].id
                               /\ irx'[k].op = gone(irx[k].op)
  <2>1. DOMAIN irx' = DOMAIN irx /\ DOMAIN irx = 1 .. Len(irx) /\ Len(irx) \in Nat
    BY <1>1 DEF Reqs, RequestTypes
  <2>2. ASSUME NEW k \in DOMAIN irx
        PROVE  /\ irx'[k] \in Entries
               /\ irx'[k].page = irx[k].page /\ irx'[k].id = irx[k].id
               /\ irx'[k].op = gone(irx[k].op)
    <3>1. irx[k] \in Entries BY ChannelFacts
    <3>2. irx'[k] = [irx[k] EXCEPT !.op = gone(irx[k].op)] BY <1>1
    <3>3. gone(irx[k].op) \in Ops \cup {Stale} BY <3>1 DEF Entries
    <3> HIDE DEF gone
    <3> QED BY <3>1, <3>2, <3>3 DEF Entries
  <2> QED BY <2>1, <2>2
<1>5. \A k \in DOMAIN irx : irx'[k].op # Stale => irx'[k] = irx[k] /\ irx[k].op \notin OpsOf(S)
  <2>1. SUFFICES ASSUME NEW k \in DOMAIN irx, irx'[k].op # Stale
                 PROVE  irx'[k] = irx[k] /\ irx[k].op \notin OpsOf(S)
    OBVIOUS
  <2>2. irx[k].op \notin OpsOf(S) /\ irx'[k].op = irx[k].op BY <1>4, <2>1
  <2>3. irx[k] \in Entries /\ irx'[k] \in Entries BY <1>4, ChannelFacts
  <2> QED BY <1>4, <2>2, <2>3 DEF Entries
<1>6. \A k \in DOMAIN irx : irx[k].op # Stale =>
        (irx[k].op \in OpsOf(S) <=> irx[k].page \in S)
  BY <1>2, ChannelFacts
<1>7. RequestTypes'
  <2>1. irx' \in Seq(Entries)
    <3>1. irx' \in [1 .. Len(irx) -> Entries] BY <1>1, <1>4
    <3> QED BY <1>4, <3>1, SeqDef
  <2>2. count' \in [Pages -> 0 .. MaxRequests]
    BY <1>1, ConnectionAssumption DEF Reqs, RequestTypes, ConnectionAssumption
  <2>3. waiting' \in [Ops -> Waits \cup {None}] BY <1>1 DEF Reqs, RequestTypes
  <2>4. paused' \in [RequestIds -> Ops \cup {Stale, None}] BY <1>1 DEF Reqs, RequestTypes
  <2> QED BY <2>1, <2>2, <2>3, <2>4 DEF RequestTypes
<1>8. RequestsCanBeAnswered'
  <2>1. ASSUME NEW o \in Ops, waiting'[o] # None
        PROVE  IF waiting'[o].shown THEN paused'[waiting'[o].id] = o
               ELSE \E k \in DOMAIN irx' :
                      irx'[k] = [op |-> o, page |-> waiting'[o].page, id |-> waiting'[o].id]
    <3>1. waiting'[o] = waiting[o] /\ o \notin OpsOf(S) /\ waiting[o] # None BY <1>3, <2>1
    <3>2. CASE waiting[o].shown
      <4>1. paused[waiting[o].id] = o /\ waiting[o].id \in RequestIds
        BY <3>1, <3>2, WaitingFacts
      <4>2. paused'[waiting[o].id] = o BY <1>1, <3>1, <4>1
      <4> QED BY <3>1, <3>2, <4>2
    <3>3. CASE ~waiting[o].shown
      <4>1. PICK k \in DOMAIN irx :
              irx[k] = [op |-> o, page |-> waiting[o].page, id |-> waiting[o].id]
        BY <3>1, <3>3, WaitingFacts
      <4>2. irx'[k].op # Stale BY <1>4, <3>1, <4>1, Distinct
      <4>3. irx'[k] = irx[k] /\ k \in DOMAIN irx' BY <1>4, <1>5, <4>2
      <4> QED BY <3>1, <3>3, <4>1, <4>3
    <3> QED BY <3>2, <3>3
  <2>2. ASSUME NEW r \in RequestIds, paused'[r] \in Ops
        PROVE  waiting'[paused'[r]] # None /\ waiting'[paused'[r]].id = r
                 /\ waiting'[paused'[r]].shown
    <3>1. paused'[r] = paused[r] /\ paused[r] \notin OpsOf(S) BY <1>1, <2>2, Distinct
    <3>2. waiting'[paused[r]] = waiting[paused[r]] BY <1>1, <2>2, <3>1
    <3> QED BY <2>2, <3>1, <3>2, PausedFacts
  <2>3. ASSUME NEW k \in DOMAIN irx', irx'[k].op # Stale
        PROVE  waiting'[irx'[k].op] = [page |-> irx'[k].page, id |-> irx'[k].id, shown |-> FALSE]
    <3>1. k \in DOMAIN irx /\ irx'[k] = irx[k] /\ irx[k].op \notin OpsOf(S)
      BY <1>4, <1>5, <2>3
    <3>2. /\ irx[k].op \in Ops
          /\ waiting[irx[k].op] = [page |-> irx[k].page, id |-> irx[k].id, shown |-> FALSE]
      BY <2>3, <3>1, ChannelFacts
    <3> QED BY <1>1, <3>1, <3>2
  <2>4. ASSUME NEW k \in DOMAIN irx', NEW l \in DOMAIN irx',
               irx'[k].op = irx'[l].op, irx'[k].op # Stale
        PROVE  k = l
    <3>1. irx'[k] = irx[k] /\ irx'[l] = irx[l] /\ k \in DOMAIN irx /\ l \in DOMAIN irx
      BY <1>4, <1>5, <2>4
    <3> QED BY <2>4, <3>1 DEF Reqs, RequestsCanBeAnswered
  <2> QED BY <2>1, <2>2, <2>3, <2>4 DEF RequestsCanBeAnswered
<1>9. RequestsAreOfTheRealm'
  <2>1. ASSUME NEW o \in Ops, waiting'[o] # None
        PROVE  waiting'[o].page \in live' /\ waiting'[o].id <= count'[waiting'[o].page]
    <3>1. waiting'[o] = waiting[o] /\ waiting[o].page \notin S /\ waiting[o] # None
      BY <1>3, <2>1
    <3>2. waiting[o].page \in live /\ waiting[o].id <= count[waiting[o].page]
      BY <3>1 DEF Reqs, RequestsAreOfTheRealm
    <3>3. waiting[o].page \in Pages BY <3>1, WaitingFacts
    <3>4. count'[waiting[o].page] = count[waiting[o].page] BY <1>1, <3>1, <3>3
    <3> QED BY <3>1, <3>2, <3>4
  <2>2. ASSUME NEW o \in Ops, NEW x \in Ops, waiting'[o] # None, waiting'[x] # None, o # x
        PROVE  waiting'[o].page # waiting'[x].page \/ waiting'[o].id # waiting'[x].id
    <3>1. waiting'[o] = waiting[o] /\ waiting'[x] = waiting[x] BY <1>3, <2>2
    <3> QED BY <2>2, <3>1 DEF Reqs, RequestsAreOfTheRealm
  <2>3. \A p \in Pages \ live' : count'[p] = 0 BY <1>1 DEF Reqs, RequestsAreOfTheRealm
  <2> QED BY <2>1, <2>2, <2>3 DEF RequestsAreOfTheRealm
<1>10. StaleFirst'
  <2>1. ASSUME NEW k \in DOMAIN irx', NEW l \in DOMAIN irx',
               k < l, irx'[k].page = irx'[l].page, irx'[l].op = Stale
        PROVE  irx'[k].op = Stale
    <3>1. k \in DOMAIN irx /\ l \in DOMAIN irx /\ irx[k].page = irx[l].page BY <1>4, <2>1
    <3>2. CASE irx[l].op = Stale
      <4>1. irx[k].op = Stale BY <2>1, <3>1, <3>2 DEF Reqs, StaleFirst
      <4> QED BY <1>4, <3>1, <4>1
    <3>3. CASE irx[l].op # Stale
      <4>1. irx[l].op \in OpsOf(S) BY <1>4, <2>1, <3>1, <3>3
      <4>2. irx[k].page \in S BY <1>6, <3>1, <3>3, <4>1
      <4>3. irx[k].op = Stale \/ irx[k].op \in OpsOf(S) BY <1>6, <3>1, <4>2
      <4> QED BY <1>4, <3>1, <4>3
    <3> QED BY <3>2, <3>3
  <2>2. ASSUME NEW k \in DOMAIN irx', NEW o \in Ops,
               irx'[k].op = Stale, waiting'[o] # None, waiting'[o].page = irx'[k].page
        PROVE  ~waiting'[o].shown
    <3>1. /\ waiting'[o] = waiting[o] /\ waiting[o].page \notin S /\ waiting[o] # None
          /\ k \in DOMAIN irx /\ irx[k].page = waiting[o].page
      BY <1>3, <1>4, <2>2
    <3>2. irx[k].op = Stale BY <1>4, <1>6, <2>2, <3>1
    <3> QED BY <3>1, <3>2 DEF Reqs, StaleFirst
  <2> QED BY <2>1, <2>2 DEF StaleFirst
<1> QED BY <1>7, <1>8, <1>9, <1>10 DEF Reqs

\* A decision: the resolver of a paused request is taken out and called.
LEMMA ResolveKeeps ==
  ASSUME ConnectionAssumption, Reqs, NEW r \in RequestIds, Resolve(r), live' = live
  PROVE  Reqs'
<1>1. /\ waiting' = [o \in Ops |-> IF o = paused[r] THEN None ELSE waiting[o]]
      /\ paused' = [paused EXCEPT ![r] = None]
      /\ count' = count /\ irx' = irx
  BY DEF Resolve
<1>2. RequestTypes' BY <1>1 DEF Reqs, RequestTypes
<1>3. \A o \in Ops : waiting'[o] # None =>
        waiting'[o] = waiting[o] /\ waiting[o] # None /\ o # paused[r]
  BY <1>1
<1>4. \A o \in Ops : o = paused[r] => waiting[o] # None /\ waiting[o].id = r /\ waiting[o].shown
  BY PausedFacts
<1>5. RequestsCanBeAnswered'
  <2>1. ASSUME NEW o \in Ops, waiting'[o] # None
        PROVE  IF waiting'[o].shown THEN paused'[waiting'[o].id] = o
               ELSE \E k \in DOMAIN irx' :
                      irx'[k] = [op |-> o, page |-> waiting'[o].page, id |-> waiting'[o].id]
    <3>1. waiting'[o] = waiting[o] /\ waiting[o] # None /\ o # paused[r] BY <1>3, <2>1
    <3>2. CASE waiting[o].shown
      <4>1. paused[waiting[o].id] = o /\ waiting[o].id \in RequestIds
        BY <3>1, <3>2, WaitingFacts
      <4>2. waiting[o].id # r BY <3>1, <4>1
      <4>3. paused'[waiting[o].id] = o BY <1>1, <4>1, <4>2 DEF Reqs, RequestTypes
      <4> QED BY <3>1, <3>2, <4>3
    <3>3. CASE ~waiting[o].shown
      <4>1. \E k \in DOMAIN irx :
              irx[k] = [op |-> o, page |-> waiting[o].page, id |-> waiting[o].id]
        BY <3>1, <3>3, WaitingFacts
      <4> QED BY <1>1, <3>1, <3>3, <4>1
    <3> QED BY <3>2, <3>3
  <2>2. ASSUME NEW q \in RequestIds, paused'[q] \in Ops
        PROVE  waiting'[paused'[q]] # None /\ waiting'[paused'[q]].id = q
                 /\ waiting'[paused'[q]].shown
    <3>1. q # r /\ paused'[q] = paused[q]
      BY <1>1, <2>2, Distinct DEF Reqs, RequestTypes
    <3>2. waiting[paused[q]].id = q /\ waiting[paused[q]] # None /\ waiting[paused[q]].shown
      BY <2>2, <3>1, PausedFacts
    <3>3. paused[q] # paused[r] BY <1>4, <2>2, <3>1, <3>2
    <3>4. waiting'[paused[q]] = waiting[paused[q]] BY <1>1, <2>2, <3>1, <3>3
    <3> QED BY <3>1, <3>2, <3>4
  <2>3. ASSUME NEW k \in DOMAIN irx, irx[k].op # Stale
        PROVE  waiting'[irx[k].op] = [page |-> irx[k].page, id |-> irx[k].id, shown |-> FALSE]
    <3>1. /\ irx[k].op \in Ops /\ ~waiting[irx[k].op].shown
          /\ waiting[irx[k].op] = [page |-> irx[k].page, id |-> irx[k].id, shown |-> FALSE]
      BY <2>3, ChannelFacts
    <3>2. irx[k].op # paused[r] BY <1>4, <3>1
    <3> QED BY <1>1, <3>1, <3>2
  <2> QED BY <1>1, <2>1, <2>2, <2>3 DEF Reqs, RequestsCanBeAnswered
<1>6. RequestsAreOfTheRealm' BY <1>1, <1>3 DEF Reqs, RequestsAreOfTheRealm
<1>7. StaleFirst' BY <1>1, <1>3 DEF Reqs, StaleFirst
<1> QED BY <1>2, <1>5, <1>6, <1>7 DEF Reqs

\* A script's request enters the channel under the next number of its realm.
LEMMA RequestKeeps ==
  ASSUME ConnectionAssumption, Reqs, live \subseteq Pages,
         NEW p \in live, NEW o \in Ops, Request(p, o)
  PROVE  Reqs'
<1> DEFINE new == [op |-> o, page |-> p, id |-> count[p] + 1]
<1>1. /\ waiting[o] = None /\ count[p] < MaxRequests
      /\ count' = [count EXCEPT ![p] = @ + 1]
      /\ waiting' = [waiting EXCEPT ![o] = [page |-> p, id |-> count[p] + 1, shown |-> FALSE]]
      /\ irx' = Append(irx, new)
      /\ live' = live /\ paused' = paused
  BY DEF Request
<1>2. p \in Pages /\ MaxRequests \in Nat BY DEF ConnectionAssumption
<1>3. count[p] \in Nat /\ count[p] + 1 \in RequestIds
  BY <1>1, <1>2 DEF Reqs, RequestTypes, RequestIds
<1>4. new \in Entries BY <1>2, <1>3 DEF Entries
<1>5. RequestTypes'
  <2>1. count' \in [Pages -> 0 .. MaxRequests] BY <1>1, <1>2 DEF Reqs, RequestTypes
  <2>2. waiting' \in [Ops -> Waits \cup {None}]
    BY <1>1, <1>2, <1>3 DEF Reqs, RequestTypes, Waits
  <2> QED BY <1>1, <1>4, <2>1, <2>2 DEF Reqs, RequestTypes
<1>6. /\ DOMAIN irx = 1 .. Len(irx) /\ Len(irx) \in Nat
      /\ DOMAIN irx' = 1 .. Len(irx) + 1
      /\ \A k \in DOMAIN irx : irx'[k] = irx[k]
      /\ irx'[Len(irx) + 1] = new
  BY <1>1, <1>4 DEF Reqs, RequestTypes
<1>7. /\ waiting'[o] = [page |-> p, id |-> count[p] + 1, shown |-> FALSE]
      /\ waiting'[o] \in Waits /\ waiting'[o] # None
  <2>1. waiting'[o] = [page |-> p, id |-> count[p] + 1, shown |-> FALSE]
    BY <1>1 DEF Reqs, RequestTypes
  <2>2. waiting'[o] \in Waits BY <2>1, <1>2, <1>3 DEF Waits
  <2> QED BY <2>1, <2>2, Distinct
<1>8. \A x \in Ops \ {o} : waiting'[x] = waiting[x] BY <1>1 DEF Reqs, RequestTypes
<1>9. \A k \in DOMAIN irx : irx[k].op # o BY <1>1, ChannelFacts, Distinct
<1>10. \A k \in DOMAIN irx' :
         \/ k \in DOMAIN irx /\ irx'[k] = irx[k] /\ irx'[k].op # o
         \/ k = Len(irx) + 1 /\ irx'[k] = new
  BY <1>6, <1>9
<1>11. RequestsCanBeAnswered'
  <2>1. ASSUME NEW x \in Ops, waiting'[x] # None
        PROVE  IF waiting'[x].shown THEN paused'[waiting'[x].id] = x
               ELSE \E k \in DOMAIN irx' :
                      irx'[k] = [op |-> x, page |-> waiting'[x].page, id |-> waiting'[x].id]
    <3>1. CASE x = o
      <4>1. Len(irx) + 1 \in DOMAIN irx' BY <1>6
      <4> QED BY <1>6, <1>7, <3>1, <4>1
    <3>2. CASE x # o
      <4>1. waiting'[x] = waiting[x] /\ waiting[x] # None BY <1>8, <2>1, <3>2
      <4>2. waiting[x].shown => paused[waiting[x].id] = x BY <4>1, WaitingFacts
      <4>3. ~waiting[x].shown => \E k \in DOMAIN irx :
              irx[k] = [op |-> x, page |-> waiting[x].page, id |-> waiting[x].id]
        BY <4>1, WaitingFacts
      <4>4. \A k \in DOMAIN irx : k \in DOMAIN irx' BY <1>6
      <4> QED BY <1>1, <1>6, <4>1, <4>2, <4>3, <4>4
    <3> QED BY <3>1, <3>2
  <2>2. ASSUME NEW q \in RequestIds, paused'[q] \in Ops
        PROVE  waiting'[paused'[q]] # None /\ waiting'[paused'[q]].id = q
                 /\ waiting'[paused'[q]].shown
    <3>1. /\ waiting[paused[q]] # None /\ waiting[paused[q]].id = q
          /\ waiting[paused[q]].shown
      BY <1>1, <2>2, PausedFacts
    <3>2. paused[q] # o BY <1>1, <3>1
    <3> QED BY <1>1, <1>8, <2>2, <3>1, <3>2
  <2>3. ASSUME NEW k \in DOMAIN irx', irx'[k].op # Stale
        PROVE  waiting'[irx'[k].op] = [page |-> irx'[k].page, id |-> irx'[k].id, shown |-> FALSE]
    <3>1. CASE k \in DOMAIN irx /\ irx'[k] = irx[k] /\ irx'[k].op # o
      BY <1>8, <2>3, <3>1, ChannelFacts
    <3>2. CASE irx'[k] = new BY <1>7, <3>2
    <3> QED BY <1>10, <3>1, <3>2
  <2>4. ASSUME NEW k \in DOMAIN irx', NEW l \in DOMAIN irx',
               irx'[k].op = irx'[l].op, irx'[k].op # Stale
        PROVE  k = l
    BY <1>10, <2>4 DEF Reqs, RequestsCanBeAnswered
  <2> QED BY <2>1, <2>2, <2>3, <2>4 DEF RequestsCanBeAnswered
<1>12. RequestsAreOfTheRealm'
  <2>1. \A x \in Ops : waiting[x] # None =>
          /\ waiting[x].id \in Nat /\ waiting[x].page \in live
          /\ waiting[x].id <= count[waiting[x].page]
    BY WaitingFacts DEF Reqs, RequestsAreOfTheRealm, RequestIds
  <2>2. /\ count'[p] = count[p] + 1 /\ \A q \in Pages \ {p} : count'[q] = count[q]
        /\ \A q \in Pages : count[q] \in Nat
    BY <1>1, <1>2 DEF Reqs, RequestTypes
  <2>3. \A x \in Ops : waiting'[x] # None =>
          waiting'[x].page \in live' /\ waiting'[x].id <= count'[waiting'[x].page]
    <3>1. ASSUME NEW x \in Ops, x # o, waiting[x] # None
          PROVE  waiting[x].id <= count'[waiting[x].page]
      BY <2>1, <2>2, <3>1
    <3> QED BY <1>1, <1>3, <1>7, <1>8, <2>1, <2>2, <3>1
  <2>4. ASSUME NEW x \in Ops, NEW y \in Ops, waiting'[x] # None, waiting'[y] # None, x # y
        PROVE  waiting'[x].page # waiting'[y].page \/ waiting'[x].id # waiting'[y].id
    <3>1. ASSUME NEW z \in Ops, z # o, waiting'[z] # None, waiting[z].page = p
          PROVE  waiting[z].id # count[p] + 1
      BY <1>3, <1>8, <2>1, <3>1
    <3>2. CASE x = o BY <1>7, <1>8, <2>4, <3>1, <3>2
    <3>3. CASE y = o BY <1>7, <1>8, <2>4, <3>1, <3>3
    <3>4. CASE x # o /\ y # o BY <1>8, <2>4, <3>4 DEF Reqs, RequestsAreOfTheRealm
    <3> QED BY <3>2, <3>3, <3>4
  <2>5. \A q \in Pages \ live' : count'[q] = 0
    BY <1>1, <2>2 DEF Reqs, RequestsAreOfTheRealm
  <2> QED BY <2>3, <2>4, <2>5 DEF RequestsAreOfTheRealm
<1>13. StaleFirst'
  <2>1. o # Stale BY Distinct
  <2>2. \A k, l \in DOMAIN irx' :
          k < l /\ irx'[k].page = irx'[l].page /\ irx'[l].op = Stale => irx'[k].op = Stale
    BY <1>6, <1>10, <2>1 DEF Reqs, StaleFirst
  <2>3. ASSUME NEW k \in DOMAIN irx', NEW x \in Ops,
               irx'[k].op = Stale, waiting'[x] # None, waiting'[x].page = irx'[k].page
        PROVE  ~waiting'[x].shown
    <3>1. k \in DOMAIN irx /\ irx'[k] = irx[k] BY <1>10, <2>1, <2>3
    <3>2. CASE x = o BY <1>7, <3>2
    <3>3. CASE x # o BY <1>8, <2>3, <3>1, <3>3 DEF Reqs, StaleFirst
    <3> QED BY <3>2, <3>3
  <2> QED BY <2>2, <2>3 DEF StaleFirst
<1> QED BY <1>5, <1>11, <1>12, <1>13 DEF Reqs

\* The channel without its first.
LEMMA RestOfChannel ==
  ASSUME Reqs, irx # <<>>, irx' = Tail(irx)
  PROVE  /\ irx' \in Seq(Entries) /\ DOMAIN irx' = 1 .. Len(irx) - 1
         /\ DOMAIN irx = 1 .. Len(irx) /\ Len(irx) \in Nat
         /\ 1 \in DOMAIN irx /\ Head(irx) = irx[1]
         /\ \A k \in DOMAIN irx' : k \in Nat /\ k + 1 \in DOMAIN irx /\ irx'[k] = irx[k + 1]
         /\ \A k \in DOMAIN irx : k # 1 => k - 1 \in DOMAIN irx' /\ irx'[k - 1] = irx[k]
BY DEF Reqs, RequestTypes

\* What announcing does to those that wait.
LEMMA Announced ==
  ASSUME ConnectionAssumption, Reqs, irx # <<>>, Announce
  PROVE  /\ irx' = Tail(irx) /\ 1 \in DOMAIN irx
         /\ paused' = [paused EXCEPT ![irx[1].id] = irx[1].op]
         /\ count' = count /\ live' = live
         /\ waiting' \in [Ops -> Waits \cup {None}]
         /\ irx[1].op \in Ops =>
              waiting'[irx[1].op] = [page |-> irx[1].page, id |-> irx[1].id, shown |-> TRUE]
         /\ \A o \in Ops : o # irx[1].op =>
              waiting'[o] = IF o = paused[irx[1].id] THEN None ELSE waiting[o]
<1>1. /\ irx' = Tail(irx) /\ 1 \in DOMAIN irx
      /\ paused' = [paused EXCEPT ![irx[1].id] = irx[1].op]
      /\ waiting' = [o \in Ops |-> IF o = irx[1].op THEN [waiting[o] EXCEPT !.shown = TRUE]
                                   ELSE IF o = paused[irx[1].id] THEN None ELSE waiting[o]]
      /\ count' = count /\ live' = live
  BY RestOfChannel DEF Announce
<1>2. \A o \in Ops : o # irx[1].op =>
        waiting'[o] = IF o = paused[irx[1].id] THEN None ELSE waiting[o]
  BY <1>1
<1>3. irx[1].page \in Pages /\ irx[1].id \in RequestIds BY <1>1, ChannelFacts
<1>4. ASSUME irx[1].op \in Ops
      PROVE  waiting'[irx[1].op] = [page |-> irx[1].page, id |-> irx[1].id, shown |-> TRUE]
  <2>1. /\ waiting[irx[1].op] # None
        /\ waiting[irx[1].op].page = irx[1].page /\ waiting[irx[1].op].id = irx[1].id
    BY <1>1, <1>4, ChannelFacts, Distinct
  <2>2. waiting[irx[1].op] \in Waits BY <1>4, <2>1, WaitingFacts
  <2>3. waiting'[irx[1].op] = [waiting[irx[1].op] EXCEPT !.shown = TRUE] BY <1>1, <1>4
  <2> QED BY <2>1, <2>2, <2>3, ShownNow
<1>5. \A o \in Ops : waiting'[o] \in Waits \cup {None}
  <2>1. SUFFICES ASSUME NEW o \in Ops PROVE waiting'[o] \in Waits \cup {None} OBVIOUS
  <2>2. CASE o = irx[1].op BY <1>3, <1>4, <2>2, IsWait
  <2>3. CASE o # irx[1].op BY <1>2, <2>3 DEF Reqs, RequestTypes
  <2> QED BY <2>2, <2>3
<1>6. waiting' \in [Ops -> Waits \cup {None}] BY <1>1, <1>5
<1> QED BY <1>1, <1>2, <1>4, <1>6

LEMMA AnnounceKeeps ==
  ASSUME ConnectionAssumption, Reqs, irx # <<>>, Announce
  PROVE  Reqs'
<1> DEFINE new == irx[1]
<1>1. /\ irx' = Tail(irx) /\ 1 \in DOMAIN irx
      /\ paused' = [paused EXCEPT ![new.id] = new.op]
      /\ count' = count /\ live' = live
      /\ waiting' \in [Ops -> Waits \cup {None}]
      /\ new.op \in Ops => waiting'[new.op] = [page |-> new.page, id |-> new.id, shown |-> TRUE]
      /\ \A o \in Ops : o # new.op =>
           waiting'[o] = IF o = paused[new.id] THEN None ELSE waiting[o]
  BY Announced
<1>2. /\ new.op \in Ops \cup {Stale} /\ new.page \in Pages /\ new.id \in RequestIds
      /\ new.op \in Ops => /\ waiting[new.op] # None /\ ~waiting[new.op].shown
                           /\ waiting[new.op].page = new.page /\ waiting[new.op].id = new.id
  BY <1>1, ChannelFacts, Distinct
<1>3. /\ irx' \in Seq(Entries) /\ DOMAIN irx' = 1 .. Len(irx) - 1
      /\ \A k \in DOMAIN irx' : k \in Nat /\ k + 1 \in DOMAIN irx /\ irx'[k] = irx[k + 1]
      /\ \A k \in DOMAIN irx : k # 1 => k - 1 \in DOMAIN irx' /\ irx'[k - 1] = irx[k]
      /\ DOMAIN irx = 1 .. Len(irx) /\ Len(irx) \in Nat
  BY <1>1, RestOfChannel
<1>4. new.op \in Ops => waiting'[new.op] # None
  <2>0. [page |-> new.page, id |-> new.id, shown |-> TRUE] \in Waits BY <1>2, IsWait
  <2>1. new.op \in Ops => waiting'[new.op] \in Waits BY <1>1, <2>0
  <2> QED BY <2>1, Distinct
<1>5. \A o \in Ops : waiting'[o] # None =>
        /\ waiting[o] # None
        /\ waiting'[o].page = waiting[o].page /\ waiting'[o].id = waiting[o].id
        /\ o # new.op => o # paused[new.id] /\ waiting'[o] = waiting[o]
  BY <1>1, <1>2
<1>6. \A q \in RequestIds : paused'[q] = IF q = new.id THEN new.op ELSE paused[q]
  BY <1>1, <1>2 DEF Reqs, RequestTypes
<1>7. \A k \in DOMAIN irx : irx[k].op = new.op /\ new.op # Stale => k = 1
  BY <1>1 DEF Reqs, RequestsCanBeAnswered
<1>8. RequestTypes' BY <1>1, <1>2, <1>3 DEF Reqs, RequestTypes
<1>9. RequestsCanBeAnswered'
  <2>1. ASSUME NEW o \in Ops, waiting'[o] # None
        PROVE  IF waiting'[o].shown THEN paused'[waiting'[o].id] = o
               ELSE \E k \in DOMAIN irx' :
                      irx'[k] = [op |-> o, page |-> waiting'[o].page, id |-> waiting'[o].id]
    <3>1. CASE o = new.op BY <1>1, <1>2, <1>6, <3>1
    <3>2. CASE o # new.op /\ ~waiting[o].shown
      <4>1. waiting[o] # None /\ waiting'[o] = waiting[o] BY <1>5, <2>1, <3>2
      <4>2. PICK k \in DOMAIN irx :
              irx[k] = [op |-> o, page |-> waiting[o].page, id |-> waiting[o].id]
        BY <3>2, <4>1, WaitingFacts
      <4>3. k # 1 BY <3>2, <4>2
      <4> QED BY <1>3, <3>2, <4>1, <4>2, <4>3
    <3>3. CASE o # new.op /\ waiting[o].shown
      <4>1. waiting[o] # None /\ waiting'[o] = waiting[o] /\ o # paused[new.id]
        BY <1>5, <2>1, <3>3
      <4>2. waiting[o].id \in RequestIds /\ paused[waiting[o].id] = o
        BY <3>3, <4>1, WaitingFacts
      <4>3. waiting[o].id # new.id BY <4>1, <4>2
      <4> QED BY <1>6, <3>3, <4>1, <4>2, <4>3
    <3> QED BY <3>1, <3>2, <3>3
  <2>2. ASSUME NEW q \in RequestIds, paused'[q] \in Ops
        PROVE  waiting'[paused'[q]] # None /\ waiting'[paused'[q]].id = q
                 /\ waiting'[paused'[q]].shown
    <3>1. CASE q = new.id BY <1>1, <1>4, <1>6, <2>2, <3>1
    <3>2. CASE q # new.id
      <4>1. /\ paused'[q] = paused[q]
            /\ waiting[paused[q]] # None /\ waiting[paused[q]].id = q /\ waiting[paused[q]].shown
        BY <1>6, <2>2, <3>2, PausedFacts
      <4>2. paused[q] # new.op BY <1>2, <2>2, <4>1
      <4>3. paused[q] # paused[new.id] BY <1>2, <2>2, <3>2, <4>1, PausedFacts
      <4>4. waiting'[paused[q]] = waiting[paused[q]] BY <1>1, <2>2, <4>1, <4>2, <4>3
      <4> QED BY <4>1, <4>4
    <3> QED BY <3>1, <3>2
  <2>3. ASSUME NEW k \in DOMAIN irx', irx'[k].op # Stale
        PROVE  waiting'[irx'[k].op] = [page |-> irx'[k].page, id |-> irx'[k].id, shown |-> FALSE]
    <3>1. k \in Nat /\ k + 1 \in DOMAIN irx /\ irx'[k] = irx[k + 1] /\ k # 0 BY <1>3
    <3>2. /\ irx[k + 1].op \in Ops /\ ~waiting[irx[k + 1].op].shown
          /\ waiting[irx[k + 1].op] =
               [page |-> irx[k + 1].page, id |-> irx[k + 1].id, shown |-> FALSE]
      BY <2>3, <3>1, ChannelFacts
    <3>3. irx[k + 1].op # new.op BY <1>7, <2>3, <3>1
    <3>4. irx[k + 1].op # paused[new.id] BY <1>2, <3>2, PausedFacts
    <3> QED BY <1>1, <3>1, <3>2, <3>3, <3>4
  <2>4. ASSUME NEW k \in DOMAIN irx', NEW l \in DOMAIN irx',
               irx'[k].op = irx'[l].op, irx'[k].op # Stale
        PROVE  k = l
    <3>1. /\ k + 1 \in DOMAIN irx /\ irx'[k] = irx[k + 1] /\ k \in Nat
          /\ l + 1 \in DOMAIN irx /\ irx'[l] = irx[l + 1] /\ l \in Nat
      BY <1>3
    <3>2. k + 1 = l + 1 BY <2>4, <3>1 DEF Reqs, RequestsCanBeAnswered
    <3> QED BY <3>1, <3>2
  <2> QED BY <2>1, <2>2, <2>3, <2>4 DEF RequestsCanBeAnswered
<1>10. RequestsAreOfTheRealm'
  <2>1. ASSUME NEW o \in Ops, waiting'[o] # None
        PROVE  waiting'[o].page \in live' /\ waiting'[o].id <= count'[waiting'[o].page]
    <3>1. waiting[o] # None /\ waiting'[o].page = waiting[o].page /\ waiting'[o].id = waiting[o].id
      BY <1>5, <2>1
    <3>2. waiting[o].page \in live /\ waiting[o].id <= count[waiting[o].page]
      BY <3>1 DEF Reqs, RequestsAreOfTheRealm
    <3> QED BY <1>1, <3>1, <3>2
  <2>2. ASSUME NEW o \in Ops, NEW x \in Ops, waiting'[o] # None, waiting'[x] # None, o # x
        PROVE  waiting'[o].page # waiting'[x].page \/ waiting'[o].id # waiting'[x].id
    <3>1. /\ waiting[o] # None /\ waiting[x] # None
          /\ waiting'[o].page = waiting[o].page /\ waiting'[o].id = waiting[o].id
          /\ waiting'[x].page = waiting[x].page /\ waiting'[x].id = waiting[x].id
      BY <1>5, <2>2
    <3>2. waiting[o].page # waiting[x].page \/ waiting[o].id # waiting[x].id
      BY <2>2, <3>1 DEF Reqs, RequestsAreOfTheRealm
    <3> QED BY <3>1, <3>2
  <2>3. \A q \in Pages \ live' : count'[q] = 0 BY <1>1 DEF Reqs, RequestsAreOfTheRealm
  <2> QED BY <2>1, <2>2, <2>3 DEF RequestsAreOfTheRealm
<1>11. StaleFirst'
  <2>1. ASSUME NEW k \in DOMAIN irx', NEW l \in DOMAIN irx',
               k < l, irx'[k].page = irx'[l].page, irx'[l].op = Stale
        PROVE  irx'[k].op = Stale
    <3>1. /\ k + 1 \in DOMAIN irx /\ irx'[k] = irx[k + 1] /\ k \in Nat
          /\ l + 1 \in DOMAIN irx /\ irx'[l] = irx[l + 1] /\ l \in Nat /\ k + 1 < l + 1
      BY <1>3, <2>1
    <3> QED BY <2>1, <3>1 DEF Reqs, StaleFirst
  <2>2. ASSUME NEW k \in DOMAIN irx', NEW o \in Ops,
               irx'[k].op = Stale, waiting'[o] # None, waiting'[o].page = irx'[k].page
        PROVE  ~waiting'[o].shown
    <3>1. k \in Nat /\ k # 0 /\ k + 1 \in DOMAIN irx /\ irx'[k] = irx[k + 1] /\ 1 < k + 1
      BY <1>3
    <3>2. waiting[o] # None /\ waiting[o].page = irx[k + 1].page BY <1>5, <2>2, <3>1
    <3>3. o # new.op
      <4>1. SUFFICES ASSUME o = new.op PROVE FALSE OBVIOUS
      <4>2. irx[1].page = irx[k + 1].page BY <1>2, <3>2, <4>1
      <4>3. irx[1].op = Stale BY <1>1, <2>2, <3>1, <4>2 DEF Reqs, StaleFirst
      <4> QED BY <4>1, <4>3, Distinct
    <3>4. waiting'[o] = waiting[o] BY <1>5, <2>2, <3>3
    <3> QED BY <2>2, <3>1, <3>2, <3>4 DEF Reqs, StaleFirst
  <2> QED BY <2>1, <2>2 DEF StaleFirst
<1> QED BY <1>8, <1>9, <1>10, <1>11 DEF Reqs

\* Without a live page nothing waits, and what is left of the channel is stale.
LEMMA DroppingKeeps ==
  ASSUME ConnectionAssumption, Reqs, live = {}, AnnounceIdle
  PROVE  Reqs'
<1>1. \A o \in Ops : waiting[o] = None BY DEF Reqs, RequestsAreOfTheRealm
<1>2. /\ irx # <<>> /\ irx' = Tail(irx) /\ waiting' = waiting
      /\ count' = count /\ paused' = paused /\ live' = live
  BY <1>1 DEF AnnounceIdle, Reqs, RequestTypes
<1>3. /\ irx' \in Seq(Entries)
      /\ \A k \in DOMAIN irx' : k + 1 \in DOMAIN irx /\ irx'[k] = irx[k + 1]
  BY <1>2, RestOfChannel
<1>4. \A k \in DOMAIN irx : irx[k].op = Stale BY <1>1, ChannelFacts
<1>5. \A k \in DOMAIN irx' : irx'[k].op = Stale BY <1>3, <1>4
<1>6. RequestTypes' BY <1>2, <1>3 DEF Reqs, RequestTypes
<1>7. RequestsCanBeAnswered' BY <1>1, <1>2, <1>5 DEF Reqs, RequestsCanBeAnswered
<1>8. RequestsAreOfTheRealm' BY <1>2 DEF Reqs, RequestsAreOfTheRealm
<1>9. StaleFirst' BY <1>1, <1>2, <1>5 DEF StaleFirst
<1> QED BY <1>6, <1>7, <1>8, <1>9 DEF Reqs

-----------------------------------------------------------------------------
(* The steps. *)

Inv == Processor /\ Reqs

LEMMA InitInv == ASSUME ConnectionAssumption, Init PROVE Inv
<1>1. Processor
  <2>1. wire \in Seq(Messages) /\ rx \in Seq(Messages) /\ deferred \in Seq(Messages) BY DEF Init
  <2>2. IsFiniteSet(live) BY FS_EmptySet DEF Init
  <2> QED BY <2>1, <2>2 DEF Init, Processor, WorkedOn
<1>2. irx = <<>> /\ DOMAIN irx = {} BY DEF Init
<1>3. RequestTypes BY ConnectionAssumption DEF Init, RequestTypes, ConnectionAssumption
<1>4. RequestsCanBeAnswered BY <1>2, Distinct DEF Init, RequestsCanBeAnswered
<1>5. RequestsAreOfTheRealm BY DEF Init, RequestsAreOfTheRealm
<1>6. StaleFirst BY <1>2 DEF StaleFirst
<1> QED BY <1>1, <1>3, <1>4, <1>5, <1>6 DEF Inv, Reqs

\* Steps that do nothing to requests and take no page away.
LEMMA ProcessorOnly ==
  ASSUME Inv, UNCHANGED requests, live' \in SUBSET Pages, live \subseteq live', Processor'
  PROVE  Inv'
BY RequestsStay DEF Inv

\* What taking a message leaves of the channel and of what was deferred.
LEMMA TakeFacts ==
  ASSUME Processor, NEW m \in Messages, Take(m)
  PROVE  /\ at = "select" /\ wire' \in Seq(Messages)
         /\ rx' \in Seq(Messages) /\ deferred' \in Seq(Messages)
<1>1. wire \in Seq(Messages) /\ rx \in Seq(Messages) /\ deferred \in Seq(Messages)
  BY DEF Processor
<1>2. at = "select" /\ wire' = wire BY DEF Take
<1>3. CASE deferred # <<>> /\ deferred' = Tail(deferred) /\ rx' = rx
  BY <1>1, <1>2, <1>3, HeadTailProperties
<1>4. CASE rx # <<>> /\ rx' = Tail(rx) /\ deferred' = deferred
  BY <1>1, <1>2, <1>4, HeadTailProperties
<1> QED BY <1>3, <1>4 DEF Take

\* What the processor goes on with.
LEMMA Carried ==
  ASSUME Processor, NEW w, NEW m \in Messages \cup {None}, NEW p \in Pages \cup {None},
         Carry(w, m, p),
         wire' \in Seq(Messages), rx' \in Seq(Messages), deferred' \in Seq(Messages),
         w \in {"select", "command", "eval", "inner", "create", "navigation", "ended"},
         pages' \subseteq Pages, live' \subseteq pages', IsFiniteSet(live'),
         w \notin {"select", "ended"} => p \in pages',
         w = "navigation" => live' \subseteq {p},
         w \in {"command", "eval", "inner"} => p \in live'
  PROVE  Processor'
BY DEF Processor, Carry, WorkedOn

\* With nothing else, or with a navigation that a page which is live has asked for.
LEMMA AnsweredCarries ==
  ASSUME Processor, NEW S, S \subseteq live', AnsweredFor(S),
         wire' \in Seq(Messages), rx' \in Seq(Messages), deferred' \in Seq(Messages),
         pages' \subseteq Pages, live' \subseteq pages', IsFiniteSet(live')
  PROVE  Processor'
<1>1. CASE Answered BY <1>1, Carried DEF Answered
<1>2. ASSUME NEW p \in S, Carry("inner", None, p) PROVE Processor'
  <2>1. p \in live' /\ p \in pages' /\ p \in Pages BY <1>2
  <2> QED BY <1>2, <2>1, Carried
<1> QED BY <1>1, <1>2 DEF AnsweredFor

LEMMA NavigationStarts ==
  ASSUME ConnectionAssumption, Inv, NEW m \in Messages \cup {None}, NEW p \in pages,
         StartNavigation(m, p),
         wire' \in Seq(Messages), rx' \in Seq(Messages), deferred' \in Seq(Messages)
  PROVE  Inv'
<1>1. /\ Carry("navigation", m, p) /\ live' = live \cap {p} /\ EndRealms(live \ {p})
      /\ pages' = pages
  BY DEF StartNavigation
<1>2. Processor /\ p \in Pages /\ live \subseteq Pages /\ IsFiniteSet(live)
  BY DEF Inv, Processor
<1>3. IsFiniteSet(live') BY <1>1, <1>2, FS_Subset
<1>4. Processor' BY <1>1, <1>2, <1>3, Carried DEF Processor
<1>5. Reqs' BY <1>1, <1>2, RealmsEnd DEF Inv
<1> QED BY <1>4, <1>5 DEF Inv

LEMMA TakeNavigateKeeps ==
  ASSUME ConnectionAssumption, Inv, NEW m \in Messages, TakeNavigate(m) PROVE Inv'
<1>1. Take(m) /\ m.of \in Pages BY MessageFacts DEF TakeNavigate, AboutPage
<1>2. /\ at = "select" /\ wire' \in Seq(Messages)
      /\ rx' \in Seq(Messages) /\ deferred' \in Seq(Messages)
  BY <1>1, TakeFacts DEF Inv
<1>3. CASE m.of \in pages
  BY <1>1, <1>2, <1>3, NavigationStarts DEF TakeNavigate, Inv, Processor
<1>4. CASE m.of \notin pages
  <2>1. Answered /\ UNCHANGED <<pages, live, requests>> BY <1>4 DEF TakeNavigate
  <2>2. Processor' BY <1>2, <2>1, Carried DEF Inv, Processor, Answered
  <2> QED BY <2>1, <2>2, ProcessorOnly DEF Inv, Processor
<1> QED BY <1>3, <1>4

LEMMA TakeCommandKeeps ==
  ASSUME ConnectionAssumption, Inv, NEW m \in Messages, TakeCommand(m) PROVE Inv'
<1>1. Take(m) /\ m.of \in Pages BY MessageFacts DEF TakeCommand, AboutPage
<1>2. /\ at = "select" /\ wire' \in Seq(Messages)
      /\ rx' \in Seq(Messages) /\ deferred' \in Seq(Messages)
  BY <1>1, TakeFacts DEF Inv
<1>3. CASE m.of \in pages
  <2>1. Carry("command", m, m.of) /\ UseSessionPage(m.of) /\ pages' = pages
    BY <1>3 DEF TakeCommand
  <2>2. PICK S \in SUBSET (live \ {m.of}) :
          live' = (live \ S) \cup {m.of} /\ EndRealms(S)
    BY <2>1 DEF UseSessionPage
  <2>3. Processor /\ live \subseteq Pages /\ live \subseteq pages /\ IsFiniteSet(live)
    BY DEF Inv, Processor
  <2>4. IsFiniteSet(live')
    <3>1. IsFiniteSet(live \ S) BY <2>3, FS_Subset
    <3>2. IsFiniteSet((live \ S) \cup {m.of}) BY <3>1, FS_AddElement
    <3> QED BY <2>2, <3>2
  <2>5. Processor' BY <1>1, <1>2, <1>3, <2>1, <2>2, <2>3, <2>4, Carried DEF Processor
  <2>6. Reqs' BY <1>1, <2>2, <2>3, RealmsEnd DEF Inv
  <2> QED BY <2>5, <2>6 DEF Inv
<1>4. CASE m.of \notin pages
  <2>1. Answered /\ UNCHANGED <<pages, live, requests>> BY <1>4 DEF TakeCommand
  <2>2. Processor' BY <1>2, <2>1, Carried DEF Inv, Processor, Answered
  <2> QED BY <2>1, <2>2, ProcessorOnly DEF Inv, Processor
<1> QED BY <1>3, <1>4

LEMMA TakeFreeKeeps ==
  ASSUME Inv, NEW m \in Messages, TakeFree(m) PROVE Inv'
<1>1. Take(m) /\ AnsweredFor(live \cap {m.of}) /\ UNCHANGED <<pages, live, requests>>
  BY DEF TakeFree
<1>2. /\ wire' \in Seq(Messages) /\ rx' \in Seq(Messages) /\ deferred' \in Seq(Messages)
  BY <1>1, TakeFacts DEF Inv
<1>3. Processor /\ live \cap {m.of} \subseteq live' BY <1>1 DEF Inv
<1>4. Processor' BY <1>1, <1>2, <1>3, AnsweredCarries DEF Processor
<1> QED BY <1>1, <1>4, ProcessorOnly DEF Inv, Processor

LEMMA TakeCreateKeeps ==
  ASSUME Inv, NEW m \in Messages, TakeCreate(m) PROVE Inv'
<1>1. /\ Take(m) /\ live' = live /\ UNCHANGED requests
      /\ \/ Answered /\ pages' = pages
         \/ \E p \in Pages : /\ pages' = pages \cup {p}
                             /\ Answered \/ Carry("create", m, p)
  BY DEF TakeCreate
<1>2. /\ wire' \in Seq(Messages) /\ rx' \in Seq(Messages) /\ deferred' \in Seq(Messages)
  BY <1>1, TakeFacts DEF Inv
<1>3. Processor BY DEF Inv
<1>4. Processor'
  <2>1. CASE Answered BY <1>1, <1>2, <1>3, <2>1, Carried DEF Processor, Answered
  <2>2. ASSUME NEW p \in Pages, pages' = pages \cup {p}, Carry("create", m, p)
        PROVE  Processor'
    BY <1>1, <1>2, <1>3, <2>2, Carried DEF Processor
  <2> QED BY <1>1, <2>1, <2>2
<1> QED BY <1>1, <1>4, ProcessorOnly DEF Inv, Processor

LEMMA TakeCloseKeeps ==
  ASSUME ConnectionAssumption, Inv, NEW m \in Messages, TakeClose(m) PROVE Inv'
<1>1. /\ Take(m) /\ m.of \in Pages
      /\ pages' = pages \ {m.of} /\ live' = live \ {m.of}
      /\ EndRealms(live \cap {m.of}) /\ Answered
  BY MessageFacts DEF TakeClose, AboutPage
<1>2. /\ wire' \in Seq(Messages) /\ rx' \in Seq(Messages) /\ deferred' \in Seq(Messages)
  BY <1>1, TakeFacts DEF Inv
<1>3. Processor /\ live \subseteq Pages /\ IsFiniteSet(live) BY DEF Inv, Processor
<1>4. IsFiniteSet(live') BY <1>1, <1>3, FS_Subset
<1>5. Processor' BY <1>1, <1>2, <1>3, <1>4, Carried DEF Processor, Answered
<1>6. Reqs' BY <1>1, <1>3, RealmsEnd DEF Inv
<1> QED BY <1>5, <1>6 DEF Inv

LEMMA TakeFetchKeeps ==
  ASSUME ConnectionAssumption, Inv, NEW m \in Messages, TakeFetch(m) PROVE Inv'
<1>1. /\ Take(m) /\ m.of \in RequestIds /\ Resolve(m.of)
      /\ pages' = pages /\ live' = live
  BY MessageFacts DEF TakeFetch
<1>2. PICK S \in SUBSET live : AnsweredFor(S) BY DEF TakeFetch
<1>3. /\ wire' \in Seq(Messages) /\ rx' \in Seq(Messages) /\ deferred' \in Seq(Messages)
  BY <1>1, TakeFacts DEF Inv
<1>4. Processor /\ S \subseteq live' BY <1>1 DEF Inv
<1>5. Processor' BY <1>1, <1>2, <1>3, <1>4, AnsweredCarries DEF Processor
<1>6. Reqs' BY <1>1, ResolveKeeps DEF Inv
<1> QED BY <1>5, <1>6 DEF Inv

LEMMA ListenKeeps ==
  ASSUME ConnectionAssumption, Inv, NEW m \in Messages, Listen(m) PROVE Inv'
<1>1. /\ rx' \in Seq(Messages) /\ deferred' \in Seq(Messages)
      /\ wire' = wire /\ UNCHANGED doing /\ pages' = pages /\ live' = live
  <2>1. rx \in Seq(Messages) /\ deferred \in Seq(Messages) BY DEF Inv, Processor
  <2>2. /\ rx # <<>> /\ rx' = Tail(rx)
        /\ wire' = wire /\ UNCHANGED doing /\ pages' = pages /\ live' = live
        /\ deferred' = deferred \/ deferred' = Append(deferred, m)
    BY DEF Listen
  <2>3. rx' \in Seq(Messages) BY <2>1, <2>2, HeadTailProperties
  <2>4. Append(deferred, m) \in Seq(Messages) BY <2>1, AppendProperties
  <2> QED BY <2>1, <2>2, <2>3, <2>4
<1>2. Processor' BY <1>1 DEF Inv, Processor, doing, WorkedOn
<1>3. CASE m.kind = "resolve"
  <2>1. m.of \in RequestIds /\ Resolve(m.of)
    BY <1>3, MessageFacts DEF Listen, AboutRequest
  <2> QED BY <1>1, <1>2, <2>1, ResolveKeeps DEF Inv
<1>4. CASE m.kind # "resolve"
  <2>1. UNCHANGED requests BY <1>4 DEF Listen
  <2> QED BY <1>1, <1>2, <2>1, ProcessorOnly DEF Inv, Processor
<1> QED BY <1>3, <1>4

\* init_js makes a realm for a page that the browser has.
LEMMA NewRealmFacts ==
  ASSUME Processor, NewRealm
  PROVE  /\ target \in pages /\ target \in Pages
         /\ live' = live \cup {target} /\ EndRealms({target})
         /\ at = "navigation" => live \subseteq {target}
         /\ at \in {"eval", "inner"} => target \in live
<1>1. at \in {"navigation", "eval", "inner", "create"} BY DEF NewRealm
<1> QED BY <1>1 DEF NewRealm, Processor, WorkedOn

LEMMA NewRealmKeeps ==
  ASSUME ConnectionAssumption, Inv, NewRealm PROVE Inv'
<1>1. /\ committed' = TRUE /\ live' = live \cup {target} /\ EndRealms({target})
      /\ UNCHANGED <<queues, at, current, target, pages>>
  BY DEF NewRealm
<1>2. /\ target \in pages /\ target \in Pages
      /\ at = "navigation" => live \subseteq {target}
  BY NewRealmFacts DEF Inv
<1>3. IsFiniteSet(live')
  <2>1. IsFiniteSet(live) BY DEF Inv, Processor
  <2> QED BY <1>1, <2>1, FS_AddElement
<1>4. Processor' BY <1>1, <1>2, <1>3 DEF Inv, Processor, queues, WorkedOn
<1>5. Reqs' BY <1>1, <1>2, RealmsEnd DEF Inv, Processor
<1> QED BY <1>4, <1>5 DEF Inv

LEMMA EndKeeps ==
  ASSUME ConnectionAssumption, Inv, End PROVE Inv'
<1>1. /\ Carry("ended", None, None) /\ pages' = {} /\ live' = {} /\ EndRealms(live)
      /\ wire' = <<>> /\ rx' = <<>> /\ deferred' = <<>>
  BY DEF End
<1>2. Processor /\ live \subseteq Pages BY DEF Inv, Processor
<1>3. IsFiniteSet(live') BY <1>1, FS_EmptySet
<1>4. wire' \in Seq(Messages) /\ rx' \in Seq(Messages) /\ deferred' \in Seq(Messages) BY <1>1
<1>5. Processor' BY <1>1, <1>2, <1>3, <1>4, Carried
<1>6. Reqs' BY <1>1, <1>2, RealmsEnd DEF Inv
<1> QED BY <1>5, <1>6 DEF Inv

LEMMA RequestingKeeps ==
  ASSUME ConnectionAssumption, Inv, NEW p \in Pages, NEW o \in Ops, Request(p, o)
  PROVE  Inv'
<1>1. p \in live /\ UNCHANGED <<queues, doing, pages, live>>
  BY DEF Request, Runs
<1>2. Processor' BY <1>1 DEF Inv, Processor, doing, queues, WorkedOn
<1>3. Reqs' BY <1>1, RequestKeeps DEF Inv, Processor
<1> QED BY <1>2, <1>3 DEF Inv

LEMMA AnnouncingKeeps ==
  ASSUME ConnectionAssumption, Inv, AnnounceInNavigation \/ AnnounceIdle
  PROVE  Inv'
<1>1. UNCHANGED <<queues, doing, pages, live>>
  BY DEF AnnounceInNavigation, AnnounceIdle, Announce
<1>2. Processor' BY <1>1 DEF Inv, Processor, doing, queues, WorkedOn
<1>3. CASE irx # <<>> /\ Announce BY <1>2, <1>3, AnnounceKeeps DEF Inv
<1>4. CASE AnnounceIdle /\ live = {} BY <1>2, <1>4, DroppingKeeps DEF Inv
<1> QED BY <1>3, <1>4 DEF AnnounceInNavigation, AnnounceIdle

LEMMA ReadKeeps == ASSUME Inv, Read PROVE Inv'
<1>1. /\ wire # <<>> /\ wire' = Tail(wire)
      /\ rx' = rx \/ rx' = Append(rx, Head(wire))
      /\ UNCHANGED <<deferred, doing, pages, live, requests>>
  BY DEF Read
<1>2. wire \in Seq(Messages) /\ rx \in Seq(Messages) BY DEF Inv, Processor
<1>3. wire' \in Seq(Messages) /\ Head(wire) \in Messages BY <1>1, <1>2, HeadTailProperties
<1>4. rx' \in Seq(Messages) BY <1>1, <1>2, <1>3, AppendProperties
<1>5. Processor' BY <1>1, <1>3, <1>4 DEF Inv, Processor, doing, WorkedOn
<1> QED BY <1>1, <1>5, ProcessorOnly DEF Inv, Processor

LEMMA NextKeeps ==
  ASSUME ConnectionAssumption, Inv, [Next]_vars
  PROVE  Inv'
<1>1. CASE UNCHANGED vars
  <2>1. Processor' BY <1>1 DEF Inv, Processor, vars, doing, queues, WorkedOn
  <2> QED BY <1>1, <2>1, ProcessorOnly DEF vars, Inv, Processor
<1>2. ASSUME NEW m \in Messages, Send(m) PROVE Inv'
  <2>1. wire' \in Seq(Messages) BY <1>2, AppendProperties DEF Send, Inv, Processor
  <2>2. UNCHANGED <<rx, deferred, doing, pages, live, requests>> BY <1>2 DEF Send
  <2>3. Processor' BY <2>1, <2>2 DEF Inv, Processor, doing, WorkedOn
  <2> QED BY <2>2, <2>3, ProcessorOnly DEF Inv, Processor
<1>3. ASSUME NEW m \in Messages, Listen(m) PROVE Inv'
  BY <1>3, ListenKeeps
<1>4. CASE Read BY <1>4, ReadKeeps
<1>5. CASE TakeMessage
  BY <1>5, TakeNavigateKeeps, TakeCommandKeeps, TakeFreeKeeps, TakeCreateKeeps,
     TakeCloseKeeps, TakeFetchKeeps
  DEF TakeMessage
<1>6. CASE NavigateInCommand
  <2>1. /\ at = "command" /\ Carry("eval", current, target)
        /\ UNCHANGED <<queues, pages, live, requests>>
    BY <1>6 DEF NavigateInCommand
  <2>2. Processor' BY <2>1, Carried DEF Inv, Processor, queues, WorkedOn
  <2> QED BY <2>1, <2>2, ProcessorOnly DEF Inv, Processor
<1>7. CASE EndCommand
  <2>1. /\ at \in {"command", "eval"} /\ AnsweredFor({target})
        /\ UNCHANGED <<queues, pages, live, requests>>
    BY <1>7 DEF EndCommand
  <2>2. {target} \subseteq live' BY <2>1 DEF Inv, Processor, WorkedOn
  <2>3. Processor' BY <2>1, <2>2, AnsweredCarries DEF Inv, Processor, queues
  <2> QED BY <2>1, <2>3, ProcessorOnly DEF Inv, Processor
<1>8. CASE EndInner \/ EndNavigation
  <2>1. Answered /\ UNCHANGED <<queues, pages, live, requests>>
    BY <1>8 DEF EndInner, EndNavigation
  <2>2. Processor' BY <2>1, Carried DEF Inv, Processor, queues, Answered
  <2> QED BY <2>1, <2>2, ProcessorOnly DEF Inv, Processor
<1>9. CASE NewRealm BY <1>9, NewRealmKeeps
<1>10. ASSUME NEW p \in Pages, PumpNavigation(p) PROVE Inv'
  <2>1. p \in pages /\ StartNavigation(None, p) /\ UNCHANGED queues
    BY <1>10 DEF PumpNavigation, Inv, Processor
  <2> QED BY <2>1, NavigationStarts DEF Inv, Processor, queues
<1>11. ASSUME NEW p \in Pages, NEW o \in Ops, Request(p, o) PROVE Inv'
  BY <1>11, RequestingKeeps
<1>12. CASE AnnounceInNavigation \/ AnnounceIdle BY <1>12, AnnouncingKeeps
<1>13. CASE End \/ Quit BY <1>13, EndKeeps DEF Quit
<1> QED BY <1>1, <1>2, <1>3, <1>4, <1>5, <1>6, <1>7, <1>8, <1>9, <1>10, <1>11, <1>12, <1>13
    DEF Next

LEMMA Invariant == Spec => []Inv
<1>1. Init => Inv BY ConnectionAssumption, InitInv
<1>2. Inv /\ [Next]_vars => Inv' BY ConnectionAssumption, NextKeeps
<1> QED BY <1>1, <1>2, PTL DEF Spec

\* However commands, navigations, scripts and the client's decisions interleave, for
\* any number of pages and requests, and even where pages created with a url share the
\* thread with a live one: each waiting request is in the channel once or in the table
\* under the id the client was told, ids belong to the realm that lives, and the page a
\* command or a navigation works on is the one that may have an isolate
\* (server.rs:683-688, 895-954, 1174-1182).
THEOREM Invariance == Spec => []CdpInv
<1>1. Inv => CdpInv
  <2>1. SUFFICES ASSUME Inv PROVE CdpInv OBVIOUS
  <2>2. TypeOK
    BY <2>1 DEF TypeOK, Inv, Processor, Reqs, RequestTypes, Waits, Entries
  <2> QED BY <2>1, <2>2 DEF CdpInv, Inv, Processor, Reqs
<1> QED BY <1>1, Invariant, PTL

-----------------------------------------------------------------------------
(* Who adds an isolate. *)

Adds ==
  at # "create" => Cardinality(live') <= Cardinality(live) \/ Cardinality(live') = 1

LEMMA FewerIsolates ==
  ASSUME IsFiniteSet(live), live' \subseteq live PROVE Adds
BY FS_Subset DEF Adds

LEMMA OneIsolate ==
  ASSUME NEW p, live' = {p} PROVE Adds
BY FS_Singleton DEF Adds

\* The page of a command takes the place of the one that is suspended for it.
LEMMA SessionPageSwaps ==
  ASSUME IsFiniteSet(live), NEW p, UseSessionPage(p)
  PROVE  Adds
<1>1. PICK S \in SUBSET (live \ {p}) :
        /\ Cardinality(S) = IF p \in live \/ live = {} THEN 0 ELSE 1
        /\ live' = (live \ S) \cup {p}
  BY DEF UseSessionPage
<1>2. CASE p \in live
  BY <1>1, <1>2, FewerIsolates
<1>3. CASE live = {}
  BY <1>1, <1>3, OneIsolate
<1>4. CASE p \notin live /\ live # {}
  <2>1. S \subseteq live /\ IsFiniteSet(S) /\ Cardinality(S) = 1
    BY <1>1, <1>4, FS_Subset
  <2>2. /\ IsFiniteSet(live \ S) /\ Cardinality(live) \in Nat
        /\ Cardinality(live \ S) = Cardinality(live) - Cardinality(S)
    <3>1. live \cap S = S BY <2>1
    <3>2. Cardinality(live \ S) = Cardinality(live) - Cardinality(live \cap S)
      BY <2>1, FS_Difference
    <3>3. IsFiniteSet(live \ S) BY FS_Difference
    <3>4. Cardinality(live) \in Nat BY FS_CardinalityType
    <3> QED BY <3>1, <3>2, <3>3, <3>4
  <2>3. p \notin live \ S BY <1>4
  <2>4. Cardinality((live \ S) \cup {p}) = Cardinality(live \ S) + 1
    BY <2>2, <2>3, FS_AddElement
  <2>5. Cardinality(live') = Cardinality(live) BY <1>1, <2>1, <2>2, <2>4
  <2> QED BY <2>2, <2>5 DEF Adds
<1> QED BY <1>2, <1>3, <1>4

LEMMA IsolatesOfAStep ==
  ASSUME Inv, [Next]_vars PROVE Adds
<1>1. Processor /\ IsFiniteSet(live) BY DEF Inv, Processor
<1>2. ASSUME live' = live PROVE Adds BY <1>1, <1>2, FewerIsolates
<1>3. CASE UNCHANGED vars BY <1>2, <1>3 DEF vars
<1>4. CASE \E m \in Messages : Send(m) \/ Listen(m) BY <1>2, <1>4 DEF Send, Listen
<1>5. CASE Read \/ NavigateInCommand \/ EndCommand \/ EndInner \/ EndNavigation
  BY <1>2, <1>5 DEF Read, NavigateInCommand, EndCommand, EndInner, EndNavigation
<1>6. ASSUME NEW m \in Messages, TakeNavigate(m) PROVE Adds
  BY <1>1, <1>2, <1>6, FewerIsolates DEF TakeNavigate, StartNavigation
<1>7. ASSUME NEW m \in Messages, TakeCommand(m) PROVE Adds
  BY <1>1, <1>2, <1>7, SessionPageSwaps DEF TakeCommand
<1>8. ASSUME NEW m \in Messages, TakeFree(m) \/ TakeCreate(m) \/ TakeFetch(m) PROVE Adds
  BY <1>2, <1>8 DEF TakeFree, TakeCreate, TakeFetch
<1>9. ASSUME NEW m \in Messages, TakeClose(m) PROVE Adds
  BY <1>1, <1>9, FewerIsolates DEF TakeClose
<1>10. CASE TakeMessage BY <1>6, <1>7, <1>8, <1>9, <1>10 DEF TakeMessage
<1>11. CASE NewRealm
  <2>1. /\ live' = live \cup {target}
        /\ at = "navigation" => live \subseteq {target}
        /\ at \in {"eval", "inner"} => target \in live
    BY <1>1, <1>11, NewRealmFacts
  <2>2. CASE at = "navigation"
    <3>1. live' = {target} BY <2>1, <2>2
    <3> QED BY <3>1, OneIsolate
  <2>3. CASE at \in {"eval", "inner"} BY <1>2, <2>1, <2>3
  <2>4. CASE at = "create" BY <2>4 DEF Adds
  <2> QED BY <1>11, <2>2, <2>3, <2>4 DEF NewRealm
<1>12. ASSUME NEW p \in Pages, PumpNavigation(p) PROVE Adds
  BY <1>1, <1>12, FewerIsolates DEF PumpNavigation, StartNavigation
<1>13. ASSUME NEW p \in Pages, NEW o \in Ops, Request(p, o) PROVE Adds
  BY <1>2, <1>13 DEF Request
<1>14. CASE AnnounceInNavigation \/ AnnounceIdle
  BY <1>2, <1>14 DEF AnnounceInNavigation, AnnounceIdle, Announce
<1>15. CASE End \/ Quit BY <1>1, <1>15, FewerIsolates DEF Quit, End
<1> QED BY <1>3, <1>4, <1>5, <1>10, <1>11, <1>12, <1>13, <1>14, <1>15 DEF Next

\* Whatever is suspended and resumed for commands and navigations, only a navigation of
\* Target.createTarget puts an isolate beside those that the thread has
\* (server.rs:1174-1182; target.rs:95).
THEOREM IsolatesAdded == Spec => OnlyCreateAddsIsolates
<1>1. Inv /\ [Next]_vars =>
        [at # "create" => \/ Cardinality(live') <= Cardinality(live)
                          \/ Cardinality(live') = 1]_vars
  BY IsolatesOfAStep DEF Adds
<1> QED BY <1>1, Invariant, PTL DEF Spec, OnlyCreateAddsIsolates

-----------------------------------------------------------------------------
(* Who releases a request. *)

Released(o) ==
  \/ Takes(rx, waiting[o].id) \/ Takes(deferred, waiting[o].id)
  \/ waiting[o].page \notin live' \/ count'[waiting[o].page] = 0
  \/ Displaces(waiting[o])

LEMMA EndedWithRealm ==
  ASSUME NEW S \in SUBSET Pages, EndRealms(S), NEW o \in Ops, Reqs,
         waiting[o] # None, waiting'[o] = None
  PROVE  Released(o)
<1>1. o \in OpsOf(S) BY DEF EndRealms
<1>2. waiting[o].page \in S BY <1>1 DEF OpsOf
<1>3. count'[waiting[o].page] = 0 BY <1>2 DEF EndRealms
<1> QED BY <1>3 DEF Released

LEMMA DecidedByClient ==
  ASSUME NEW m \in Messages, m.kind \in AboutRequest, Resolve(m.of),
         Take(m) \/ (rx # <<>> /\ m = Head(rx) /\ rx' = Tail(rx)),
         NEW o \in Ops, Reqs, waiting[o] # None, waiting'[o] = None
  PROVE  Released(o)
<1>1. o = paused[m.of] /\ m.of \in RequestIds BY MessageFacts DEF Resolve
<1>2. waiting[o].id = m.of BY <1>1 DEF Reqs, RequestsCanBeAnswered
<1>3. Takes(rx, m.of) \/ Takes(deferred, m.of) BY DEF Take, Takes
<1> QED BY <1>2, <1>3 DEF Released

\* The resolver that an announcement displaces is of another page: what a realm of the
\* same page left in the channel was announced before, and ids of one realm differ.
LEMMA DisplacedByAnother ==
  ASSUME ConnectionAssumption, Reqs, irx # <<>>, Announce,
         NEW o \in Ops, waiting[o] # None, waiting'[o] = None
  PROVE  Released(o)
<1> DEFINE new == irx[1]
<1>1. /\ irx' = Tail(irx) /\ 1 \in DOMAIN irx
      /\ new.op \in Ops => waiting'[new.op] = [page |-> new.page, id |-> new.id, shown |-> TRUE]
      /\ \A x \in Ops : x # new.op =>
           waiting'[x] = IF x = paused[new.id] THEN None ELSE waiting[x]
  BY Announced
<1>2. /\ new.op \in Ops \cup {Stale} /\ new.page \in Pages /\ new.id \in RequestIds
      /\ new.op # Stale => /\ new.op \in Ops /\ waiting[new.op] # None
                           /\ waiting[new.op].page = new.page /\ waiting[new.op].id = new.id
  BY <1>1, ChannelFacts
<1>3. o # new.op
  <2>1. SUFFICES ASSUME o = new.op PROVE FALSE OBVIOUS
  <2>2. [page |-> new.page, id |-> new.id, shown |-> TRUE] \in Waits BY <1>2, IsWait
  <2>3. waiting'[o] \in Waits BY <1>1, <2>1, <2>2
  <2> QED BY <2>3, Distinct
<1>4. o = paused[new.id] BY <1>1, <1>3
<1>5. waiting[o].id = new.id /\ waiting[o].shown BY <1>2, <1>4, PausedFacts
<1>6. new.page # waiting[o].page
  <2>1. SUFFICES ASSUME new.page = waiting[o].page PROVE FALSE OBVIOUS
  <2>2. CASE new.op = Stale BY <1>1, <1>5, <2>1, <2>2 DEF Reqs, StaleFirst
  <2>3. CASE new.op # Stale
    BY <1>2, <1>3, <1>5, <2>1, <2>3 DEF Reqs, RequestsAreOfTheRealm
  <2> QED BY <2>2, <2>3
<1>7. Head(irx) = irx[1] BY <1>1, RestOfChannel
<1>8. Displaces(waiting[o]) BY <1>1, <1>5, <1>6, <1>7 DEF Displaces
<1> QED BY <1>8 DEF Released

LEMMA ReleasesOfAStep ==
  ASSUME ConnectionAssumption, Inv, [Next]_vars,
         NEW o \in Ops, waiting[o] # None, waiting'[o] = None
  PROVE  Released(o)
<1> USE DEF requests
<1>1. Reqs /\ live \subseteq Pages BY DEF Inv, Processor
<1>2. ASSUME UNCHANGED requests PROVE FALSE BY <1>2
<1>3. CASE UNCHANGED vars BY <1>2, <1>3 DEF vars
<1>4. ASSUME NEW m \in Messages, Send(m) PROVE Released(o) BY <1>2, <1>4 DEF Send
<1>5. ASSUME NEW m \in Messages, Listen(m) PROVE Released(o)
  <2>1. CASE m.kind = "resolve"
    BY <1>1, <1>5, <2>1, DecidedByClient DEF Listen, AboutRequest
  <2>2. CASE m.kind # "resolve" BY <1>2, <1>5, <2>2 DEF Listen
  <2> QED BY <2>1, <2>2
<1>6. CASE Read \/ NavigateInCommand \/ EndCommand \/ EndInner \/ EndNavigation
  BY <1>2, <1>6 DEF Read, NavigateInCommand, EndCommand, EndInner, EndNavigation
<1>7. ASSUME NEW m \in Messages, TakeNavigate(m) PROVE Released(o)
  BY <1>1, <1>2, <1>7, EndedWithRealm DEF TakeNavigate, StartNavigation
<1>8. ASSUME NEW m \in Messages, TakeCommand(m) PROVE Released(o)
  <2>1. CASE m.of \in pages
    <3>1. UseSessionPage(m.of) BY <1>8, <2>1 DEF TakeCommand
    <3>2. PICK S \in SUBSET (live \ {m.of}) : EndRealms(S) BY <3>1 DEF UseSessionPage
    <3>3. S \in SUBSET Pages BY <1>1
    <3> QED BY <1>1, <3>2, <3>3, EndedWithRealm
  <2>2. CASE m.of \notin pages BY <1>2, <1>8, <2>2 DEF TakeCommand
  <2> QED BY <2>1, <2>2
<1>9. ASSUME NEW m \in Messages, TakeFree(m) \/ TakeCreate(m) PROVE Released(o)
  BY <1>2, <1>9 DEF TakeFree, TakeCreate
<1>10. ASSUME NEW m \in Messages, TakeClose(m) PROVE Released(o)
  <2>1. EndRealms(live \cap {m.of}) BY <1>10 DEF TakeClose
  <2> QED BY <1>1, <2>1, EndedWithRealm
<1>11. ASSUME NEW m \in Messages, TakeFetch(m) PROVE Released(o)
  BY <1>1, <1>11, DecidedByClient DEF TakeFetch
<1>12. CASE TakeMessage
  BY <1>7, <1>8, <1>9, <1>10, <1>11, <1>12 DEF TakeMessage
<1>13. CASE NewRealm
  <2>1. EndRealms({target}) /\ {target} \in SUBSET Pages
    BY <1>13, NewRealmFacts DEF Inv
  <2> QED BY <1>1, <2>1, EndedWithRealm
<1>14. ASSUME NEW p \in Pages, PumpNavigation(p) PROVE Released(o)
  <2>1. EndRealms(live \ {p}) BY <1>14 DEF PumpNavigation, StartNavigation
  <2> QED BY <1>1, <2>1, EndedWithRealm
<1>15. ASSUME NEW p \in Pages, NEW x \in Ops, Request(p, x) PROVE Released(o)
  <2>1. waiting[x] = None /\ \A y \in Ops \ {x} : waiting'[y] = waiting[y]
    BY <1>1, <1>15 DEF Request, Reqs, RequestTypes
  <2> QED BY <2>1
<1>16. CASE AnnounceInNavigation \/ AnnounceIdle
  <2>1. live # {} BY <1>1 DEF Reqs, RequestsAreOfTheRealm
  <2>2. irx # <<>> /\ Announce BY <1>16, <2>1 DEF AnnounceInNavigation, AnnounceIdle
  <2> QED BY <1>1, <2>2, DisplacedByAnother
<1>17. CASE End \/ Quit
  <2>1. EndRealms(live) BY <1>17 DEF Quit, End
  <2> QED BY <1>1, <2>1, EndedWithRealm
<1> QED BY <1>3, <1>4, <1>5, <1>6, <1>12, <1>13, <1>14, <1>15, <1>16, <1>17 DEF Next

\* A request that waits is released by a message that names its id, with its realm, or
\* because a request of another page is announced under its id; announcements left by
\* an earlier realm of its page and ids that start again never drop its resolver
\* (server.rs:895-954).
THEOREM ClientsRelease == Spec => OnlyTheClientReleases
<1>1. Inv /\ [Next]_vars =>
        [\A o \in Ops : waiting[o] # None /\ waiting'[o] = None =>
           \/ Takes(rx, waiting[o].id) \/ Takes(deferred, waiting[o].id)
           \/ waiting[o].page \notin live' \/ count'[waiting[o].page] = 0
           \/ Displaces(waiting[o])]_vars
  BY ConnectionAssumption, ReleasesOfAStep DEF Released
<1> QED BY <1>1, Invariant, PTL DEF Spec, OnlyTheClientReleases

-----------------------------------------------------------------------------
(* The connection keeps what it promises to a client. *)

Queue ==
  /\ wire \in Seq(Messages) /\ rx \in Seq(Messages) /\ deferred \in Seq(Messages)
  /\ current \in Messages \cup {None}
  /\ at = "ended" => wire = <<>> /\ rx = <<>> /\ deferred = <<>>

\* A list and its first.
LEMMA HeadAndTail ==
  ASSUME NEW s \in Seq(Messages), s # <<>>
  PROVE  /\ Head(s) \in Messages /\ Tail(s) \in Seq(Messages)
         /\ <<Head(s)>> \in Seq(Messages) /\ s = <<Head(s)>> \o Tail(s)
OBVIOUS

\* A list that one is added to.
LEMMA Appended ==
  ASSUME NEW a \in Seq(Messages), NEW m \in Messages, NEW b \in Seq(Messages)
  PROVE  /\ Append(a, m) \o b = a \o (<<m>> \o b)
         /\ b \o Append(a, m) = Append(b \o a, m)
<1>1. <<m>> \in Seq(Messages) /\ Append(a, m) = a \o <<m>> BY AppendIsConcat
<1>2. b \o a \in Seq(Messages) /\ Append(b \o a, m) = (b \o a) \o <<m>>
  BY ConcatProperties, AppendIsConcat
<1> QED BY <1>1, <1>2, ConcatAssociative

\* One less in the middle.
LEMMA Dropped ==
  ASSUME NEW a \in Seq(Messages), NEW m \in Messages, NEW b \in Seq(Messages)
  PROVE  LET t == a \o (<<m>> \o b)
             k == Len(a) + 1
         IN  /\ k \in DOMAIN t /\ t[k] = m
             /\ SubSeq(t, 1, k - 1) \o SubSeq(t, k + 1, Len(t)) = a \o b
<1> DEFINE t == a \o (<<m>> \o b)
           k == Len(a) + 1
<1>1. t \in Seq(Messages) /\ Len(t) = Len(a) + 1 + Len(b) OBVIOUS
<1>2. k \in DOMAIN t /\ t[k] = m BY <1>1
<1>3. SubSeq(t, 1, k - 1) = a
  <2>1. /\ SubSeq(t, 1, k - 1) \in Seq(Messages) /\ Len(SubSeq(t, 1, k - 1)) = Len(a)
        /\ \A j \in 1 .. Len(a) : SubSeq(t, 1, k - 1)[j] = a[j]
    BY <1>1
  <2> HIDE DEF t, k
  <2> QED BY <2>1, SeqEqual
<1>4. SubSeq(t, k + 1, Len(t)) = b
  <2>1. /\ SubSeq(t, k + 1, Len(t)) \in Seq(Messages) /\ Len(SubSeq(t, k + 1, Len(t))) = Len(b)
        /\ \A j \in 1 .. Len(b) : SubSeq(t, k + 1, Len(t))[j] = b[j]
    BY <1>1
  <2> HIDE DEF t, k
  <2> QED BY <2>1, SeqEqual
<1> QED BY <1>2, <1>3, <1>4

\* Where the message in hand, those set aside, and the rest of Todo are.
LEMMA TodoParts ==
  ASSUME Queue
  PROVE  /\ InHand \in Seq(Messages) /\ InHand \o deferred \in Seq(Messages)
         /\ InHand \o deferred \o rx \in Seq(Messages) /\ rx \o wire \in Seq(Messages)
         /\ deferred \o (rx \o wire) \in Seq(Messages)
         /\ Todo = (InHand \o deferred) \o (rx \o wire)
         /\ Todo = InHand \o (deferred \o (rx \o wire))
<1>1. InHand \in Seq(Messages)
  <2>1. current # None => current \in Messages BY DEF Queue
  <2> QED BY <2>1 DEF InHand
<1>2. wire \in Seq(Messages) /\ rx \in Seq(Messages) /\ deferred \in Seq(Messages)
  BY DEF Queue
<1>3. PICK h \in Seq(Messages) : h = InHand BY <1>1
<1>4. Todo = h \o deferred \o rx \o wire BY <1>3 DEF Todo
<1>5. /\ h \o deferred \in Seq(Messages) /\ rx \o wire \in Seq(Messages)
      /\ h \o deferred \o rx \in Seq(Messages)
      /\ deferred \o (rx \o wire) \in Seq(Messages)
  BY <1>2, <1>3, ConcatProperties
<1>6. (h \o deferred \o rx) \o wire = (h \o deferred) \o (rx \o wire)
  BY <1>2, <1>3, <1>5, ConcatAssociative
<1>7. (h \o deferred) \o (rx \o wire) = h \o (deferred \o (rx \o wire))
  BY <1>2, <1>3, <1>5, ConcatAssociative
<1> QED BY <1>1, <1>3, <1>4, <1>5, <1>6, <1>7

LEMMA TodoAfter ==
  ASSUME Queue'
  PROVE  /\ Todo' = (InHand' \o deferred') \o (rx' \o wire')
         /\ Todo' = InHand' \o (deferred' \o (rx' \o wire'))
<1>1. InHand' \in Seq(Messages)
  <2>1. current' # None => current' \in Messages BY DEF Queue
  <2> QED BY <2>1 DEF InHand
<1>2. wire' \in Seq(Messages) /\ rx' \in Seq(Messages) /\ deferred' \in Seq(Messages)
  BY DEF Queue
<1>3. PICK h \in Seq(Messages) : h = InHand' BY <1>1
<1>4. Todo' = h \o deferred' \o rx' \o wire' BY <1>3 DEF Todo
<1>5. h \o deferred' \in Seq(Messages) /\ rx' \o wire' \in Seq(Messages)
  BY <1>2, <1>3, ConcatProperties
<1>6. (h \o deferred' \o rx') \o wire' = (h \o deferred') \o (rx' \o wire')
  BY <1>2, <1>3, <1>5, ConcatAssociative
<1>7. (h \o deferred') \o (rx' \o wire') = h \o (deferred' \o (rx' \o wire'))
  BY <1>2, <1>3, <1>5, ConcatAssociative
<1> QED BY <1>3, <1>4, <1>6, <1>7

QueueStep == Queue' /\ [~(at = "ended") /\ Promise!Next]_(Promise!vars)

LEMMA Stutters ==
  ASSUME Queue', Todo' = Todo, at' = "ended" <=> at = "ended"
  PROVE  QueueStep
BY DEF QueueStep, Promise!vars

LEMMA Answers ==
  ASSUME Queue', Todo # <<>>, Todo' = Tail(Todo), at # "ended", at' # "ended"
  PROVE  QueueStep
<1>1. Promise!Answer BY DEF Promise!Answer
<1>2. Promise!Next BY <1>1 DEF Promise!Next
<1> QED BY <1>2 DEF QueueStep

\* One message leaves from the middle, as the promise admits it.
LEMMA Leaves ==
  ASSUME Queue', NEW a \in Seq(Messages), NEW m \in Messages, NEW b \in Seq(Messages),
         Todo = a \o (<<m>> \o b), Todo' = a \o b, at # "ended", at' # "ended",
         \/ a # <<>>
         \/ m.kind \in {"fast", "resolve"}
         \/ m.kind \in {"resolve", "mentions"}
  PROVE  QueueStep
<1> DEFINE k == Len(a) + 1
<1>1. /\ k \in DOMAIN Todo /\ Todo[k] = m
      /\ SubSeq(Todo, 1, k - 1) \o SubSeq(Todo, k + 1, Len(Todo)) = a \o b
  BY Dropped, Zenon
<1>2. a # <<>> => k > 1 OBVIOUS
<1> HIDE DEF k
<1>3. Promise!Without(k) BY <1>1 DEF Promise!Without
<1>4. Promise!Refuse(k) \/ Promise!Overtake(k) \/ Promise!Forget(k)
  BY <1>1, <1>2, <1>3 DEF Promise!Refuse, Promise!Overtake, Promise!Forget
<1>5. Promise!Next BY <1>1, <1>4 DEF Promise!Next
<1> QED BY <1>5 DEF QueueStep

LEMMA SameQueue ==
  ASSUME Queue, UNCHANGED <<wire, rx, deferred, at, current>>
  PROVE  QueueStep
<1>1. Queue' BY DEF Queue
<1>2. Todo' = Todo BY DEF Todo, InHand
<1> QED BY <1>1, <1>2, Stutters

\* The first of the commands is answered, if it is one.
LEMMA FirstGone ==
  ASSUME NEW h, h = <<>> \/ \E m \in Messages : h = <<m>>, NEW r \in Seq(Messages)
  PROVE  h \o r = r \/ (h \o r # <<>> /\ Tail(h \o r) = r)
<1>1. CASE h = <<>> BY <1>1
<1>2. ASSUME NEW m \in Messages, h = <<m>> PROVE h \o r # <<>> /\ Tail(h \o r) = r
  BY <1>2
<1> QED BY <1>1, <1>2

\* The command in hand, if any, is answered.
LEMMA HandEmptied ==
  ASSUME Queue, at \notin {"select", "ended"}, at' \in {"select", "inner"},
         current' = None, UNCHANGED queues
  PROVE  QueueStep
<1>1. wire' = wire /\ rx' = rx /\ deferred' = deferred BY DEF queues
<1>2. Queue' BY <1>1 DEF Queue
<1>3. InHand' = <<>> BY DEF InHand
<1> DEFINE R == deferred \o (rx \o wire)
<1>4. Todo = InHand \o R /\ R \in Seq(Messages) BY TodoParts
<1>5. Todo' = R
  <2>1. Todo' = InHand' \o R BY <1>1, <1>2, TodoAfter
  <2> HIDE DEF R
  <2> QED BY <1>3, <1>4, <2>1
<1>6. InHand = <<>> \/ \E m \in Messages : InHand = <<m>>
  BY DEF InHand, Queue
<1>7. Todo = R \/ (Todo # <<>> /\ Tail(Todo) = R)
  <2> HIDE DEF R
  <2> QED BY <1>4, <1>6, FirstGone
<1>8. at # "ended" /\ at' # "ended" OBVIOUS
<1> QED BY <1>2, <1>5, <1>7, <1>8, Stutters, Answers

\* The next message is taken in hand, or answered at once.
LEMMA TakenInHand ==
  ASSUME Queue, NEW m \in Messages, Take(m), at' # "ended",
         current' \in Messages \cup {None}, InHand' \in {<<>>, <<m>>}
  PROVE  QueueStep
<1>1. at = "select" /\ InHand = <<>> /\ wire' = wire BY DEF Take, InHand
<1>2. wire \in Seq(Messages) /\ rx \in Seq(Messages) /\ deferred \in Seq(Messages)
  BY DEF Queue
<1> DEFINE R == deferred' \o (rx' \o wire)
<1>3. /\ rx' \in Seq(Messages) /\ deferred' \in Seq(Messages)
      /\ Todo = <<m>> \o R
  <2>0. Todo = deferred \o (rx \o wire)
    <3>1. Todo = <<>> \o (deferred \o (rx \o wire)) BY <1>1, TodoParts
    <3>2. deferred \o (rx \o wire) \in Seq(Messages) BY TodoParts
    <3> QED BY <3>1, <3>2, ConcatEmptySeq
  <2>1. CASE deferred # <<>> /\ m = Head(deferred) /\ deferred' = Tail(deferred) /\ rx' = rx
    <3>1. /\ deferred' \in Seq(Messages) /\ <<m>> \in Seq(Messages)
          /\ deferred = <<m>> \o deferred'
      BY <1>2, <2>1, HeadAndTail
    <3>2. rx \o wire \in Seq(Messages) BY <1>2, ConcatProperties
    <3>3. (<<m>> \o deferred') \o (rx \o wire) = <<m>> \o (deferred' \o (rx \o wire))
      BY <3>1, <3>2, ConcatAssociative
    <3>4. Todo = <<m>> \o (deferred' \o (rx \o wire)) BY <2>0, <3>1, <3>3
    <3> QED BY <1>2, <2>1, <3>1, <3>4
  <2>2. CASE deferred = <<>> /\ rx # <<>> /\ m = Head(rx) /\ rx' = Tail(rx) /\ deferred' = deferred
    <3>1. rx' \in Seq(Messages) /\ <<m>> \in Seq(Messages) /\ rx = <<m>> \o rx'
      BY <1>2, <2>2, HeadAndTail
    <3>2. rx \o wire \in Seq(Messages) /\ rx' \o wire \in Seq(Messages)
      BY <1>2, <3>1, ConcatProperties
    <3>3. (<<m>> \o rx') \o wire = <<m>> \o (rx' \o wire) BY <1>2, <3>1, ConcatAssociative
    <3>4. deferred \o (rx \o wire) = rx \o wire /\ R = rx' \o wire
      BY <2>2, <3>2, ConcatEmptySeq
    <3>5. Todo = <<m>> \o R BY <2>0, <3>1, <3>3, <3>4
    <3> QED BY <1>2, <2>2, <3>1, <3>5
  <2> QED BY <2>1, <2>2 DEF Take
<1>4. Queue' BY <1>1, <1>2, <1>3 DEF Queue
<1>5. Todo' = InHand' \o R BY <1>1, <1>4, TodoAfter
<1>6. R \in Seq(Messages) BY <1>2, <1>3, ConcatProperties
<1>7. CASE InHand' = <<m>>
  <2>1. Todo' = Todo BY <1>3, <1>5, <1>7
  <2> QED BY <1>1, <1>4, <2>1, Stutters
<1>8. CASE InHand' = <<>>
  <2>1. Todo' = R
    <3> HIDE DEF R
    <3> QED BY <1>5, <1>6, <1>8, ConcatEmptySeq
  <2>2. Todo # <<>> /\ Tail(Todo) = R
    <3>1. Todo = <<m>> \o R BY <1>3
    <3> HIDE DEF R
    <3> QED BY <1>6, <3>1
  <2> QED BY <1>1, <1>4, <2>1, <2>2, Answers
<1> QED BY <1>7, <1>8

\* The client sends a command, or a decision.
LEMMA SendQueues ==
  ASSUME Queue, NEW m \in Messages, Send(m)
  PROVE  QueueStep
<1>1. /\ at # "ended" /\ wire' = Append(wire, m)
      /\ rx' = rx /\ deferred' = deferred /\ at' = at /\ current' = current
      /\ \A k \in DOMAIN Todo : Todo[k].id # m.id
  BY DEF Send, doing
<1>2. wire \in Seq(Messages) BY DEF Queue
<1>3. InHand' = InHand BY <1>1 DEF InHand
<1> DEFINE X == InHand \o deferred \o rx
<1>4. Todo = X \o wire BY DEF Todo
<1>5. Todo' = X \o wire' BY <1>1, <1>3 DEF Todo
<1>6. X \in Seq(Messages) BY TodoParts
<1>7. Todo' = Append(Todo, m)
  <2> HIDE DEF X
  <2> QED BY <1>1, <1>2, <1>4, <1>5, <1>6, Appended
<1>8. Queue'
  <2>1. wire' \in Seq(Messages) BY <1>1, <1>2, AppendProperties
  <2> QED BY <1>1, <2>1 DEF Queue
<1>9. Promise!Send(m) BY <1>1, <1>7 DEF Promise!Send
<1> QED BY <1>1, <1>8, <1>9 DEF QueueStep, Promise!Next

\* The reader passes a message on, or answers it.
LEMMA ReadQueues ==
  ASSUME Queue, Read
  PROVE  QueueStep
<1> DEFINE m == Head(wire)
           X == InHand \o deferred
<1>1. /\ wire # <<>> /\ wire' = Tail(wire)
      /\ rx' = IF m.kind = "fast" THEN rx ELSE Append(rx, m)
      /\ deferred' = deferred /\ at' = at /\ current' = current
  BY DEF Read, doing
<1>2. /\ m \in Messages /\ <<m>> \in Seq(Messages) /\ wire' \in Seq(Messages)
      /\ wire = <<m>> \o wire' /\ rx \in Seq(Messages)
  BY <1>1, HeadAndTail DEF Queue
<1>3. at # "ended" /\ at' # "ended" BY <1>1 DEF Queue
<1>4. Append(rx, m) \in Seq(Messages) BY <1>2, AppendProperties
<1>5. Queue' BY <1>1, <1>2, <1>3, <1>4 DEF Queue
<1>6. InHand' = InHand BY <1>1 DEF InHand
<1>7. Todo' = X \o (rx' \o wire') BY <1>1, <1>5, <1>6, TodoAfter
<1>8. X \in Seq(Messages) /\ Todo = X \o (rx \o wire) BY TodoParts
<1>9. Append(rx, m) \o wire' = rx \o wire
  <2>1. Append(rx, m) \o wire' = rx \o (<<m>> \o wire')
    <3> HIDE DEF m
    <3> QED BY <1>2, Appended
  <2> QED BY <1>2, <2>1
<1>10. CASE m.kind = "fast"
  <2>1. X \o rx \in Seq(Messages) BY <1>2, <1>8, ConcatProperties
  <2>2. Todo = (X \o rx) \o (<<m>> \o wire')
    <3> HIDE DEF X, m
    <3> QED BY <1>2, <1>8, ConcatAssociative, ConcatProperties
  <2>3. Todo' = (X \o rx) \o wire'
    <3>1. Todo' = X \o (rx \o wire') BY <1>1, <1>7, <1>10
    <3> HIDE DEF X, m
    <3> QED BY <1>2, <1>8, <3>1, ConcatAssociative
  <2> HIDE DEF X, m
  <2> QED BY <1>2, <1>3, <1>5, <1>10, <2>1, <2>2, <2>3, Leaves
<1>11. CASE m.kind # "fast"
  <2>1. Todo' = Todo BY <1>1, <1>7, <1>8, <1>9, <1>11
  <2> QED BY <1>3, <1>5, <2>1, Stutters
<1> QED BY <1>10, <1>11

\* A message during a navigation goes to its request, waits, is lost or is refused.
LEMMA ListenQueues ==
  ASSUME ConnectionAssumption, Queue, NEW m \in Messages, Listen(m)
  PROVE  QueueStep
<1> DEFINE X == InHand \o deferred
           R == rx' \o wire
<1>1. /\ at = "navigation" /\ rx # <<>> /\ m = Head(rx) /\ rx' = Tail(rx)
      /\ wire' = wire /\ at' = at /\ current' = current
  BY DEF Listen, doing
<1>2. /\ rx' \in Seq(Messages) /\ <<m>> \in Seq(Messages) /\ rx = <<m>> \o rx'
      /\ wire \in Seq(Messages) /\ deferred \in Seq(Messages)
  BY <1>1, HeadAndTail DEF Queue
<1>3. InHand' = InHand BY <1>1 DEF InHand
<1>4. R \in Seq(Messages) /\ X \in Seq(Messages) /\ InHand \in Seq(Messages)
  BY <1>2, TodoParts, ConcatProperties
<1>5. Todo = X \o (<<m>> \o R)
  <2>1. Todo = X \o (rx \o wire) BY TodoParts
  <2>2. (<<m>> \o rx') \o wire = <<m>> \o (rx' \o wire) BY <1>2, ConcatAssociative
  <2> QED BY <1>2, <2>1, <2>2
<1>6. ASSUME deferred' = deferred,
             \/ deferred # <<>>
             \/ m.kind \in {"resolve", "mentions"}
      PROVE  QueueStep
  <2>1. Queue' BY <1>1, <1>2, <1>6 DEF Queue
  <2>2. Todo' = X \o R BY <1>1, <1>3, <1>6, <2>1, TodoAfter
  <2>3. deferred # <<>> => X # <<>>
    <3>1. Len(X) = Len(InHand) + Len(deferred) BY <1>2, <1>4, ConcatProperties
    <3>2. Len(InHand) \in Nat /\ Len(deferred) \in Nat BY <1>2, <1>4
    <3>3. deferred # <<>> => Len(deferred) # 0 BY <1>2
    <3>4. X = <<>> => Len(X) = 0 OBVIOUS
    <3> HIDE DEF X
    <3> QED BY <3>1, <3>2, <3>3, <3>4
  <2> HIDE DEF X, R
  <2> QED BY <1>1, <1>4, <1>5, <1>6, <2>1, <2>2, <2>3, Leaves
<1>7. CASE m.kind \in {"resolve", "mentions"}
  <2>1. deferred' = deferred BY <1>7 DEF Listen
  <2> QED BY <1>6, <1>7, <2>1
<1>8. CASE m.kind \notin {"resolve", "mentions"} /\ Len(deferred) >= MaxDeferred
  <2>1. deferred' = deferred BY <1>8 DEF Listen
  <2>2. deferred # <<>>
    <3>1. MaxDeferred >= 1 /\ MaxDeferred \in Nat BY DEF ConnectionAssumption
    <3> QED BY <1>2, <1>8, <3>1
  <2> QED BY <1>6, <2>1, <2>2
<1>9. CASE m.kind \notin {"resolve", "mentions"} /\ ~(Len(deferred) >= MaxDeferred)
  <2>1. deferred' = Append(deferred, m) BY <1>9 DEF Listen
  <2>2. deferred' \in Seq(Messages) BY <1>2, <2>1, AppendProperties
  <2>3. Queue' BY <1>1, <1>2, <2>2 DEF Queue
  <2>4. Todo' = InHand \o (deferred' \o R) BY <1>1, <1>3, <2>3, TodoAfter
  <2>5. deferred' \o R = deferred \o (<<m>> \o R)
    <3> HIDE DEF R
    <3> QED BY <1>2, <1>4, <2>1, Appended
  <2>6. <<m>> \o R \in Seq(Messages)
    <3> HIDE DEF R
    <3> QED BY <1>2, <1>4, ConcatProperties
  <2>7. InHand \o (deferred \o (<<m>> \o R)) = X \o (<<m>> \o R)
    <3> DEFINE Y == <<m>> \o R
    <3>1. Y \in Seq(Messages) BY <2>6
    <3>2. PICK y \in Seq(Messages) : y = Y BY <3>1
    <3>3. PICK h \in Seq(Messages) : h = InHand BY <1>4
    <3> HIDE DEF Y
    <3>4. h \o (deferred \o y) = (h \o deferred) \o y
      BY <1>2, <3>2, <3>3, ConcatAssociative
    <3>5. InHand \o (deferred \o Y) = (InHand \o deferred) \o Y BY <3>2, <3>3, <3>4
    <3> QED BY <3>5 DEF Y
  <2>8. Todo' = Todo BY <1>5, <2>4, <2>5, <2>7
  <2> QED BY <1>1, <2>3, <2>8, Stutters
<1> QED BY <1>7, <1>8, <1>9

\* What the connection ends with is nothing.
LEMMA EndQueues ==
  ASSUME Queue, End
  PROVE  QueueStep
<1>1. /\ wire' = <<>> /\ rx' = <<>> /\ deferred' = <<>>
      /\ at # "ended" /\ at' = "ended" /\ current' = None
  BY DEF End, Carry
<1>2. Queue'
  <2>1. <<>> \in Seq(Messages) OBVIOUS
  <2> QED BY <1>1, <2>1 DEF Queue
<1>3. Todo' = <<>>
  <2>1. InHand' = <<>> BY <1>1 DEF InHand
  <2>2. <<>> \o <<>> \o <<>> \o <<>> = <<>> OBVIOUS
  <2> QED BY <1>1, <2>1, <2>2 DEF Todo
<1>4. Promise!Close BY <1>1, <1>3 DEF Promise!Close
<1> QED BY <1>1, <1>2, <1>4 DEF QueueStep, Promise!Next

LEMMA NextQueues ==
  ASSUME ConnectionAssumption, MessageAssumption, Queue, [Next]_vars
  PROVE  QueueStep
<1>1. None \notin Messages BY DEF MessageAssumption
<1>2. CASE UNCHANGED vars BY <1>2, SameQueue DEF vars, queues, doing
<1>3. CASE \E m \in Messages : Send(m) \/ Listen(m) BY <1>3, SendQueues, ListenQueues
<1>4. CASE Read BY <1>4, ReadQueues
<1>5. CASE \/ NewRealm
           \/ \E p \in Pages, o \in Ops : Request(p, o)
           \/ AnnounceInNavigation \/ AnnounceIdle
  <2>1. UNCHANGED <<wire, rx, deferred, at, current>>
    BY <1>5 DEF NewRealm, Request, AnnounceInNavigation, AnnounceIdle, Announce, queues, doing
  <2> QED BY <2>1, SameQueue
<1>6. CASE EndCommand \/ EndInner \/ EndNavigation
  <2>1. UNCHANGED queues /\ at \notin {"select", "ended"}
    BY <1>6 DEF EndCommand, EndInner, EndNavigation
  <2>2. at' \in {"select", "inner"} /\ current' = None
    BY <1>6 DEF EndCommand, EndInner, EndNavigation, AnsweredFor, Answered, Carry
  <2> QED BY <2>1, <2>2, HandEmptied
<1>7. CASE NavigateInCommand
  <2>1. /\ at = "command" /\ at' = "eval" /\ current' = current
        /\ wire' = wire /\ rx' = rx /\ deferred' = deferred
    BY <1>7 DEF NavigateInCommand, Carry, queues
  <2>2. Queue' BY <2>1 DEF Queue
  <2>3. InHand' = InHand BY <2>1 DEF InHand
  <2>4. Todo' = Todo BY <2>1, <2>3 DEF Todo
  <2> QED BY <2>1, <2>2, <2>4, Stutters
<1>8. CASE \E p \in Pages : PumpNavigation(p)
  <2>1. /\ at = "select" /\ at' = "navigation" /\ current' = None
        /\ wire' = wire /\ rx' = rx /\ deferred' = deferred
    BY <1>8 DEF PumpNavigation, Idle, StartNavigation, Carry, queues
  <2>2. Queue' BY <2>1 DEF Queue
  <2>3. InHand' = <<>> /\ InHand = <<>> BY <2>1 DEF InHand
  <2>4. Todo' = Todo BY <2>1, <2>3 DEF Todo
  <2> QED BY <2>1, <2>2, <2>4, Stutters
<1>9. ASSUME NEW m \in Messages,
             \/ TakeNavigate(m) \/ TakeCommand(m) \/ TakeFree(m) \/ TakeCreate(m)
             \/ TakeClose(m) \/ TakeFetch(m)
      PROVE  QueueStep
  <2>1. Take(m) /\ at = "select"
    BY <1>9 DEF TakeNavigate, TakeCommand, TakeFree, TakeCreate, TakeClose, TakeFetch, Take
  <2>2. \/ \E w \in {"command", "navigation", "create"} : \E p : Carry(w, m, p)
        \/ \E w \in {"select", "inner"} : \E p : Carry(w, None, p)
    <3>1. CASE TakeNavigate(m) BY <3>1 DEF TakeNavigate, StartNavigation, Answered
    <3>2. CASE TakeCommand(m) BY <3>2 DEF TakeCommand, Answered
    <3>3. CASE TakeCreate(m) \/ TakeClose(m) BY <3>3 DEF TakeCreate, TakeClose, Answered
    <3>4. CASE TakeFree(m) \/ TakeFetch(m)
      <4>1. \E S : AnsweredFor(S) BY <3>4 DEF TakeFree, TakeFetch
      <4> QED BY <4>1 DEF AnsweredFor, Answered
    <3> QED BY <1>9, <3>1, <3>2, <3>3, <3>4
  <2>3. /\ at' # "ended" /\ current' \in Messages \cup {None}
        /\ InHand' \in {<<>>, <<m>>}
    <3>1. CASE \E w \in {"command", "navigation", "create"} : \E p : Carry(w, m, p)
      BY <1>1, <3>1 DEF Carry, InHand
    <3>2. CASE \E w \in {"select", "inner"} : \E p : Carry(w, None, p)
      BY <3>2 DEF Carry, InHand
    <3> QED BY <2>2, <3>1, <3>2
  <2> QED BY <2>1, <2>3, TakenInHand
<1>10. CASE TakeMessage BY <1>9, <1>10 DEF TakeMessage
<1>11. CASE End \/ Quit BY <1>11, EndQueues DEF Quit
<1> QED BY <1>2, <1>3, <1>4, <1>5, <1>6, <1>7, <1>8, <1>10, <1>11 DEF Next

\* Through the reader, a channel, a list of deferred messages and navigations during
\* which the processor goes on listening, it answers a client's commands once and in the
\* order in which they were sent; only what the reader answers itself and decisions
\* overtake, and it refuses only what finds the list full behind a command that is
\* still waiting (handle_connection_ws, cdp_processor and process_with_interception of
\* server.rs).
THEOREM KeepsThePromise == Spec => IsPromisedQueue
<1>1. Init => Queue /\ Promise!Init
  <2> SUFFICES ASSUME Init PROVE Queue /\ Promise!Init OBVIOUS
  <2>1. <<>> \in Seq(Messages) /\ <<>> \o <<>> \o <<>> \o <<>> = <<>> OBVIOUS
  <2>2. Queue BY <2>1 DEF Init, Queue
  <2>3. InHand = <<>> BY DEF Init, InHand
  <2>4. Todo = <<>> BY <2>1, <2>3 DEF Init, Todo
  <2> QED BY <2>2, <2>4 DEF Init, Promise!Init
<1>2. Queue /\ [Next]_vars => Queue' /\ [~(at = "ended") /\ Promise!Next]_(Promise!vars)
  BY ConnectionAssumption, MessageAssumption, NextQueues DEF QueueStep
<1> QED BY <1>1, <1>2, PTL DEF Spec, IsPromisedQueue, Promise!Spec
=============================================================================
