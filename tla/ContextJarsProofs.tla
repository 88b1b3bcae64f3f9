------------------------- MODULE ContextJarsProofs -------------------------
(***************************************************************************)
(* Theorems about ContextJars: closed pages leave no Worker behind,        *)
(* whatever calls overlap; and while calls are made one at a time and a    *)
(* Worker's end is noticed by the next one, a context's pages act as if    *)
(* there were one jar.                                                     *)
(***************************************************************************)
EXTENDS ContextJars, NatSets, FiniteSetTheorems, SequenceTheorems, TLAPS

\* No page is in the map twice.
Distinct == \A i, j \in DOMAIN targets : targets[i] = targets[j] => i = j

\* Whoever is about to copy a state into a page has one.
Copies ==
  \A c \in Callers :
    task[c].step \in {"seed", "save", "set", "recycle", "reseed"} => task[c].copy \in Jars

NoneLeft == \A p \in Pages \ Open : worker[p] = "none" /\ core[p] \cup document[p] = {}

WorkerTypes ==
  /\ worker \in [Pages -> {"none", "up", "ended"}]
  /\ core \in [Pages -> Jars] /\ document \in [Pages -> Jars]

Task == [step : Steps, page : Pages \cup {NoPage}, rest : Seq(Pages), copy : {NoJar} \cup Jars]

TaskTypes == task \in [Callers -> Task]

OtherTypes ==
  kept \in {NoJar} \cup Jars /\ saved \in {NoJar} \cup Jars /\ jar \in Jars /\ lost \in BOOLEAN

Base ==
  /\ targets \in Seq(Pages) /\ Distinct
  /\ WorkerTypes /\ NoneLeft
  /\ TaskTypes /\ Copies
  /\ OtherTypes

-----------------------------------------------------------------------------
(* The map of targets. *)

LEMMA OpenFacts ==
  ASSUME targets \in Seq(Pages)
  PROVE  /\ Open \subseteq Pages /\ DOMAIN targets = 1 .. Len(targets) /\ Len(targets) \in Nat
         /\ Open = {targets[i] : i \in DOMAIN targets}
         /\ Open = {} <=> targets = <<>>
<1>1. DOMAIN targets = 1 .. Len(targets) /\ Len(targets) \in Nat
  OBVIOUS
<1>2. \A i \in 1 .. Len(targets) : targets[i] \in Pages
  OBVIOUS
<1>3. Open = {} <=> Len(targets) = 0
  BY <1>1 DEF Open
<1>4. Len(targets) = 0 <=> targets = <<>>
  OBVIOUS
<1> QED BY <1>1, <1>2, <1>3, <1>4 DEF Open

\* A page that closes goes, and nothing else.
LEMMA WithoutFacts ==
  ASSUME targets \in Seq(Pages), Distinct, NEW p, targets' = Without(p)
  PROVE  targets' \in Seq(Pages) /\ Distinct' /\ Open' = Open \ {p}
<1> DEFINE n == Len(targets)
<1>1. n \in Nat /\ DOMAIN targets = 1 .. n /\ \A i \in 1 .. n : targets[i] \in Pages
  OBVIOUS
<1>2. CASE p \notin Open
  <2>1. targets' = targets BY <1>2 DEF Without
  <2> QED BY <1>2, <2>1 DEF Distinct, Open
<1>3. CASE p \in Open
  <2> DEFINE place == CHOOSE i \in DOMAIN targets : targets[i] = p
  <2>1. \E i \in DOMAIN targets : targets[i] = p BY <1>1, <1>3 DEF Open
  <2>2. place \in 1 .. n /\ targets[place] = p BY <1>1, <2>1
  <2>3. targets' = [i \in 1 .. n - 1 |-> targets[IF i < place THEN i ELSE i + 1]]
    BY <1>3 DEF Without
  <2> HIDE DEF place
  <2>4. n - 1 \in Nat BY <1>1, <2>2
  <2>5. \A i \in 1 .. n - 1 : (IF i < place THEN i ELSE i + 1) \in 1 .. n BY <1>1, <2>2
  <2>6. targets' \in [1 .. n - 1 -> Pages] BY <1>1, <2>3, <2>5
  <2>7. targets' \in Seq(Pages) BY <2>4, <2>6, SeqDef
  <2>8. Len(targets') = n - 1 /\ DOMAIN targets' = 1 .. n - 1 BY <2>3, <2>4, <2>6, <2>7
  <2>9. ASSUME NEW i \in DOMAIN targets', NEW j \in DOMAIN targets', targets'[i] = targets'[j]
        PROVE  i = j
    <3>1. /\ targets'[i] = targets[IF i < place THEN i ELSE i + 1]
          /\ targets'[j] = targets[IF j < place THEN j ELSE j + 1]
      BY <2>3, <2>8
    <3>2. (IF i < place THEN i ELSE i + 1) = (IF j < place THEN j ELSE j + 1)
      BY <1>1, <2>5, <2>8, <2>9, <3>1 DEF Distinct
    <3> QED BY <1>1, <2>2, <2>8, <3>2
  <2>10. Open' = {targets'[i] : i \in 1 .. n - 1} BY <2>8 DEF Open
  <2>11. ASSUME NEW i \in 1 .. n - 1 PROVE targets'[i] \in Open \ {p}
    <3>1. targets'[i] = targets[IF i < place THEN i ELSE i + 1] BY <2>3
    <3>2. (IF i < place THEN i ELSE i + 1) # place BY <1>1, <2>2
    <3>3. targets'[i] # p BY <1>1, <2>2, <2>5, <3>1, <3>2 DEF Distinct
    <3> QED BY <2>5, <3>1, <3>3 DEF Open
  <2>12. ASSUME NEW q \in Open \ {p} PROVE q \in Open'
    <3>1. PICK k \in 1 .. n : targets[k] = q BY DEF Open
    <3>2. k # place BY <2>2, <3>1
    <3>3. CASE k < place
      <4>1. k \in 1 .. n - 1 /\ targets'[k] = q BY <1>1, <2>2, <2>3, <3>1, <3>3
      <4> QED BY <2>10, <4>1
    <3>4. CASE k > place
      <4>1. k - 1 \in 1 .. n - 1 /\ targets'[k - 1] = q BY <1>1, <2>2, <2>3, <3>1, <3>4
      <4> QED BY <2>10, <4>1
    <3> QED BY <1>1, <2>2, <3>2, <3>3, <3>4
  <2> QED BY <2>7, <2>9, <2>10, <2>11, <2>12 DEF Distinct
<1> QED BY <1>2, <1>3

\* A page that is created is the newest.
LEMMA AppendFacts ==
  ASSUME targets \in Seq(Pages), Distinct, NEW p \in Pages \ Open, targets' = Append(targets, p)
  PROVE  targets' \in Seq(Pages) /\ Distinct' /\ Open' = Open \cup {p}
<1>1. /\ targets' \in Seq(Pages) /\ Len(targets') = Len(targets) + 1 /\ Len(targets) \in Nat
      /\ DOMAIN targets = 1 .. Len(targets) /\ DOMAIN targets' = 1 .. Len(targets) + 1
      /\ \A i \in 1 .. Len(targets) : targets'[i] = targets[i] /\ targets'[i] # p
      /\ targets'[Len(targets) + 1] = p
  BY DEF Open
<1>2. Distinct' BY <1>1 DEF Distinct
<1>3. Open' = Open \cup {p} BY <1>1 DEF Open
<1> QED BY <1>1, <1>2, <1>3

\* The newest page of those that run is one of them.
LEMMA NewestFacts ==
  ASSUME targets \in Seq(Pages), NEW I \in SUBSET DOMAIN targets, I # {}
  PROVE  \E i \in I : Newest(I) = targets[i]
<1> DEFINE n == Len(targets)
<1>1. n \in Nat /\ DOMAIN targets = 1 .. n
  OBVIOUS
<1>2. \E i \in I : \A j \in I : j <= i
  <2> DEFINE T == {n - i : i \in I}
  <2>1. T \in SUBSET Nat /\ T # {} BY <1>1
  <2>2. PICK m \in T : \A k \in T : m <= k
    <3> HIDE DEF T
    <3> QED BY <2>1, LeastElement
  <2>3. PICK i \in I : m = n - i OBVIOUS
  <2>4. ASSUME NEW j \in I PROVE j <= i
    <3>1. m <= n - j BY <2>2
    <3>2. i \in Nat /\ j \in Nat BY <1>1
    <3> QED BY <1>1, <2>3, <3>1, <3>2
  <2> QED BY <2>4
<1> QED BY <1>2 DEF Newest

\* So is the oldest of those that are to be cleared.
LEMMA OldestFacts ==
  ASSUME targets \in Seq(Pages), NEW I \in SUBSET DOMAIN targets, I # {}
  PROVE  \E i \in I : Oldest(I) = targets[i]
<1>1. I \in SUBSET Nat
  OBVIOUS
<1>2. \E i \in I : \A j \in I : i <= j
  BY <1>1, LeastElement
<1> QED BY <1>2 DEF Oldest

-----------------------------------------------------------------------------
(* Workers and tasks. *)

LEMMA BaseGives == Base <=> JarsInv /\ Copies /\ Distinct
BY DEF Base, JarsInv, TypeOK, WorkerTypes, NoneLeft, TaskTypes, Task, OtherTypes

LEMMA JarOfType ==
  ASSUME Base, NEW p \in Pages
  PROVE  JarOf(p) \in Jars /\ Content(kept) \in Jars
<1>1. Content(kept) \in Jars
  BY DEF Base, OtherTypes, Content, Jars
<1>2. ASSUME RunningBut(p) # {} PROVE core[Newest(RunningBut(p))] \in Jars
  <2>1. RunningBut(p) \in SUBSET DOMAIN targets BY DEF RunningBut
  <2>2. PICK i \in RunningBut(p) : Newest(RunningBut(p)) = targets[i]
    BY <1>2, <2>1, NewestFacts DEF Base
  <2>3. targets[i] \in Pages BY <2>1 DEF Base
  <2> QED BY <2>2, <2>3 DEF Base, WorkerTypes
<1>3. core[p] \in Jars /\ {} \in Jars
  BY DEF Base, WorkerTypes, Jars
<1> QED BY <1>1, <1>2, <1>3 DEF JarOf

\* A step that leaves a Worker running in a page that is open.
LEMMA Runs ==
  ASSUME Base, NEW p \in Open, NEW cookies \in Jars, NEW own \in Jars, targets' = targets,
         worker' = [worker EXCEPT ![p] = "up"], core' = [core EXCEPT ![p] = cookies],
         document' = [document EXCEPT ![p] = own]
  PROVE  /\ WorkerTypes' /\ NoneLeft' /\ Open' = Open
         /\ worker'[p] = "up" /\ core'[p] = cookies
         /\ \A q \in Pages \ {p} : worker'[q] = worker[q] /\ core'[q] = core[q]
<1>1. p \in Pages /\ Open' = Open
  BY OpenFacts DEF Base, Open
<1>2. WorkerTypes'
  BY <1>1 DEF Base, WorkerTypes
<1>3. /\ worker'[p] = "up" /\ core'[p] = cookies
      /\ \A q \in Pages \ {p} :
           worker'[q] = worker[q] /\ core'[q] = core[q] /\ document'[q] = document[q]
  BY <1>1 DEF Base, WorkerTypes
<1>4. NoneLeft'
  BY <1>1, <1>3 DEF Base, NoneLeft
<1> QED BY <1>1, <1>2, <1>3, <1>4

LEMMA Starts ==
  ASSUME Base, NEW p \in Open, NEW cookies \in Jars, targets' = targets, StartWith(p, cookies)
  PROVE  /\ WorkerTypes' /\ NoneLeft' /\ Open' = Open
         /\ worker'[p] = "up" /\ core'[p] = cookies
         /\ \A q \in Pages \ {p} : worker'[q] = worker[q] /\ core'[q] = core[q]
<1> DEFINE own == IF worker[p] = "up" THEN document[p] ELSE {}
<1>1. p \in Pages BY OpenFacts DEF Base
<1>2. own \in Jars BY <1>1 DEF Base, WorkerTypes, Jars
<1>3. document' = [document EXCEPT ![p] = own] BY DEF StartWith
<1> HIDE DEF own
<1> QED BY <1>2, <1>3, Runs DEF StartWith

\* A step that closes a page and its Worker.
LEMMA Stops ==
  ASSUME Base, NEW p, targets' = Without(p), StopWorker(p, "none")
  PROVE  /\ targets' \in Seq(Pages) /\ Distinct' /\ WorkerTypes' /\ NoneLeft' /\ Open' = Open \ {p}
         /\ \A q \in Pages \ {p} : worker'[q] = worker[q] /\ core'[q] = core[q]
<1>1. targets' \in Seq(Pages) /\ Distinct' /\ Open' = Open \ {p}
  BY WithoutFacts DEF Base
<1>2. WorkerTypes'
  BY DEF Base, WorkerTypes, StopWorker, Jars
<1>3. /\ \A q \in Pages \ {p} :
           worker'[q] = worker[q] /\ core'[q] = core[q] /\ document'[q] = document[q]
      /\ p \in Pages => worker'[p] = "none" /\ core'[p] \cup document'[p] = {}
  BY DEF Base, WorkerTypes, StopWorker
<1>4. NoneLeft'
  BY <1>1, <1>3 DEF Base, NoneLeft
<1> QED BY <1>1, <1>2, <1>3, <1>4

\* A call goes on, or ends.
LEMMA GoesOn ==
  ASSUME Base, NEW c \in Callers, NEW t \in Task, task' = [task EXCEPT ![c] = t],
         t.step \in {"seed", "save", "set", "recycle", "reseed"} => t.copy \in Jars
  PROVE  /\ TaskTypes' /\ Copies' /\ task'[c] = t
         /\ \A d \in Callers \ {c} : task'[d] = task[d]
<1>1. TaskTypes' /\ task'[c] = t /\ \A d \in Callers \ {c} : task'[d] = task[d]
  BY DEF Base, TaskTypes
<1>2. Copies'
  BY <1>1 DEF Base, Copies
<1> QED BY <1>1, <1>2

LEMMA NoTaskFacts == NoTask \in Task /\ NoTask.step = "idle"
BY DEF NoTask, Task, Steps

LEMMA Ends ==
  ASSUME Base, NEW c \in Callers, End(c)
  PROVE  /\ TaskTypes' /\ Copies' /\ task'[c] = NoTask
         /\ \A d \in Callers \ {c} : task'[d] = task[d]
BY NoTaskFacts, GoesOn DEF End

LEMMA Begins ==
  ASSUME Base, NEW c \in Callers, NEW step \in Steps, NEW page \in Pages \cup {NoPage},
         NEW rest \in Seq(Pages), NEW copy \in {NoJar} \cup Jars,
         Begin(c, step, page, rest, copy),
         step \in {"seed", "save", "set", "recycle", "reseed"} => copy \in Jars
  PROVE  /\ TaskTypes' /\ Copies' /\ \A d \in Callers \ {c} : task'[d] = task[d]
         /\ task'[c] = [step |-> step, page |-> page, rest |-> rest, copy |-> copy]
<1> DEFINE t == [step |-> step, page |-> page, rest |-> rest, copy |-> copy]
<1>1. t \in Task /\ (t.step \in {"seed", "save", "set", "recycle", "reseed"} => t.copy \in Jars)
  BY DEF Task
<1>2. task' = [task EXCEPT ![c] = t]
  BY DEF Begin
<1> HIDE DEF t
<1>3. TaskTypes' /\ Copies' /\ task'[c] = t /\ \A d \in Callers \ {c} : task'[d] = task[d]
  BY <1>1, <1>2, GoesOn
<1> QED BY <1>3 DEF t

LEMMA TaskFacts ==
  ASSUME Base, NEW c \in Callers
  PROVE  /\ task[c] \in Task /\ task[c].step \in Steps /\ task[c].page \in Pages \cup {NoPage}
         /\ task[c].rest \in Seq(Pages) /\ task[c].copy \in {NoJar} \cup Jars
         /\ task[c].step \in {"seed", "save", "set", "recycle", "reseed"} => task[c].copy \in Jars
<1>1. task[c] \in Task BY DEF Base, TaskTypes
<1>2. task[c].step \in {"seed", "save", "set", "recycle", "reseed"} => task[c].copy \in Jars
  BY DEF Base, Copies
<1> QED BY <1>1, <1>2 DEF Task

-----------------------------------------------------------------------------
(* Nothing is left of a page that is not open. *)

\* The task of a page that is to be navigated to its first URL.
LEMMA LoadTask ==
  ASSUME NEW page
  PROVE  [NoTask EXCEPT !.step = "load", !.page = page] =
           [step |-> "load", page |-> page, rest |-> <<>>, copy |-> NoJar]
<1> DEFINE u == [NoTask EXCEPT !.step = "load"]
<1>1. u = [step |-> "load", page |-> NoPage, rest |-> <<>>, copy |-> NoJar] BY DEF NoTask
<1>2. [u EXCEPT !.page = page] = [step |-> "load", page |-> page, rest |-> <<>>, copy |-> NoJar]
  <2> HIDE DEF u
  <2> QED BY <1>1
<1> QED BY <1>2

LEMMA BaseInit ==
  ASSUME Init
  PROVE  Base
<1>1. {} \in Jars /\ \A cookies \in SUBSET Cookies : cookies \in Jars
  BY DEF Jars
<1>2. jar \in Jars /\ targets \in Seq(Pages) /\ Distinct
  <2>1. CASE targets = <<>> /\ jar = {} BY <1>1, <2>1 DEF Distinct
  <2>2. CASE \E p \in Pages : targets = <<p>> /\ jar \in SUBSET Cookies
    BY <1>1, <2>2 DEF Distinct
  <2> QED BY <2>1, <2>2 DEF Init
<1>3. WorkerTypes /\ NoneLeft
  BY <1>1, <1>2 DEF Init, WorkerTypes, NoneLeft
<1>4. TaskTypes /\ Copies
  BY NoTaskFacts DEF Init, TaskTypes, Copies
<1> QED BY <1>2, <1>3, <1>4 DEF Base, OtherTypes, Init

\* How a call begins.
LEMMA BaseBegins ==
  ASSUME Base, NEW c \in Callers,
         \/ CallCheckpoint(c) \/ CallClear(c)
         \/ \E p \in Pages : CallCreate(c, p) \/ CallClose(c, p) \/ CallRecycle(c, p)
         \/ \E k \in Cookies : CallSetCookie(c, k)
  PROVE  Base'
<1> USE DEF Steps
<1>0. <<>> \in Seq(Pages) /\ NoPage \in Pages \cup {NoPage} /\ NoJar \in {NoJar} \cup Jars
  OBVIOUS
<1>1. ASSUME UNCHANGED <<targets, workerVars, kept, saved, history>>, TaskTypes', Copies'
      PROVE  Base'
  BY <1>1 DEF Base, Distinct, WorkerTypes, NoneLeft, OtherTypes, workerVars, history, Open
<1>2. ASSUME NEW p \in Pages, CallCreate(c, p) PROVE Base'
  <2> DEFINE rest == IF targets = <<>> THEN <<>> ELSE <<targets[Len(targets)]>>
  <2>1. rest \in Seq(Pages) BY DEF Base
  <2>2. Begin(c, "start", p, rest, NoJar) BY <1>2 DEF CallCreate
  <2> HIDE DEF rest
  <2>3. TaskTypes' /\ Copies' BY <1>0, <2>1, <2>2, Begins
  <2>4. p \in Pages \ Open /\ targets' = Append(targets, p) BY <1>2 DEF CallCreate, Fresh
  <2>5. targets' \in Seq(Pages) /\ Distinct' /\ Open' = Open \cup {p}
    BY <2>4, AppendFacts DEF Base
  <2>6. UNCHANGED <<worker, core, document, kept, saved, jar, lost>>
    BY <1>2 DEF CallCreate, workerVars, history
  <2>7. WorkerTypes' /\ NoneLeft' /\ OtherTypes'
    BY <2>5, <2>6 DEF Base, WorkerTypes, NoneLeft, OtherTypes
  <2> QED BY <2>3, <2>5, <2>7 DEF Base
<1>3. ASSUME NEW p \in Pages, CallClose(c, p) PROVE Base'
  <2> DEFINE step == IF Open = {p} /\ worker[p] # "none" THEN "keep" ELSE "remove"
  <2>1. step \in {"keep", "remove"} OBVIOUS
  <2>2. Begin(c, step, p, <<>>, NoJar) BY <1>3 DEF CallClose
  <2> HIDE DEF step
  <2>3. TaskTypes' /\ Copies' BY <1>0, <2>1, <2>2, Begins
  <2> QED BY <1>1, <1>3, <2>3 DEF CallClose
<1>4. ASSUME NEW p \in Pages, CallRecycle(c, p) PROVE Base'
  <2>1. core[p] \in Jars BY DEF Base, WorkerTypes
  <2>2. TaskTypes' /\ Copies' BY <1>0, <1>4, <2>1, Begins DEF CallRecycle
  <2> QED BY <1>1, <1>4, <2>2 DEF CallRecycle
<1>5. ASSUME NEW k \in Cookies, CallSetCookie(c, k) PROVE Base'
  <2>1. {k} \in Jars /\ targets \in Seq(Pages) BY DEF Base, Jars
  <2>2. TaskTypes' /\ Copies' BY <1>0, <1>5, <2>1, Begins DEF CallSetCookie
  <2> QED BY <1>1, <1>5, <2>2 DEF CallSetCookie
<1>6. ASSUME CallClear(c) PROVE Base'
  <2>1. TaskTypes' /\ Copies' BY <1>0, <1>6, Begins DEF CallClear
  <2> QED BY <1>1, <1>6, <2>1 DEF CallClear
<1>7. ASSUME CallCheckpoint(c) PROVE Base'
  <2>1. UNCHANGED <<worker, core, document, kept, saved, jar, lost>>
    BY <1>7 DEF CallCheckpoint, workerVars, history
  <2>2. CASE kept # NoJar /\ Begin(c, "save", NoPage, <<>>, kept) /\ UNCHANGED targets
    <3>1. kept \in Jars BY <2>2 DEF Base, OtherTypes
    <3>2. TaskTypes' /\ Copies' BY <1>0, <2>2, <3>1, Begins
    <3> QED BY <1>1, <2>1, <2>2, <3>2 DEF workerVars, history
  <2>3. CASE targets = <<>> /\ \E p \in Pages :
               Fresh(p) /\ Begin(c, "checkpoint", p, <<>>, NoJar) /\ targets' = <<p>>
    <3>1. PICK p \in Pages : Begin(c, "checkpoint", p, <<>>, NoJar) /\ targets' = <<p>>
      BY <2>3
    <3>2. TaskTypes' /\ Copies' BY <1>0, <3>1, Begins
    <3>3. targets' \in Seq(Pages) /\ Distinct' /\ Open' = {p} BY <3>1 DEF Distinct, Open
    <3>4. Open = {} BY <2>3 DEF Open
    <3>5. WorkerTypes' /\ NoneLeft' /\ OtherTypes'
      BY <2>1, <3>3, <3>4 DEF Base, WorkerTypes, NoneLeft, OtherTypes
    <3> QED BY <3>2, <3>3, <3>5 DEF Base
  <2>4. CASE /\ targets # <<>> /\ UNCHANGED targets
             /\ Begin(c, "checkpoint", targets[Len(targets)],
                      SubSeq(targets, 1, Len(targets) - 1), NoJar)
    <3>1. targets[Len(targets)] \in Pages /\ SubSeq(targets, 1, Len(targets) - 1) \in Seq(Pages)
      BY <2>4 DEF Base
    <3>2. TaskTypes' /\ Copies' BY <1>0, <2>4, <3>1, Begins
    <3> QED BY <1>1, <2>1, <2>4, <3>2 DEF workerVars, history
  <2> QED BY <1>7, <2>2, <2>3, <2>4 DEF CallCheckpoint
<1> QED BY <1>2, <1>3, <1>4, <1>5, <1>6, <1>7

LEMMA Replaced ==
  ASSUME NEW t \in Task
  PROVE  /\ \A step : [t EXCEPT !.step = step] =
                   [step |-> step, page |-> t.page, rest |-> t.rest, copy |-> t.copy]
         /\ \A step, copy : [t EXCEPT !.step = step, !.copy = copy] =
                   [step |-> step, page |-> t.page, rest |-> t.rest, copy |-> copy]
         /\ \A rest : [t EXCEPT !.rest = rest] =
                   [step |-> t.step, page |-> t.page, rest |-> rest, copy |-> t.copy]
<1>1. ASSUME NEW step PROVE
        [t EXCEPT !.step = step] = [step |-> step, page |-> t.page, rest |-> t.rest, copy |-> t.copy]
  BY DEF Task
<1>2. ASSUME NEW step, NEW copy PROVE
        [t EXCEPT !.step = step, !.copy = copy] =
        [step |-> step, page |-> t.page, rest |-> t.rest, copy |-> copy]
  <2> DEFINE u == [t EXCEPT !.step = step]
  <2>1. u = [step |-> step, page |-> t.page, rest |-> t.rest, copy |-> t.copy] BY <1>1
  <2>2. [u EXCEPT !.copy = copy] = [step |-> step, page |-> t.page, rest |-> t.rest, copy |-> copy]
    <3> HIDE DEF u
    <3> QED BY <2>1
  <2> QED BY <2>2
<1>3. ASSUME NEW rest PROVE
        [t EXCEPT !.rest = rest] = [step |-> t.step, page |-> t.page, rest |-> rest, copy |-> t.copy]
  BY DEF Task
<1> QED BY <1>1, <1>2, <1>3

\* How it goes on.
LEMMA BaseGoesOn ==
  ASSUME Base, NEW c \in Callers, CallStep(c)
  PROVE  Base'
<1> USE DEF Steps
<1> DEFINE t == task[c]
           p == t.page
<1>0. /\ t \in Task /\ t.step \in Steps /\ p \in Pages \cup {NoPage} /\ t.rest \in Seq(Pages)
      /\ t.copy \in {NoJar} \cup Jars
      /\ t.step \in {"seed", "save", "set", "recycle", "reseed"} => t.copy \in Jars
      /\ \A q \in Open : JarOf(q) \in Jars /\ q \in Pages
  BY TaskFacts, JarOfType, OpenFacts DEF Base
\* The step, the copy or the rest of a call is replaced.
<1>1. ASSUME NEW step \in Steps, NEW copy \in {NoJar} \cup Jars, NEW rest \in Seq(Pages),
             task' = [task EXCEPT ![c] = [step |-> step, page |-> p, rest |-> rest, copy |-> copy]],
             step \in {"seed", "save", "set", "recycle", "reseed"} => copy \in Jars
      PROVE  TaskTypes' /\ Copies'
  <2>1. [step |-> step, page |-> p, rest |-> rest, copy |-> copy] \in Task
    BY <1>0 DEF Task
  <2> DEFINE u == [step |-> step, page |-> p, rest |-> rest, copy |-> copy]
  <2>2. u.step \in {"seed", "save", "set", "recycle", "reseed"} => u.copy \in Jars BY <1>1
  <2>3. u \in Task /\ task' = [task EXCEPT ![c] = u] BY <1>1, <2>1
  <2> HIDE DEF u
  <2> QED BY <2>2, <2>3, GoesOn
<1>2. /\ \A step : [t EXCEPT !.step = step] =
                   [step |-> step, page |-> p, rest |-> t.rest, copy |-> t.copy]
      /\ \A step, copy : [t EXCEPT !.step = step, !.copy = copy] =
                   [step |-> step, page |-> p, rest |-> t.rest, copy |-> copy]
      /\ \A rest : [t EXCEPT !.rest = rest] =
                   [step |-> t.step, page |-> p, rest |-> rest, copy |-> t.copy]
  <2> HIDE DEF t
  <2>1. t \in Task BY <1>0
  <2> QED BY <2>1, Replaced
<1> HIDE DEF t
<1>3. ASSUME End(c) PROVE TaskTypes' /\ Copies'
  BY <1>3, Ends
<1>4. ASSUME UNCHANGED <<targets, workerVars>> PROVE (WorkerTypes /\ NoneLeft /\ Distinct)'
  BY <1>4 DEF Base, Distinct, WorkerTypes, NoneLeft, workerVars, Open
<1>5. ASSUME UNCHANGED targets PROVE Distinct' /\ targets' \in Seq(Pages)
  BY <1>5 DEF Base, Distinct
<1>6. ASSUME UNCHANGED <<kept, saved, history>> PROVE OtherTypes'
  BY <1>6 DEF Base, OtherTypes, history
\* A page that is ready may have its first navigation ahead.
<1>19. ASSUME Ready(c) PROVE TaskTypes' /\ Copies'
  <2> DEFINE u == [step |-> "load", page |-> p, rest |-> <<>>, copy |-> NoJar]
  <2>1. CASE task' = [task EXCEPT ![c] = [NoTask EXCEPT !.step = "load", !.page = task[c].page]]
    <3>1. task' = [task EXCEPT ![c] = u] BY <2>1, LoadTask DEF t
    <3>2. u \in Task /\ u.step = "load" BY <1>0 DEF Task
    <3> HIDE DEF u
    <3> QED BY <3>1, <3>2, GoesOn
  <2> QED BY <1>3, <1>19, <2>1 DEF Ready
<1>7. CASE StartCreated(c)
  <2>1. p \in Open /\ JarOf(p) \in Jars /\ StartWith(p, JarOf(p)) BY <1>0, <1>7 DEF StartCreated, t
  <2>2. WorkerTypes' /\ NoneLeft' BY <1>7, <2>1, Starts DEF StartCreated
  <2>3. TaskTypes' /\ Copies'
    <3>1. CASE task' = [task EXCEPT ![c].step = "export"]
      <4>1. task' = [task EXCEPT ![c] = [step |-> "export", page |-> p, rest |-> t.rest, copy |-> t.copy]]
        BY <1>2, <3>1 DEF t
      <4> QED BY <1>0, <1>1, <4>1
    <3>2. CASE kept # NoJar /\ task' = [task EXCEPT ![c].step = "seed", ![c].copy = kept]
      <4>1. kept \in Jars BY <3>2 DEF Base, OtherTypes
      <4>2. task' = [task EXCEPT ![c] = [step |-> "seed", page |-> p, rest |-> t.rest, copy |-> kept]]
        BY <1>2, <3>2 DEF t, Base, TaskTypes
      <4> QED BY <1>0, <1>1, <4>1, <4>2
    <3> QED BY <1>7, <1>19, <3>1, <3>2 DEF StartCreated
  <2> QED BY <1>5, <1>6, <1>7, <2>2, <2>3 DEF StartCreated, Base
<1>8. CASE CreateFails(c) \/ RemovePage(c)
  <2>1. targets' = Without(p) /\ StopWorker(p, "none") /\ End(c) /\ UNCHANGED <<kept, saved, history>>
    BY <1>8 DEF CreateFails, RemovePage, t
  <2> QED BY <1>3, <1>6, <2>1, Stops DEF Base
<1>9. CASE ExportSource(c)
  <2> DEFINE source == t.rest[1]
  <2>1. source \in Open /\ JarOf(source) \in Jars /\ StartWith(source, JarOf(source))
    BY <1>0, <1>9 DEF ExportSource, t
  <2>2. WorkerTypes' /\ NoneLeft' BY <1>9, <2>1, Starts DEF ExportSource
  <2>3. task' = [task EXCEPT ![c] = [step |-> "seed", page |-> p, rest |-> t.rest, copy |-> JarOf(source)]]
    BY <1>2, <1>9 DEF ExportSource, t, Base, TaskTypes
  <2>4. TaskTypes' /\ Copies' BY <1>0, <1>1, <2>1, <2>3
  <2> QED BY <1>5, <1>6, <1>9, <2>2, <2>4 DEF ExportSource, Base
<1>10. CASE SeedCreated(c)
  <2>1. p \in Open /\ t.copy \in Jars /\ StartWith(p, t.copy)
    BY <1>0, <1>10 DEF SeedCreated, At, t
  <2>2. WorkerTypes' /\ NoneLeft' BY <1>10, <2>1, Starts DEF SeedCreated
  <2> QED BY <1>5, <1>6, <1>10, <1>19, <2>2 DEF SeedCreated, Base
<1>20. CASE SeedingFails(c)
  BY <1>4, <1>5, <1>6, <1>19, <1>20 DEF SeedingFails, Base
<1>21. CASE LoadFirst(c)
  <2>1. p \in Open /\ JarOf(p) \in Jars /\ StartWith(p, JarOf(p)) BY <1>0, <1>21 DEF LoadFirst, t
  <2>2. WorkerTypes' /\ NoneLeft' BY <1>21, <2>1, Starts DEF LoadFirst
  <2> QED BY <1>3, <1>5, <1>6, <1>21, <2>2 DEF LoadFirst, Base
<1>11. CASE ReturnSnapshot(c) \/ SetReturns(c) \/ ClearReturns(c)
  <2>1. UNCHANGED <<targets, workerVars>> /\ End(c)
    BY <1>11 DEF ReturnSnapshot, SetReturns, ClearReturns
  <2>2. OtherTypes'
    <3>1. {} \in Jars BY DEF Jars
    <3>2. CASE SetReturns(c)
      <4>1. t.copy \in Jars BY <1>0, <3>2 DEF SetReturns, At, t
      <4>2. jar \in Jars /\ jar \cup t.copy \in Jars BY <4>1 DEF Base, OtherTypes, Jars
      <4>3. lost' \in BOOLEAN BY <3>2 DEF SetReturns
      <4> QED BY <3>2, <4>2, <4>3 DEF SetReturns, Base, OtherTypes, t
    <3>3. CASE ReturnSnapshot(c)
      BY <1>0, <3>3 DEF ReturnSnapshot, Base, OtherTypes, At, history, t
    <3>4. CASE ClearReturns(c)
      <4>1. lost' \in BOOLEAN BY <3>4 DEF ClearReturns
      <4> QED BY <3>1, <3>4, <4>1 DEF ClearReturns, Base, OtherTypes
    <3> QED BY <1>11, <3>2, <3>3, <3>4
  <2> QED BY <1>3, <1>4, <1>5, <2>1, <2>2 DEF Base
<1>12. CASE KeepSnapshot(c)
  <2>1. task' = [task EXCEPT ![c] = [step |-> "remove", page |-> p, rest |-> t.rest, copy |-> t.copy]]
    BY <1>2, <1>12 DEF KeepSnapshot, t
  <2>2. TaskTypes' /\ Copies' BY <1>0, <1>1, <2>1
  <2>3. WorkerTypes' /\ NoneLeft' /\ OtherTypes'
    <3>1. CASE p \in Open /\ StartWith(p, JarOf(p)) /\ kept' = JarOf(p)
      <4>1. JarOf(p) \in Jars BY <1>0, <3>1
      <4>2. WorkerTypes' /\ NoneLeft' BY <1>12, <3>1, <4>1, Starts DEF KeepSnapshot
      <4> QED BY <1>12, <3>1, <4>1, <4>2 DEF KeepSnapshot, Base, OtherTypes, history
    <3>2. CASE UNCHANGED <<workerVars, kept>>
      BY <1>4, <1>6, <1>12, <3>2 DEF KeepSnapshot, Base, OtherTypes, history
    <3> QED BY <1>12, <3>1, <3>2 DEF KeepSnapshot, t
  <2> QED BY <1>5, <1>12, <2>2, <2>3 DEF KeepSnapshot, Base
<1>13. CASE ExportNewest(c)
  <2>1. CASE /\ p \in Open /\ StartWith(p, JarOf(p))
             /\ task' = [task EXCEPT ![c].step = "save", ![c].copy = JarOf(p)]
    <3>1. JarOf(p) \in Jars BY <1>0, <2>1
    <3>2. WorkerTypes' /\ NoneLeft' BY <1>13, <2>1, <3>1, Starts DEF ExportNewest
    <3>3. task' = [task EXCEPT ![c] = [step |-> "save", page |-> p, rest |-> t.rest, copy |-> JarOf(p)]]
      BY <1>2, <2>1 DEF t, Base, TaskTypes
    <3>4. TaskTypes' /\ Copies' BY <1>0, <1>1, <3>1, <3>3
    <3> QED BY <1>5, <1>6, <1>13, <3>2, <3>4 DEF ExportNewest, Base
  <2>2. CASE End(c) /\ UNCHANGED workerVars
    BY <1>3, <1>4, <1>5, <1>6, <1>13, <2>2 DEF ExportNewest, Base
  <2> QED BY <1>13, <2>1, <2>2 DEF ExportNewest, t
<1>14. ASSUME t.rest # <<>> PROVE Tail(t.rest) \in Seq(Pages) /\ t.rest[1] \in Pages
  BY <1>0, <1>14
<1>15. CASE RestoreSibling(c)
  <2> DEFINE q == t.rest[1]
  <2>1. Tail(t.rest) \in Seq(Pages) /\ t.copy \in Jars
    BY <1>0, <1>14, <1>15 DEF RestoreSibling, At, t
  <2>2. task' = [task EXCEPT ![c] = [step |-> t.step, page |-> p, rest |-> Tail(t.rest), copy |-> t.copy]]
    BY <1>2, <1>15 DEF RestoreSibling, t
  <2>3. TaskTypes' /\ Copies' BY <1>0, <1>1, <2>1, <2>2
  <2>4. WorkerTypes' /\ NoneLeft'
    <3>1. CASE q \in Open /\ StartWith(q, t.copy) BY <1>15, <2>1, <3>1, Starts DEF RestoreSibling
    <3>2. CASE UNCHANGED workerVars BY <1>4, <1>15, <3>2 DEF RestoreSibling
    <3> QED BY <1>15, <3>1, <3>2 DEF RestoreSibling, t
  <2> QED BY <1>5, <1>6, <1>15, <2>3, <2>4 DEF RestoreSibling, Base
<1>16. CASE SetInPage(c)
  <2> DEFINE q == t.rest[1]
  <2>1. Tail(t.rest) \in Seq(Pages) /\ t.copy \in Jars
    BY <1>0, <1>14, <1>16 DEF SetInPage, At, t
  <2>2. CASE q \notin Open /\ End(c) /\ UNCHANGED workerVars
    BY <1>3, <1>4, <1>5, <1>6, <1>16, <2>2 DEF SetInPage, Base
  <2>3. CASE /\ q \in Open
             /\ worker' = [worker EXCEPT ![q] = "up"]
             /\ core' = [core EXCEPT ![q] = JarOf(q) \cup t.copy]
             /\ document' = [document EXCEPT ![q] =
                  (IF worker[q] = "up" THEN @ ELSE {}) \cup t.copy]
             /\ task' = [task EXCEPT ![c].rest = Tail(@)]
    <3> DEFINE own == (IF worker[q] = "up" THEN document[q] ELSE {}) \cup t.copy
    <3>1. JarOf(q) \cup t.copy \in Jars /\ own \in Jars
      BY <1>0, <2>1, <2>3 DEF Base, WorkerTypes, Jars
    <3>2. document' = [document EXCEPT ![q] = own] BY <2>3
    <3> HIDE DEF own
    <3>3. WorkerTypes' /\ NoneLeft' BY <1>16, <2>3, <3>1, <3>2, Runs DEF SetInPage
    <3>4. task' = [task EXCEPT ![c] = [step |-> t.step, page |-> p, rest |-> Tail(t.rest), copy |-> t.copy]]
      BY <1>2, <2>3 DEF t
    <3>5. TaskTypes' /\ Copies' BY <1>0, <1>1, <2>1, <3>4
    <3> QED BY <1>5, <1>6, <1>16, <3>3, <3>5 DEF SetInPage, Base
  <2> QED BY <1>16, <2>2, <2>3 DEF SetInPage, t
<1>17. CASE ClearPage(c)
  <2> DEFINE q == Oldest(Uncleared(c))
  <2>1. q \in Open
    <3>1. Uncleared(c) \in SUBSET DOMAIN targets /\ Uncleared(c) # {} /\ targets \in Seq(Pages)
      BY <1>17 DEF ClearPage, Uncleared, Base
    <3> QED BY <3>1, OldestFacts, OpenFacts
  <2>2. {} \in Jars BY DEF Jars
  <2>3. WorkerTypes' /\ NoneLeft' BY <1>17, <2>1, <2>2, Runs DEF ClearPage
  <2>4. Append(t.rest, q) \in Seq(Pages) BY <1>0, <2>1
  <2>5. task' = [task EXCEPT ![c] = [step |-> t.step, page |-> p, rest |-> Append(t.rest, q), copy |-> t.copy]]
    BY <1>2, <1>17 DEF ClearPage, t
  <2>6. TaskTypes' /\ Copies' BY <1>0, <1>1, <2>4, <2>5
  <2> QED BY <1>5, <1>6, <1>17, <2>3, <2>6 DEF ClearPage, Base
<1>18. CASE FreshWorker(c)
  <2>1. CASE p \notin Open /\ End(c) /\ UNCHANGED workerVars
    BY <1>3, <1>4, <1>5, <1>6, <1>18, <2>1 DEF FreshWorker, Base
  <2>2. CASE /\ p \in Open
             /\ worker' = [worker EXCEPT ![p] = "up"]
             /\ core' = [core EXCEPT ![p] = {}]
             /\ document' = [document EXCEPT ![p] = {}]
             /\ task' = [task EXCEPT ![c].step = "reseed"]
    <3>1. {} \in Jars /\ t.copy \in Jars BY <1>0, <1>18 DEF Jars, FreshWorker, At, t
    <3>2. WorkerTypes' /\ NoneLeft' BY <1>18, <2>2, <3>1, Runs DEF FreshWorker
    <3>3. task' = [task EXCEPT ![c] = [step |-> "reseed", page |-> p, rest |-> t.rest, copy |-> t.copy]]
      BY <1>2, <2>2 DEF t
    <3>4. TaskTypes' /\ Copies' BY <1>0, <1>1, <3>1, <3>3
    <3> QED BY <1>5, <1>6, <1>18, <3>2, <3>4 DEF FreshWorker, Base
  <2> QED BY <1>18, <2>1, <2>2 DEF FreshWorker, t
<1>22. CASE SeedFresh(c)
  <2>1. t.copy \in Jars BY <1>0, <1>22 DEF SeedFresh, At, t
  <2>2. WorkerTypes' /\ NoneLeft'
    <3>1. CASE p \in Open /\ StartWith(p, t.copy) BY <1>22, <2>1, <3>1, Starts DEF SeedFresh
    <3>2. CASE UNCHANGED workerVars BY <1>4, <1>22, <3>2 DEF SeedFresh
    <3> QED BY <1>22, <3>1, <3>2 DEF SeedFresh, t
  <2> QED BY <1>3, <1>5, <1>6, <1>22, <2>2 DEF SeedFresh, Base
<1> QED
  BY <1>7, <1>8, <1>9, <1>10, <1>11, <1>12, <1>13, <1>15, <1>16, <1>17, <1>18, <1>20, <1>21, <1>22
  DEF CallStep

\* What pages do.
LEMMA BaseOfPages ==
  ASSUME Base, NEW p \in Pages,
         WorkerEnds(p) \/ UsePage(p) \/ \E k \in PageCookies : Receive(p, k)
  PROVE  Base'
<1>1. CASE WorkerEnds(p)
  <2>1. p \in Open /\ Open' = Open BY <1>1 DEF WorkerEnds, Running, Open
  <2>2. {} \in Jars BY DEF Jars
  <2>3. WorkerTypes' /\ NoneLeft'
    BY <1>1, <2>1, <2>2 DEF Base, WorkerEnds, StopWorker, WorkerTypes, NoneLeft
  <2>4. lost' \in BOOLEAN BY <1>1 DEF WorkerEnds
  <2> QED
    BY <1>1, <2>3, <2>4 DEF Base, WorkerEnds, OtherTypes, Distinct, TaskTypes, Copies
<1>2. CASE UsePage(p)
  <2>1. p \in Open /\ JarOf(p) \in Jars BY <1>2, JarOfType DEF UsePage
  <2>2. WorkerTypes' /\ NoneLeft' BY <1>2, <2>1, Starts DEF UsePage
  <2> QED BY <1>2, <2>2 DEF Base, UsePage, OtherTypes, Distinct, TaskTypes, Copies, history
<1>3. ASSUME NEW k \in PageCookies, Receive(p, k) PROVE Base'
  <2>1. p \in Open /\ Open' = Open BY <1>3 DEF Receive, Running, Open
  <2>2. document[p] \cup {k} \in Jars BY DEF Base, WorkerTypes, Jars
  <2>3. WorkerTypes' /\ NoneLeft'
    BY <1>3, <2>1, <2>2 DEF Base, Receive, WorkerTypes, NoneLeft
  <2> QED BY <1>3, <2>3 DEF Base, Receive, OtherTypes, Distinct, TaskTypes, Copies, history
<1> QED BY <1>1, <1>2, <1>3

LEMMA BaseStep ==
  ASSUME Base, [Next]_vars
  PROVE  Base'
<1>1. CASE UNCHANGED vars
  BY <1>1 DEF vars, Base, Distinct, WorkerTypes, NoneLeft, TaskTypes, Copies,
    OtherTypes, Open
<1>2. CASE Next
  BY <1>2, BaseBegins, BaseGoesOn, BaseOfPages DEF Next
<1> QED BY <1>1, <1>2

\* No page that was closed, or failed to open, has left a Worker, whatever
\* calls overlap and whichever Workers end.
THEOREM NothingIsLeft == Spec => []JarsInv
<1>1. Init => Base BY BaseInit
<1>2. Base /\ [Next]_vars => Base' BY BaseStep
<1>3. Base => JarsInv BY BaseGives
<1> QED BY <1>1, <1>2, <1>3, PTL DEF Spec

-----------------------------------------------------------------------------
(* One call at a time. *)

\* Whoever runs has the cookies J, and a page that has never been started has
\* missed none.
Agree(P, J) ==
  \A p \in P : /\ worker[p] = "up" => core[p] = J
               /\ worker[p] = "none" => J = {} /\ kept = NoJar

\* Where nobody runs, what was kept has them.
KeptAgrees(P, J) == (\A p \in P : worker[p] # "up") => Content(kept) = J

NoneEnded == \A p \in Open : worker[p] # "ended"

Rest(c) == {task[c].rest[i] : i \in DOMAIN task[c].rest}

\* What a call has done so far, by its next step.
UnderWay(c, J) ==
  LET t == task[c]
      others == Open \ {t.page}
  IN  /\ t.step = "start" =>
           /\ t.page \in Open /\ worker[t.page] = "none"
           /\ Agree(others, J) /\ KeptAgrees(others, J)
           /\ IF t.rest = <<>> THEN others = {} ELSE t.rest[1] \in others
      /\ t.step = "export" =>
           /\ t.page \in Open /\ worker[t.page] = "up" /\ Agree(others, J)
           /\ t.rest # <<>> /\ t.rest[1] \in others /\ worker[t.rest[1]] = "up"
      /\ t.step \in {"seed", "recycle", "reseed"} =>
           t.page \in Open /\ worker[t.page] = "up" /\ Agree(others, J) /\ t.copy = J
      /\ t.step = "seed" => KeptAgrees(others, J)
      /\ t.step = "load" =>
           t.page \in Open /\ worker[t.page] = "up" /\ Agree(Open, J) /\ KeptAgrees(others, J)
      /\ t.step = "keep" => Open = {t.page} /\ worker[t.page] = "up" /\ Agree(Open, J)
      /\ t.step = "remove" => t.page \in Open /\ Agree(others, J) /\ KeptAgrees(others, J)
      /\ t.step = "checkpoint" => t.page \in Open /\ Agree(Open, J) /\ KeptAgrees(Open, J)
      /\ t.step = "save" => Agree(Open, J) /\ KeptAgrees(Open, J) /\ t.copy = J
      /\ t.step = "set" =>
           /\ \A i, j \in DOMAIN t.rest : t.rest[i] = t.rest[j] => i = j
           /\ Rest(c) \subseteq Open /\ Agree(Rest(c), J) /\ KeptAgrees(Open, J)
           /\ \A p \in Open \ Rest(c) : worker[p] = "up" /\ core[p] = J \cup t.copy
      /\ t.step = "clear" =>
           /\ KeptAgrees(Open, J)
           /\ \A p \in Open \cap Rest(c) : worker[p] = "up" /\ core[p] = {}

SerialOf(J) ==
  /\ \A c, d \in Busy : c = d
  /\ NoneEnded \/ WorkersEnd = "noticed"
  /\ Idle => Agree(Open, J) /\ KeptAgrees(Open, J)
  /\ \A c \in Busy : NoneEnded /\ UnderWay(c, J)

-----------------------------------------------------------------------------
(* What starting a page gives it, and who acts. *)

LEMMA JarIs ==
  ASSUME Base, NEW J, NEW P \in SUBSET Open, NEW p \in P, Agree(P, J),
         worker[p] = "ended" => P = Open /\ KeptAgrees(Open, J)
  PROVE  JarOf(p) = J
<1>1. p \in Pages /\ worker[p] \in {"none", "up", "ended"}
  BY OpenFacts DEF Base, WorkerTypes
<1>2. CASE worker[p] = "up" BY <1>2 DEF JarOf, Agree
<1>3. CASE worker[p] = "none" BY <1>3 DEF JarOf, Agree
<1>4. CASE worker[p] = "ended"
  <2>1. CASE RunningBut(p) # {}
    <3>1. RunningBut(p) \in SUBSET DOMAIN targets BY DEF RunningBut
    <3>2. PICK i \in RunningBut(p) : Newest(RunningBut(p)) = targets[i]
      BY <2>1, <3>1, NewestFacts DEF Base
    <3>3. targets[i] \in Open /\ worker[targets[i]] = "up"
      BY <3>1, OpenFacts DEF RunningBut, Base
    <3>4. core[targets[i]] = J BY <1>4, <3>3 DEF Agree
    <3> QED BY <1>4, <2>1, <3>2, <3>4 DEF JarOf
  <2>2. CASE RunningBut(p) = {}
    <3>1. \A q \in Open : worker[q] # "up" BY <1>4, <2>2, OpenFacts DEF RunningBut, Base
    <3> QED BY <1>4, <2>2, <3>1 DEF JarOf, KeptAgrees
  <2> QED BY <2>1, <2>2
<1> QED BY <1>1, <1>2, <1>3, <1>4

LEMMA TurnMeansIdle ==
  ASSUME CallsAtOnce = 1, Cardinality(Busy) < CallsAtOnce
  PROVE  Idle
<1>1. IsFiniteSet(Busy) BY JarsAssumption, FS_Subset DEF Busy
<1>2. Cardinality(Busy) \in Nat BY <1>1, FS_CardinalityType
<1>3. Cardinality(Busy) = 0 BY <1>2
<1> QED BY <1>1, <1>3, FS_EmptySet DEF Idle

LEMMA SerialActs ==
  ASSUME NEW J, SerialOf(J), NEW c \in Callers, c \in Busy \/ Idle,
         \A d \in Callers \ {c} : task'[d] = task[d], NoneEnded',
         task'[c] = NoTask => (Agree(Open, J) /\ KeptAgrees(Open, J))',
         task'[c] # NoTask => UnderWay(c, J)'
  PROVE  SerialOf(J)'
<1>1. \A d \in Callers \ {c} : task[d] = NoTask
  BY DEF SerialOf, Busy, Idle
<1>2. Busy' \subseteq {c} /\ (Busy' = {} <=> task'[c] = NoTask)
  BY <1>1 DEF Busy
<1>3. Idle' <=> task'[c] = NoTask
  BY <1>2 DEF Idle
<1> QED BY <1>2, <1>3 DEF SerialOf

\* A call that is over may have left other cookies.
LEMMA SerialEnds ==
  ASSUME NEW J, NEW K, SerialOf(J), NEW c \in Callers, c \in Busy,
         task' = [task EXCEPT ![c] = NoTask], TaskTypes,
         NoneEnded', Agree(Open, K)', KeptAgrees(Open, K)'
  PROVE  SerialOf(K)'
<1>1. \A d \in Callers \ {c} : task[d] = NoTask
  BY DEF SerialOf, Busy
<1>2. \A d \in Callers : task'[d] = NoTask
  BY <1>1 DEF TaskTypes
<1>3. Busy' = {}
  BY <1>2 DEF Busy
<1> QED BY <1>3 DEF SerialOf

LEMMA TailFacts ==
  ASSUME NEW rest \in Seq(Pages), rest # <<>>,
         \A i, j \in DOMAIN rest : rest[i] = rest[j] => i = j
  PROVE  /\ Tail(rest) \in Seq(Pages)
         /\ \A i, j \in DOMAIN Tail(rest) : Tail(rest)[i] = Tail(rest)[j] => i = j
         /\ rest[1] \in {rest[i] : i \in DOMAIN rest}
         /\ {Tail(rest)[i] : i \in DOMAIN Tail(rest)} = {rest[i] : i \in DOMAIN rest} \ {rest[1]}
<1> DEFINE n == Len(rest)
<1>1. /\ n \in Nat /\ n >= 1 /\ DOMAIN rest = 1 .. n
      /\ Tail(rest) \in Seq(Pages) /\ DOMAIN Tail(rest) = 1 .. n - 1
      /\ \A i \in 1 .. n - 1 : Tail(rest)[i] = rest[i + 1]
  OBVIOUS
<1> HIDE DEF n
<1>2. ASSUME NEW i \in 1 .. n - 1, NEW j \in 1 .. n - 1, Tail(rest)[i] = Tail(rest)[j]
      PROVE  i = j
  <2>1. i + 1 = j + 1 BY <1>1, <1>2
  <2> QED BY <1>1, <2>1
<1>3. ASSUME NEW i \in 1 .. n - 1
      PROVE  Tail(rest)[i] \in {rest[k] : k \in 1 .. n} \ {rest[1]}
  <2>1. i + 1 \in 1 .. n /\ i + 1 # 1 /\ 1 \in 1 .. n BY <1>1
  <2> QED BY <1>1, <2>1
<1>4. ASSUME NEW k \in 1 .. n, rest[k] # rest[1]
      PROVE  rest[k] \in {Tail(rest)[i] : i \in 1 .. n - 1}
  <2>1. k - 1 \in 1 .. n - 1 /\ rest[k] = Tail(rest)[k - 1] BY <1>1, <1>4
  <2> QED BY <2>1
<1>5. rest[1] \in {rest[i] : i \in 1 .. n}
  BY <1>1
<1>6. {Tail(rest)[i] : i \in 1 .. n - 1} = {rest[i] : i \in 1 .. n} \ {rest[1]}
  BY <1>3, <1>4
<1> QED BY <1>1, <1>2, <1>5, <1>6

-----------------------------------------------------------------------------
(* The pages agree. *)

LEMMA SerialInit ==
  ASSUME Init, NEW J, J = jar
  PROVE  SerialOf(J)
<1>1. Busy = {} /\ Idle /\ Open \subseteq Pages /\ Base
  BY BaseInit, OpenFacts DEF Busy, Idle, Init, Base
<1>2. Agree(Open, J) /\ NoneEnded
  BY <1>1 DEF Init, Agree, NoneEnded
<1>3. KeptAgrees(Open, J)
  <2>1. CASE targets = <<>> /\ jar = {}
    BY <2>1 DEF Init, KeptAgrees, Content
  <2>2. CASE \E p \in Pages : targets = <<p>> /\ jar \in SUBSET Cookies
    <3>1. PICK p \in Pages : targets = <<p>> BY <2>2
    <3>2. p \in Open BY <3>1 DEF Open
    <3> QED BY <3>2 DEF Init, KeptAgrees, Content
  <2> QED BY <2>1, <2>2 DEF Init
<1> QED BY <1>1, <1>2, <1>3 DEF SerialOf

LEMMA SerialBegins ==
  ASSUME Base, Base', NEW J \in Jars, SerialOf(J), CallsAtOnce = 1, WorkersEnd # "unnoticed",
         NEW c \in Callers,
         \/ CallCheckpoint(c) \/ CallClear(c)
         \/ \E p \in Pages : CallCreate(c, p) \/ CallClose(c, p) \/ CallRecycle(c, p)
         \/ \E k \in Cookies : CallSetCookie(c, k)
  PROVE  SerialOf(J)'
<1>1. ASSUME NEW step, NEW page, NEW rest, NEW copy, Begin(c, step, page, rest, copy)
      PROVE  /\ Idle /\ Agree(Open, J) /\ KeptAgrees(Open, J) /\ NoneEnded
             /\ \A d \in Callers \ {c} : task'[d] = task[d]
             /\ task'[c] = [step |-> step, page |-> page, rest |-> rest, copy |-> copy]
  <2>1. Idle BY <1>1, TurnMeansIdle DEF Begin, Turn
  <2>2. NoneEnded BY <1>1 DEF Begin, Turn, SerialOf, NoneEnded
  <2> QED BY <1>1, <2>1, <2>2 DEF Begin, SerialOf, Base, TaskTypes
<1>2. \A p \in Open : p \in Pages /\ worker[p] \in {"none", "up", "ended"}
  BY OpenFacts DEF Base, WorkerTypes
<1>3. ASSUME NEW p \in Pages, CallCreate(c, p) PROVE SerialOf(J)'
  <2> DEFINE rest == IF targets = <<>> THEN <<>> ELSE <<targets[Len(targets)]>>
  <2>1. Begin(c, "start", p, rest, NoJar) BY <1>3 DEF CallCreate
  <2>2. p \in Pages \ Open /\ targets' = Append(targets, p) BY <1>3 DEF CallCreate, Fresh
  <2>3. Open' = Open \cup {p} BY <2>2, AppendFacts DEF Base
  <2>4. UNCHANGED <<worker, core, kept>> BY <1>3 DEF CallCreate, workerVars
  <2>5. worker[p] = "none" BY <2>2 DEF Base, NoneLeft
  <2>6. IF rest = <<>> THEN Open = {} ELSE rest[1] \in Open
    <3>1. CASE targets = <<>> BY <3>1 DEF Open
    <3>2. CASE targets # <<>>
      <4>1. Len(targets) \in 1 .. Len(targets) BY <3>2 DEF Base
      <4> QED BY <3>2, <4>1 DEF Open
    <3> QED BY <3>1, <3>2
  <2> HIDE DEF rest
  <2>7. /\ task'[c] = [step |-> "start", page |-> p, rest |-> rest, copy |-> NoJar]
        /\ Agree(Open, J) /\ KeptAgrees(Open, J) /\ NoneEnded /\ Idle
    BY <1>1, <2>1
  <2>8. NoneEnded' BY <2>3, <2>4, <2>5, <2>7 DEF NoneEnded
  <2>9. Open' \ {p} = Open /\ p \in Open' BY <2>2, <2>3
  <2>10. UnderWay(c, J)'
    <3>1. Agree(Open \ {p}, J)' /\ KeptAgrees(Open \ {p}, J)'
      BY <2>4, <2>7, <2>9 DEF Agree, KeptAgrees
    <3> QED BY <2>4, <2>5, <2>6, <2>7, <2>9, <3>1 DEF UnderWay, Agree, KeptAgrees
  <2>11. task'[c] # NoTask BY <2>7 DEF NoTask
  <2> QED BY <1>1, <2>1, <2>7, <2>8, <2>10, <2>11, SerialActs
\* The other calls leave the Workers and, but for one of them, the pages.
<1>4. ASSUME NEW step, NEW page, NEW rest, NEW copy, Begin(c, step, page, rest, copy),
             step # "idle", UNCHANGED <<targets, workerVars, kept>>, UnderWay(c, J)'
      PROVE  SerialOf(J)'
  <2>1. NoneEnded' BY <1>1, <1>4 DEF NoneEnded, Open, workerVars
  <2>2. task'[c] = [step |-> step, page |-> page, rest |-> rest, copy |-> copy] /\ Idle
    BY <1>1, <1>4
  <2>3. task'[c] # NoTask BY <1>4, <2>2 DEF NoTask
  <2>4. \A d \in Callers \ {c} : task'[d] = task[d] BY <1>1, <1>4
  <2> QED BY <1>4, <2>1, <2>2, <2>3, <2>4, SerialActs
<1>5. ASSUME NEW p \in Pages, CallClose(c, p) PROVE SerialOf(J)'
  <2> DEFINE step == IF Open = {p} /\ worker[p] # "none" THEN "keep" ELSE "remove"
  <2>1. Begin(c, step, p, <<>>, NoJar) /\ p \in Open /\ UNCHANGED <<targets, workerVars, kept>>
    BY <1>5 DEF CallClose
  <2>2. step = "keep" => Open = {p} /\ worker[p] # "none" OBVIOUS
  <2>3. step = "remove" => Open # {p} \/ worker[p] = "none" OBVIOUS
  <2>4. step \in {"keep", "remove"} OBVIOUS
  <2> HIDE DEF step
  <2>5. /\ task'[c] = [step |-> step, page |-> p, rest |-> <<>>, copy |-> NoJar]
        /\ Agree(Open, J) /\ KeptAgrees(Open, J) /\ NoneEnded
    BY <1>1, <2>1
  <2>6. step = "keep" => worker[p] = "up" BY <1>2, <2>1, <2>2, <2>5 DEF NoneEnded
  <2>7. Agree(Open \ {p}, J) BY <2>5 DEF Agree
  <2>8. step = "remove" => KeptAgrees(Open \ {p}, J)
    <3>1. CASE worker[p] # "up"
      BY <2>5, <3>1 DEF KeptAgrees
    <3>2. CASE worker[p] = "up" /\ Open # {p}
      <4>1. PICK q \in Open \ {p} : TRUE BY <2>1, <3>2
      <4>2. worker[q] # "up" => J = {} /\ kept = NoJar
        BY <1>2, <2>5, <4>1 DEF NoneEnded, Agree
      <4> QED BY <4>1, <4>2 DEF KeptAgrees, Content
    <3> QED BY <2>3, <3>1, <3>2
  <2>9. UNCHANGED <<Open, worker, core, kept>> BY <2>1 DEF workerVars, Open
  <2>10. UnderWay(c, J)'
    BY <2>1, <2>2, <2>4, <2>5, <2>6, <2>7, <2>8, <2>9 DEF UnderWay, Agree, KeptAgrees
  <2> QED BY <1>4, <2>1, <2>4, <2>10
<1>6. ASSUME NEW p \in Pages, CallRecycle(c, p) PROVE SerialOf(J)'
  <2>1. /\ Begin(c, "recycle", p, <<>>, core[p]) /\ UNCHANGED <<targets, workerVars, kept>>
        /\ p \in Open /\ worker[p] = "up"
    BY <1>6 DEF CallRecycle, Running
  <2>2. /\ task'[c] = [step |-> "recycle", page |-> p, rest |-> <<>>, copy |-> core[p]]
        /\ Agree(Open, J)
    BY <1>1, <2>1
  <2>3. core[p] = J /\ Agree(Open \ {p}, J) BY <2>1, <2>2 DEF Agree
  <2>4. UNCHANGED <<Open, worker, core, kept>> BY <2>1 DEF workerVars, Open
  <2>5. UnderWay(c, J)' BY <2>1, <2>2, <2>3, <2>4 DEF UnderWay, Agree
  <2> QED BY <1>4, <2>1, <2>5
<1>7. ASSUME NEW k \in Cookies, CallSetCookie(c, k) PROVE SerialOf(J)'
  <2>1. Begin(c, "set", NoPage, targets, {k}) /\ UNCHANGED <<targets, workerVars, kept>>
    BY <1>7 DEF CallSetCookie
  <2>2. /\ task'[c] = [step |-> "set", page |-> NoPage, rest |-> targets, copy |-> {k}]
        /\ Agree(Open, J) /\ KeptAgrees(Open, J)
    BY <1>1, <2>1
  <2>3. UNCHANGED <<Open, worker, core, kept>> BY <2>1 DEF workerVars, Open
  <2>4. Rest(c)' = Open BY <2>2, OpenFacts DEF Rest, Base
  <2>5. Agree(Rest(c), J)' /\ KeptAgrees(Open, J)' /\ Rest(c)' = Open'
    BY <2>2, <2>3, <2>4 DEF Agree, KeptAgrees
  <2>6. \A i, j \in DOMAIN task'[c].rest : task'[c].rest[i] = task'[c].rest[j] => i = j
    BY <2>2 DEF Base, Distinct
  <2>7. task'[c].step = "set" BY <2>2
  <2>8. UnderWay(c, J)' BY <2>5, <2>6, <2>7 DEF UnderWay
  <2> QED BY <1>4, <2>1, <2>8
<1>8. ASSUME CallClear(c) PROVE SerialOf(J)'
  <2>1. Begin(c, "clear", NoPage, <<>>, NoJar) /\ UNCHANGED <<targets, workerVars, kept>>
    BY <1>8 DEF CallClear
  <2>2. /\ task'[c] = [step |-> "clear", page |-> NoPage, rest |-> <<>>, copy |-> NoJar]
        /\ KeptAgrees(Open, J)
    BY <1>1, <2>1
  <2>3. UNCHANGED <<Open, worker, core, kept>> BY <2>1 DEF workerVars, Open
  <2>4. KeptAgrees(Open, J)' /\ Rest(c)' = {} BY <2>2, <2>3 DEF KeptAgrees, Rest
  <2>5. UnderWay(c, J)' BY <2>2, <2>4 DEF UnderWay
  <2> QED BY <1>4, <2>1, <2>5
<1>9. ASSUME CallCheckpoint(c) PROVE SerialOf(J)'
  <2>1. UNCHANGED <<worker, core, kept>> /\ UNCHANGED workerVars
    BY <1>9 DEF CallCheckpoint, workerVars
  <2>2. CASE targets = <<>> /\ kept # NoJar /\ Begin(c, "save", NoPage, <<>>, kept) /\ UNCHANGED targets
    <3>1. /\ task'[c] = [step |-> "save", page |-> NoPage, rest |-> <<>>, copy |-> kept]
          /\ Agree(Open, J) /\ KeptAgrees(Open, J)
      BY <1>1, <2>2
    <3>2. Open = {} /\ Open' = Open BY <2>2 DEF Open
    <3>3. kept = J BY <2>2, <3>1, <3>2 DEF KeptAgrees, Content
    <3>4. UnderWay(c, J)' BY <2>1, <3>1, <3>2, <3>3 DEF UnderWay, Agree, KeptAgrees
    <3> QED BY <1>4, <2>1, <2>2, <3>4
  <2>3. CASE /\ targets = <<>> /\ kept = NoJar
             /\ \E p \in Pages :
                  Fresh(p) /\ Begin(c, "checkpoint", p, <<>>, NoJar) /\ targets' = <<p>>
    <3>1. PICK p \in Pages :
            Fresh(p) /\ Begin(c, "checkpoint", p, <<>>, NoJar) /\ targets' = <<p>>
      BY <2>3
    <3>2. /\ task'[c] = [step |-> "checkpoint", page |-> p, rest |-> <<>>, copy |-> NoJar]
          /\ KeptAgrees(Open, J) /\ Idle /\ \A d \in Callers \ {c} : task'[d] = task[d]
      BY <1>1, <3>1
    <3>3. Open = {} /\ Open' = {p} BY <2>3, <3>1 DEF Open
    <3>4. worker[p] = "none" /\ J = {} BY <2>3, <3>2, <3>3 DEF Base, NoneLeft, KeptAgrees, Content
    <3>5. Agree(Open, J)' /\ KeptAgrees(Open, J)' /\ NoneEnded'
      BY <2>1, <2>3, <3>3, <3>4 DEF Agree, KeptAgrees, NoneEnded, Content
    <3>6. UnderWay(c, J)' BY <3>2, <3>3, <3>5 DEF UnderWay
    <3>7. task'[c] # NoTask BY <3>2 DEF NoTask
    <3> QED BY <3>2, <3>5, <3>6, <3>7, SerialActs
  <2>4. CASE /\ targets # <<>> /\ UNCHANGED targets
             /\ Begin(c, "checkpoint", targets[Len(targets)],
                      SubSeq(targets, 1, Len(targets) - 1), NoJar)
    <3> DEFINE p == targets[Len(targets)]
               rest == SubSeq(targets, 1, Len(targets) - 1)
    <3>1. Len(targets) \in 1 .. Len(targets) BY <2>4 DEF Base
    <3>2. p \in Open BY <3>1 DEF Open
    <3>3. Begin(c, "checkpoint", p, rest, NoJar) BY <2>4
    <3> HIDE DEF p, rest
    <3>4. /\ task'[c] = [step |-> "checkpoint", page |-> p, rest |-> rest, copy |-> NoJar]
          /\ Agree(Open, J) /\ KeptAgrees(Open, J)
      BY <1>1, <3>3
    <3>5. Open' = Open BY <2>4 DEF Open
    <3>6. Agree(Open, J)' /\ KeptAgrees(Open, J)' BY <2>1, <3>4, <3>5 DEF Agree, KeptAgrees
    <3>7. UnderWay(c, J)' BY <3>2, <3>4, <3>5, <3>6 DEF UnderWay
    <3> QED BY <1>4, <2>1, <2>4, <3>3, <3>7
  <2> QED BY <1>9, <2>2, <2>3, <2>4 DEF CallCheckpoint
<1> QED BY <1>3, <1>5, <1>6, <1>7, <1>8, <1>9

\* A step that completes neither the setting of a cookie nor a clear.
LEMMA SerialGoesOn ==
  ASSUME Base, Base', NEW J \in Jars, SerialOf(J), NEW c \in Callers, CallStep(c),
         ~SetReturns(c), ~ClearReturns(c)
  PROVE  SerialOf(J)'
<1> DEFINE t == task[c]
           p == t.page
<1>0. \A q \in Open : q \in Pages /\ worker[q] \in {"none", "up", "ended"} /\ JarOf(q) \in Jars
  BY OpenFacts, JarOfType DEF Base, WorkerTypes
<1>1. ASSUME t.step # "idle" PROVE c \in Busy /\ NoneEnded /\ UnderWay(c, J)
  BY <1>1 DEF Busy, NoTask, SerialOf
\* The call is over.
<1>2. ASSUME t.step # "idle", End(c), NoneEnded', Agree(Open, J)', KeptAgrees(Open, J)' PROVE SerialOf(J)'
  <2>1. \A d \in Callers \ {c} : task'[d] = task[d] BY <1>2 DEF End, Base, TaskTypes
  <2>2. task'[c] = NoTask BY <1>2 DEF End, Base, TaskTypes
  <2> QED BY <1>1, <1>2, <2>1, <2>2, SerialActs
\* It has another step to do.
<1>3. ASSUME t.step # "idle", NEW u \in Task, task' = [task EXCEPT ![c] = u], u.step # "idle",
             NoneEnded', UnderWay(c, J)'
      PROVE  SerialOf(J)'
  <2>1. \A d \in Callers \ {c} : task'[d] = task[d] BY <1>3 DEF Base, TaskTypes
  <2>2. task'[c] # NoTask BY <1>3 DEF Base, TaskTypes, NoTask
  <2> QED BY <1>1, <1>3, <2>1, <2>2, SerialActs
<1>4. t \in Task /\ task'[c] \in Task
  BY DEF Base, TaskTypes
\* What a running page does not change.
<1>5. ASSUME NoneEnded, NEW q \in Open, Open' = Open, worker'[q] = "up",
             \A r \in Pages \ {q} : worker'[r] = worker[r] /\ core'[r] = core[r]
      PROVE  /\ NoneEnded' /\ KeptAgrees(Open, J)'
             /\ \A r \in Open \ {q} : worker'[r] = worker[r] /\ core'[r] = core[r]
  BY <1>0, <1>5 DEF NoneEnded, KeptAgrees
\* A page that is ready may have its first navigation ahead.
<1>6. ASSUME t.step # "idle", Ready(c), NoneEnded', Agree(Open, J)', KeptAgrees(Open, J)',
             p \in Open', worker'[p] = "up",
             (\A q \in Open' \ {p} : worker'[q] # "up") => Content(kept)' = J
      PROVE  SerialOf(J)'
  <2> DEFINE u == [step |-> "load", page |-> p, rest |-> <<>>, copy |-> NoJar]
  <2>1. CASE task' = [task EXCEPT ![c] = [NoTask EXCEPT !.step = "load", !.page = task[c].page]]
    <3>1. task' = [task EXCEPT ![c] = u] BY <2>1, LoadTask
    <3>2. task'[c] = u BY <3>1 DEF Base, TaskTypes
    <3>3. UnderWay(c, J)' BY <1>6, <3>2 DEF UnderWay, KeptAgrees
    <3> HIDE DEF u
    <3>4. task' = [task EXCEPT ![c] = task'[c]] BY <3>1, <3>2
    <3>5. task'[c].step # "idle" BY <3>2 DEF u
    <3> QED BY <1>3, <1>4, <1>6, <3>3, <3>4, <3>5
  <2> QED BY <1>2, <1>6, <2>1 DEF Ready
<1> HIDE DEF t
<1>7. CASE StartCreated(c)
  <2>1. /\ t.step = "start" /\ p \in Open /\ StartWith(p, JarOf(p))
        /\ UNCHANGED <<targets, kept, saved>>
    BY <1>7 DEF StartCreated, At, t
  <2>2. /\ NoneEnded /\ worker[p] = "none" /\ Agree(Open \ {p}, J) /\ KeptAgrees(Open \ {p}, J)
        /\ IF t.rest = <<>> THEN Open \ {p} = {} ELSE t.rest[1] \in Open \ {p}
    BY <1>1, <2>1 DEF UnderWay, t
  <2>3. JarOf(p) = {} BY <2>2 DEF JarOf
  <2>4. /\ Open' = Open /\ worker'[p] = "up" /\ core'[p] = {}
        /\ \A q \in Pages \ {p} : worker'[q] = worker[q] /\ core'[q] = core[q]
    BY <1>0, <2>1, <2>3, Starts
  <2>5. NoneEnded' /\ KeptAgrees(Open, J)' /\ Agree(Open \ {p}, J)
        /\ \A r \in Open \ {p} : worker'[r] = worker[r] /\ core'[r] = core[r]
    BY <1>5, <2>1, <2>2, <2>4
  <2>9. (\A q \in Open' \ {p} : worker'[q] # "up") => Content(kept)' = J
    BY <2>1, <2>2, <2>4, <2>5 DEF KeptAgrees, Content
  <2>6. CASE t.rest # <<>> /\ worker[t.rest[1]] # "none" /\ task' = [task EXCEPT ![c].step = "export"]
    <3>1. task'[c] = [t EXCEPT !.step = "export"] /\ task' = [task EXCEPT ![c] = task'[c]]
      BY <2>6 DEF t, Base, TaskTypes
    <3>2. task'[c].step = "export" /\ task'[c].page = p /\ task'[c].rest = t.rest
      BY <1>4, <3>1 DEF Task
    <3>3. t.rest[1] \in Open \ {p} /\ worker[t.rest[1]] = "up"
      BY <1>0, <2>2, <2>6 DEF NoneEnded
    <3>4. UnderWay(c, J)'
      BY <2>1, <2>4, <2>5, <2>6, <3>2, <3>3 DEF UnderWay, Agree
    <3> QED BY <1>3, <1>4, <2>1, <2>5, <3>1, <3>2, <3>4
  <2>7. CASE t.rest = <<>> /\ kept # NoJar /\ task' = [task EXCEPT ![c].step = "seed", ![c].copy = kept]
    <3>1. task'[c] = [t EXCEPT !.step = "seed", !.copy = kept] /\ task' = [task EXCEPT ![c] = task'[c]]
      BY <2>7 DEF t, Base, TaskTypes
    <3>2. task'[c].step = "seed" /\ task'[c].page = p /\ task'[c].copy = kept
      BY <1>4, <3>1 DEF Task
    <3>3. kept = J BY <2>2, <2>7 DEF KeptAgrees, Content
    <3>4. UnderWay(c, J)' BY <2>1, <2>4, <2>5, <2>9, <3>2, <3>3 DEF UnderWay, Agree, KeptAgrees
    <3> QED BY <1>3, <1>4, <2>1, <2>5, <3>1, <3>2, <3>4
  <2>8. CASE (IF t.rest # <<>> THEN worker[t.rest[1]] = "none" ELSE kept = NoJar) /\ Ready(c)
    <3>1. J = {}
      <4>1. CASE t.rest # <<>> BY <2>2, <2>8, <4>1 DEF Agree
      <4>2. CASE t.rest = <<>> BY <2>2, <2>8, <4>2 DEF KeptAgrees, Content
      <4> QED BY <4>1, <4>2
    <3>2. Agree(Open, J)' BY <2>1, <2>4, <2>5, <3>1 DEF Agree
    <3> QED BY <1>6, <2>1, <2>4, <2>5, <2>8, <2>9, <3>2
  <2> QED BY <1>7, <2>6, <2>7, <2>8 DEF StartCreated, t
<1>8. CASE CreateFails(c) \/ RemovePage(c)
  <2>1. /\ t.step \in {"start", "load", "remove"} /\ End(c)
        /\ targets' = Without(p) /\ StopWorker(p, "none") /\ UNCHANGED <<kept, saved>>
    BY <1>8 DEF CreateFails, RemovePage, At, t
  <2>2. NoneEnded /\ Agree(Open \ {p}, J) /\ KeptAgrees(Open \ {p}, J)
    BY <1>1, <2>1 DEF UnderWay, Agree, t
  <2>3. Open' = Open \ {p} /\ \A q \in Pages \ {p} : worker'[q] = worker[q] /\ core'[q] = core[q]
    BY <2>1, Stops
  <2>4. \A q \in Open' : worker'[q] = worker[q] /\ core'[q] = core[q] BY <1>0, <2>3
  <2>5. NoneEnded' /\ Agree(Open, J)' /\ KeptAgrees(Open, J)'
    BY <2>1, <2>2, <2>3, <2>4 DEF NoneEnded, Agree, KeptAgrees
  <2> QED BY <1>2, <2>1, <2>5
<1>9. CASE ExportSource(c)
  <2> DEFINE q == t.rest[1]
  <2>1. /\ t.step = "export" /\ q \in Open /\ StartWith(q, JarOf(q))
        /\ task' = [task EXCEPT ![c].step = "seed", ![c].copy = JarOf(q)]
        /\ UNCHANGED <<targets, kept, saved>>
    BY <1>9 DEF ExportSource, At, t
  <2>2. /\ NoneEnded /\ p \in Open /\ worker[p] = "up" /\ Agree(Open \ {p}, J)
        /\ q \in Open \ {p} /\ worker[q] = "up"
    BY <1>1, <2>1 DEF UnderWay, t
  <2>3. JarOf(q) = J BY <2>2 DEF JarOf, Agree
  <2>4. /\ Open' = Open /\ worker'[q] = "up" /\ core'[q] = J
        /\ \A r \in Pages \ {q} : worker'[r] = worker[r] /\ core'[r] = core[r]
    BY <1>0, <2>1, <2>3, Starts
  <2>5. NoneEnded' /\ \A r \in Open \ {q} : worker'[r] = worker[r] /\ core'[r] = core[r]
    BY <1>5, <2>1, <2>2, <2>4
  <2>6. task'[c] = [t EXCEPT !.step = "seed", !.copy = J] /\ task' = [task EXCEPT ![c] = task'[c]]
    BY <2>1, <2>3 DEF t, Base, TaskTypes
  <2>7. task'[c].step = "seed" /\ task'[c].page = p /\ task'[c].copy = J BY <1>4, <2>6 DEF Task
  <2>8. worker'[p] = "up" /\ p \in Open' BY <2>2, <2>4, <2>5
  <2>9. \A r \in Open \ {p} : /\ worker'[r] = "up" => core'[r] = J
                              /\ worker'[r] = "none" => J = {} /\ kept = NoJar
    BY <2>2, <2>4, <2>5 DEF Agree
  <2>10. Open' = Open /\ UNCHANGED kept BY <2>1, <2>4
  <2>12. q \in Open \ {p} /\ worker'[q] = "up" BY <2>2, <2>4
  <2> HIDE DEF q
  <2>11. UnderWay(c, J)' BY <2>7, <2>8, <2>9, <2>10, <2>12 DEF UnderWay, Agree, KeptAgrees
  <2> QED BY <1>3, <1>4, <2>1, <2>5, <2>6, <2>7, <2>11
<1>10. CASE SeedCreated(c)
  <2>1. /\ t.step = "seed" /\ p \in Open /\ StartWith(p, t.copy) /\ Ready(c)
        /\ UNCHANGED <<targets, kept, saved>>
    BY <1>10 DEF SeedCreated, At, t
  <2>2. NoneEnded /\ Agree(Open \ {p}, J) /\ KeptAgrees(Open \ {p}, J) /\ t.copy = J
    BY <1>1, <2>1 DEF UnderWay, t
  <2>3. t.copy \in Jars BY <2>2
  <2>4. /\ Open' = Open /\ worker'[p] = "up" /\ core'[p] = J
        /\ \A r \in Pages \ {p} : worker'[r] = worker[r] /\ core'[r] = core[r]
    BY <2>1, <2>2, <2>3, Starts
  <2>5. NoneEnded' /\ KeptAgrees(Open, J)' /\ \A r \in Open \ {p} : worker'[r] = worker[r] /\ core'[r] = core[r]
    BY <1>5, <2>1, <2>2, <2>4
  <2>6. Agree(Open, J)' BY <2>1, <2>2, <2>4, <2>5 DEF Agree
  <2>7. (\A q \in Open' \ {p} : worker'[q] # "up") => Content(kept)' = J
    BY <2>1, <2>2, <2>4, <2>5 DEF KeptAgrees, Content
  <2> QED BY <1>6, <2>1, <2>4, <2>5, <2>6, <2>7
<1>17. CASE LoadFirst(c)
  <2>1. /\ t.step = "load" /\ p \in Open /\ StartWith(p, JarOf(p)) /\ End(c)
        /\ UNCHANGED <<targets, kept, saved>>
    BY <1>17 DEF LoadFirst, At, t
  <2>2. NoneEnded /\ worker[p] = "up" /\ Agree(Open, J) BY <1>1, <2>1 DEF UnderWay, t
  <2>3. JarOf(p) = J BY <2>1, <2>2 DEF JarOf, Agree
  <2>4. /\ Open' = Open /\ worker'[p] = "up" /\ core'[p] = J
        /\ \A r \in Pages \ {p} : worker'[r] = worker[r] /\ core'[r] = core[r]
    BY <1>0, <2>1, <2>3, Starts
  <2>5. NoneEnded' /\ KeptAgrees(Open, J)' /\ \A r \in Open \ {p} : worker'[r] = worker[r] /\ core'[r] = core[r]
    BY <1>5, <2>1, <2>2, <2>4
  <2>6. Agree(Open, J)' BY <2>1, <2>2, <2>4, <2>5 DEF Agree
  <2> QED BY <1>2, <2>1, <2>5, <2>6
<1>11. CASE SeedingFails(c)
  <2>1. \/ t.step = "export" /\ t.rest[1] \notin Open
        \/ t.step = "seed" /\ p \notin Open
    BY <1>11 DEF SeedingFails, At, t
  <2>2. /\ t.step = "export" => t.rest[1] \in Open
        /\ t.step = "seed" => p \in Open
    BY <1>1 DEF UnderWay, t
  <2> QED BY <2>1, <2>2
<1>12. CASE ReturnSnapshot(c)
  <2>1. t.step = "save" /\ End(c) /\ UNCHANGED <<targets, workerVars, kept>>
    BY <1>12 DEF ReturnSnapshot, At, t
  <2>2. NoneEnded /\ Agree(Open, J) /\ KeptAgrees(Open, J) BY <1>1, <2>1 DEF UnderWay, t
  <2>3. NoneEnded' /\ Agree(Open, J)' /\ KeptAgrees(Open, J)'
    BY <2>1, <2>2 DEF NoneEnded, Agree, KeptAgrees, Open, workerVars
  <2> QED BY <1>2, <2>1, <2>3
<1>13. CASE KeepSnapshot(c)
  <2>1. t.step = "keep" /\ UNCHANGED <<targets, saved>> BY <1>13 DEF KeepSnapshot, At, t
  <2>2. NoneEnded /\ Open = {p} /\ worker[p] = "up" /\ Agree(Open, J) BY <1>1, <2>1 DEF UnderWay, t
  <2>3. /\ p \in Open /\ StartWith(p, JarOf(p)) /\ kept' = JarOf(p)
        /\ task' = [task EXCEPT ![c].step = "remove"]
    BY <1>13, <2>2 DEF KeepSnapshot, t
  <2>4. JarOf(p) = J BY <2>2 DEF JarOf, Agree
  <2>5. Open' = Open /\ worker'[p] = "up" BY <1>0, <2>1, <2>3, Starts
  <2>6. NoneEnded' BY <2>2, <2>5 DEF NoneEnded
  <2>7. task'[c] = [t EXCEPT !.step = "remove"] /\ task' = [task EXCEPT ![c] = task'[c]]
    BY <2>3 DEF t, Base, TaskTypes
  <2>8. task'[c].step = "remove" /\ task'[c].page = p BY <1>4, <2>7 DEF Task
  <2>9. Content(kept') = J BY <2>1, <2>3, <2>4, JarsAssumption DEF Content, Base, OtherTypes, Jars
  <2>10. UnderWay(c, J)' BY <2>2, <2>3, <2>5, <2>8, <2>9 DEF UnderWay, Agree, KeptAgrees, Content
  <2> QED BY <1>3, <1>4, <2>1, <2>6, <2>7, <2>8, <2>10
<1>14. CASE ExportNewest(c)
  <2>1. t.step = "checkpoint" /\ UNCHANGED <<targets, kept, saved>>
    BY <1>14 DEF ExportNewest, At, t
  <2>2. NoneEnded /\ p \in Open /\ Agree(Open, J) /\ KeptAgrees(Open, J) BY <1>1, <2>1 DEF UnderWay, t
  <2>3. StartWith(p, JarOf(p)) /\ task' = [task EXCEPT ![c].step = "save", ![c].copy = JarOf(p)]
    BY <1>14, <2>2 DEF ExportNewest, t
  <2>4. JarOf(p) = J BY <2>2, JarIs
  <2>5. /\ Open' = Open /\ worker'[p] = "up" /\ core'[p] = J
        /\ \A r \in Pages \ {p} : worker'[r] = worker[r] /\ core'[r] = core[r]
    BY <1>0, <2>1, <2>2, <2>3, <2>4, Starts
  <2>6. NoneEnded' /\ KeptAgrees(Open, J)' /\ \A r \in Open \ {p} : worker'[r] = worker[r] /\ core'[r] = core[r]
    BY <1>5, <2>1, <2>2, <2>5
  <2>7. Agree(Open, J)' BY <2>1, <2>2, <2>5, <2>6 DEF Agree
  <2>8. task'[c] = [t EXCEPT !.step = "save", !.copy = J] /\ task' = [task EXCEPT ![c] = task'[c]]
    BY <2>3, <2>4 DEF t, Base, TaskTypes
  <2>9. task'[c].step = "save" /\ task'[c].copy = J BY <1>4, <2>8 DEF Task
  <2>10. UnderWay(c, J)' BY <2>1, <2>6, <2>7, <2>9 DEF UnderWay
  <2> QED BY <1>3, <1>4, <2>1, <2>6, <2>8, <2>9, <2>10
<1>15. CASE RestoreSibling(c)
  <2> DEFINE q == t.rest[1]
  <2>1. /\ t.step = "save" /\ task' = [task EXCEPT ![c].rest = Tail(@)]
        /\ UNCHANGED <<targets, kept, saved>>
    BY <1>15 DEF RestoreSibling, At, t
  <2>2. NoneEnded /\ t.copy = J /\ Agree(Open, J) /\ KeptAgrees(Open, J) BY <1>1, <2>1 DEF UnderWay, t
  <2>3. (NoneEnded /\ Agree(Open, J) /\ KeptAgrees(Open, J))'
    <3>1. CASE q \in Open /\ StartWith(q, t.copy)
      <4>1. t.copy \in Jars BY <2>2
      <4>2. /\ Open' = Open /\ worker'[q] = "up" /\ core'[q] = J
            /\ \A r \in Pages \ {q} : worker'[r] = worker[r] /\ core'[r] = core[r]
        BY <2>1, <2>2, <3>1, <4>1, Starts
      <4>3. NoneEnded' /\ KeptAgrees(Open, J)' /\ \A r \in Open \ {q} : worker'[r] = worker[r] /\ core'[r] = core[r]
        BY <1>5, <2>1, <2>2, <3>1, <4>2
      <4> QED BY <2>1, <2>2, <4>2, <4>3 DEF Agree
    <3>2. CASE UNCHANGED workerVars
      BY <2>1, <2>2, <3>2 DEF NoneEnded, Agree, KeptAgrees, Open, workerVars
    <3> QED BY <1>15, <3>1, <3>2 DEF RestoreSibling, t
  <2>4. task'[c] = [t EXCEPT !.rest = Tail(t.rest)] /\ task' = [task EXCEPT ![c] = task'[c]]
    BY <2>1 DEF t, Base, TaskTypes
  <2>5. task'[c].step = "save" /\ task'[c].copy = J BY <1>4, <2>1, <2>2, <2>4 DEF Task
  <2>6. UnderWay(c, J)' BY <2>1, <2>3, <2>5 DEF UnderWay
  <2> QED BY <1>3, <1>4, <2>1, <2>3, <2>4, <2>5, <2>6
<1>16. CASE SetInPage(c)
  <2> DEFINE q == t.rest[1]
  <2>1. t.step = "set" /\ t.rest # <<>> /\ UNCHANGED <<targets, kept, saved>>
    BY <1>16 DEF SetInPage, At, t
  <2>2. /\ NoneEnded /\ \A i, j \in DOMAIN t.rest : t.rest[i] = t.rest[j] => i = j
        /\ Rest(c) \subseteq Open /\ Agree(Rest(c), J) /\ KeptAgrees(Open, J)
        /\ \A r \in Open \ Rest(c) : worker[r] = "up" /\ core[r] = J \cup t.copy
        /\ t.copy \in Jars /\ t.rest \in Seq(Pages)
    BY <1>1, <2>1, TaskFacts DEF UnderWay, t
  <2>3. /\ Rest(c) = {t.rest[i] : i \in DOMAIN t.rest} /\ q \in Rest(c)
        /\ {Tail(t.rest)[i] : i \in DOMAIN Tail(t.rest)} = Rest(c) \ {q}
        /\ \A i, j \in DOMAIN Tail(t.rest) : Tail(t.rest)[i] = Tail(t.rest)[j] => i = j
    BY <2>1, <2>2, TailFacts DEF Rest, t
  <2>4. q \in Open BY <2>2, <2>3
  <2>5. /\ worker' = [worker EXCEPT ![q] = "up"]
        /\ core' = [core EXCEPT ![q] = JarOf(q) \cup t.copy]
        /\ document' = [document EXCEPT ![q] = (IF worker[q] = "up" THEN @ ELSE {}) \cup t.copy]
        /\ task' = [task EXCEPT ![c].rest = Tail(@)]
    BY <1>16, <2>4 DEF SetInPage, t
  <2>6. JarOf(q) = J BY <2>2, <2>3, <2>4, JarIs DEF NoneEnded
  <2> DEFINE own == (IF worker[q] = "up" THEN document[q] ELSE {}) \cup t.copy
  <2>7. document' = [document EXCEPT ![q] = own] /\ own \in Jars /\ J \cup t.copy \in Jars
    BY <1>0, <2>2, <2>4, <2>5 DEF Base, WorkerTypes, OtherTypes, Jars
  <2> HIDE DEF own
  <2>8. /\ Open' = Open /\ worker'[q] = "up" /\ core'[q] = J \cup t.copy
        /\ \A r \in Pages \ {q} : worker'[r] = worker[r] /\ core'[r] = core[r]
    <3>1. core' = [core EXCEPT ![q] = J \cup t.copy] BY <2>5, <2>6
    <3>2. worker' = [worker EXCEPT ![q] = "up"] /\ targets' = targets BY <2>1, <2>5
    <3> HIDE DEF q
    <3> QED BY <2>4, <2>7, <3>1, <3>2, Runs
  <2>9. NoneEnded' /\ KeptAgrees(Open, J)' /\ \A r \in Open \ {q} : worker'[r] = worker[r] /\ core'[r] = core[r]
    BY <1>5, <2>2, <2>4, <2>8
  <2>10. task'[c] = [t EXCEPT !.rest = Tail(t.rest)] /\ task' = [task EXCEPT ![c] = task'[c]]
    BY <2>5 DEF t, Base, TaskTypes
  <2>11. task'[c].step = "set" /\ task'[c].copy = t.copy /\ task'[c].rest = Tail(t.rest)
    BY <1>4, <2>1, <2>10 DEF Task
  <2>12. Rest(c)' = Rest(c) \ {q} BY <2>3, <2>11 DEF Rest
  <2>13. \A r \in Rest(c)' : r \in Open \ {q} /\ r \in Rest(c) BY <2>2, <2>12
  <2>14. Agree(Rest(c), J)' BY <2>1, <2>2, <2>9, <2>13 DEF Agree
  <2>15. \A r \in Open' \ Rest(c)' : worker'[r] = "up" /\ core'[r] = J \cup task'[c].copy
    BY <2>1, <2>2, <2>8, <2>9, <2>11, <2>12
  <2>16. UnderWay(c, J)'
    BY <2>3, <2>8, <2>9, <2>11, <2>13, <2>14, <2>15 DEF UnderWay
  <2> QED BY <1>3, <1>4, <2>1, <2>9, <2>10, <2>11, <2>16
<1>18. CASE ClearPage(c)
  <2> DEFINE q == Oldest(Uncleared(c))
  <2>1. /\ t.step = "clear" /\ UNCHANGED <<targets, kept, saved>>
        /\ worker' = [worker EXCEPT ![q] = "up"] /\ core' = [core EXCEPT ![q] = {}]
        /\ document' = [document EXCEPT ![q] = {}]
        /\ task' = [task EXCEPT ![c].rest = Append(@, q)]
    BY <1>18 DEF ClearPage, At, t
  <2>2. /\ NoneEnded /\ t.rest \in Seq(Pages)
        /\ \A r \in Open \cap Rest(c) : worker[r] = "up" /\ core[r] = {}
    BY <1>1, <2>1, TaskFacts DEF UnderWay, t
  <2>3. q \in Open
    <3>1. Uncleared(c) \in SUBSET DOMAIN targets /\ Uncleared(c) # {} /\ targets \in Seq(Pages)
      BY <1>18 DEF ClearPage, Uncleared, Base
    <3> QED BY <3>1, OldestFacts, OpenFacts
  <2> HIDE DEF q
  <2>4. {} \in Jars BY DEF Jars
  <2>5. /\ Open' = Open /\ worker'[q] = "up" /\ core'[q] = {}
        /\ \A r \in Pages \ {q} : worker'[r] = worker[r] /\ core'[r] = core[r]
    BY <2>1, <2>3, <2>4, Runs
  <2>6. NoneEnded' /\ KeptAgrees(Open, J)' /\ \A r \in Open \ {q} : worker'[r] = worker[r] /\ core'[r] = core[r]
    BY <1>5, <2>2, <2>3, <2>5
  <2>7. task'[c] = [t EXCEPT !.rest = Append(t.rest, q)] /\ task' = [task EXCEPT ![c] = task'[c]]
    BY <2>1 DEF t, Base, TaskTypes
  <2>8. task'[c].step = "clear" /\ task'[c].rest = Append(t.rest, q)
    BY <1>4, <2>1, <2>7 DEF Task
  <2>9. Rest(c)' \subseteq Rest(c) \cup {q}
    <3>1. ASSUME NEW i \in DOMAIN Append(t.rest, q)
          PROVE  Append(t.rest, q)[i] \in {t.rest[k] : k \in DOMAIN t.rest} \cup {q}
      BY <1>0, <2>2, <2>3
    <3> QED BY <2>8, <3>1 DEF Rest, t
  <2>10. UnderWay(c, J)' BY <2>2, <2>5, <2>6, <2>8, <2>9 DEF UnderWay
  <2> QED BY <1>3, <1>4, <2>1, <2>6, <2>7, <2>8, <2>10
<1>20. CASE FreshWorker(c)
  <2>1. t.step = "recycle" /\ UNCHANGED <<targets, kept, saved>>
    BY <1>20 DEF FreshWorker, At, t
  <2>2. NoneEnded /\ p \in Open /\ Agree(Open \ {p}, J) /\ t.copy = J BY <1>1, <2>1 DEF UnderWay, t
  <2>3. /\ worker' = [worker EXCEPT ![p] = "up"] /\ core' = [core EXCEPT ![p] = {}]
        /\ document' = [document EXCEPT ![p] = {}] /\ task' = [task EXCEPT ![c].step = "reseed"]
    BY <1>20, <2>2 DEF FreshWorker, t
  <2>4. {} \in Jars BY DEF Jars
  <2>5. /\ Open' = Open /\ worker'[p] = "up"
        /\ \A r \in Pages \ {p} : worker'[r] = worker[r] /\ core'[r] = core[r]
    BY <2>1, <2>2, <2>3, <2>4, Runs
  <2>6. NoneEnded' /\ \A r \in Open \ {p} : worker'[r] = worker[r] /\ core'[r] = core[r]
    BY <1>5, <2>2, <2>5
  <2>7. task'[c] = [t EXCEPT !.step = "reseed"] /\ task' = [task EXCEPT ![c] = task'[c]]
    BY <2>3 DEF t, Base, TaskTypes
  <2>8. task'[c].step = "reseed" /\ task'[c].page = p /\ task'[c].copy = J
    BY <1>4, <2>2, <2>7 DEF Task
  <2>9. UnderWay(c, J)' BY <2>1, <2>2, <2>5, <2>6, <2>8 DEF UnderWay, Agree
  <2> QED BY <1>3, <1>4, <2>1, <2>6, <2>7, <2>8, <2>9
<1>21. CASE SeedFresh(c)
  <2>1. t.step = "reseed" /\ End(c) /\ UNCHANGED <<targets, kept, saved>>
    BY <1>21 DEF SeedFresh, At, t
  <2>2. NoneEnded /\ p \in Open /\ Agree(Open \ {p}, J) /\ t.copy = J BY <1>1, <2>1 DEF UnderWay, t
  <2>3. StartWith(p, t.copy) /\ t.copy \in Jars BY <1>21, <2>2 DEF SeedFresh, t
  <2>4. /\ Open' = Open /\ worker'[p] = "up" /\ core'[p] = J
        /\ \A r \in Pages \ {p} : worker'[r] = worker[r] /\ core'[r] = core[r]
    BY <2>1, <2>2, <2>3, Starts
  <2>5. NoneEnded' /\ KeptAgrees(Open, J)' /\ \A r \in Open \ {p} : worker'[r] = worker[r] /\ core'[r] = core[r]
    BY <1>5, <2>1, <2>2, <2>4
  <2>6. Agree(Open, J)' BY <2>1, <2>2, <2>4, <2>5 DEF Agree
  <2> QED BY <1>2, <2>1, <2>5, <2>6
<1> QED
  BY <1>7, <1>8, <1>9, <1>10, <1>11, <1>12, <1>13, <1>14, <1>15, <1>16, <1>17, <1>18, <1>20, <1>21
  DEF CallStep

\* A cookie that was set is in the jars of all pages, if there is one.
LEMMA SerialSets ==
  ASSUME Base, NEW J \in Jars, SerialOf(J), NEW c \in Callers, SetReturns(c),
         NEW K, K = (IF targets = <<>> THEN J ELSE J \cup task[c].copy)
  PROVE  SerialOf(K)'
<1> DEFINE t == task[c]
<1>1. /\ t.step = "set" /\ t.rest = <<>> /\ task' = [task EXCEPT ![c] = NoTask]
      /\ UNCHANGED <<targets, workerVars, kept>>
  BY DEF SetReturns, At, End
<1>2. c \in Busy BY <1>1 DEF Busy, NoTask
<1>3. /\ NoneEnded /\ KeptAgrees(Open, J)
      /\ \A r \in Open \ Rest(c) : worker[r] = "up" /\ core[r] = J \cup t.copy
  BY <1>1, <1>2 DEF SerialOf, UnderWay
<1>4. Rest(c) = {} BY <1>1 DEF Rest
<1>5. Open' = Open /\ UNCHANGED <<worker, core>> BY <1>1 DEF Open, workerVars
<1>6. Open = {} <=> targets = <<>> BY OpenFacts DEF Base
<1>7. NoneEnded' /\ Agree(Open, K)' /\ KeptAgrees(Open, K)'
  BY <1>1, <1>3, <1>4, <1>5, <1>6 DEF NoneEnded, Agree, KeptAgrees
<1> QED BY <1>1, <1>2, <1>7, SerialEnds DEF Base

\* After a clear no page has a cookie, if there is a page.
LEMMA SerialClears ==
  ASSUME Base, NEW J \in Jars, SerialOf(J), NEW c \in Callers, ClearReturns(c),
         NEW K, K = (IF targets = <<>> THEN J ELSE {})
  PROVE  SerialOf(K)' /\ (targets = <<>> => Content(kept) = J)
<1> DEFINE t == task[c]
<1>1. /\ t.step = "clear" /\ Uncleared(c) = {} /\ task' = [task EXCEPT ![c] = NoTask]
      /\ UNCHANGED <<targets, workerVars, kept>>
  BY DEF ClearReturns, At, End
<1>2. c \in Busy BY <1>1 DEF Busy, NoTask
<1>3. /\ NoneEnded /\ KeptAgrees(Open, J)
      /\ \A r \in Open \cap Rest(c) : worker[r] = "up" /\ core[r] = {}
  BY <1>1, <1>2 DEF SerialOf, UnderWay
<1>4. Open \subseteq Rest(c) BY <1>1, OpenFacts DEF Uncleared, Rest, Base
<1>5. Open' = Open /\ UNCHANGED <<worker, core>> BY <1>1 DEF Open, workerVars
<1>6. Open = {} <=> targets = <<>> BY OpenFacts DEF Base
<1>7. NoneEnded' /\ Agree(Open, K)' /\ KeptAgrees(Open, K)'
  BY <1>1, <1>3, <1>4, <1>5, <1>6 DEF NoneEnded, Agree, KeptAgrees
<1>8. targets = <<>> => Content(kept) = J
  BY <1>3, <1>6 DEF KeptAgrees
<1> QED BY <1>1, <1>2, <1>7, <1>8, SerialEnds DEF Base

\* When the only running Worker ends, what was kept is all that is left.
LEMMA SerialLoses ==
  ASSUME Base, NEW J \in Jars, SerialOf(J), CallsAtOnce = 1, WorkersEnd # "unnoticed",
         NEW p \in Pages, WorkerEnds(p),
         NEW K, K = (IF RunningBut(p) = {} THEN Content(kept) ELSE J)
  PROVE  SerialOf(K)'
<1>0. \A q \in Open : q \in Pages /\ worker[q] \in {"none", "up", "ended"}
  BY OpenFacts DEF Base, WorkerTypes
<1>1. p \in Open /\ WorkersEnd = "noticed" /\ Turn /\ UNCHANGED <<targets, kept, task>>
  BY JarsAssumption DEF WorkerEnds, Running
<1>2. Idle /\ Agree(Open, J) BY <1>1, TurnMeansIdle DEF Turn, SerialOf
<1>3. Busy' = {} /\ Idle' /\ Open' = Open BY <1>1, <1>2 DEF Idle, Busy, Open
<1>4. /\ worker'[p] = "ended"
      /\ \A q \in Open \ {p} : worker'[q] = worker[q] /\ core'[q] = core[q]
  BY <1>0 DEF WorkerEnds, StopWorker, Base, WorkerTypes
<1>5. RunningBut(p) = {} <=> \A q \in Open \ {p} : worker[q] # "up"
  BY OpenFacts DEF RunningBut, Base
<1>6. Agree(Open, K)'
  <2>1. CASE RunningBut(p) # {} BY <1>1, <1>2, <1>3, <1>4, <2>1 DEF Agree
  <2>2. CASE RunningBut(p) = {}
    BY <1>1, <1>2, <1>3, <1>4, <1>5, <2>2 DEF Agree, Content
  <2> QED BY <2>1, <2>2
<1>7. KeptAgrees(Open, K)'
  BY <1>1, <1>3, <1>4, <1>5 DEF KeptAgrees
<1> QED BY <1>1, <1>3, <1>6, <1>7 DEF SerialOf

LEMMA SerialUnseen ==
  ASSUME NEW J, SerialOf(J), UNCHANGED <<targets, worker, core, kept, task>>
  PROVE  SerialOf(J)'
<1>1. Open' = Open /\ Busy' = Busy /\ (Idle' <=> Idle) BY DEF Open, Busy, Idle
<1>2. (NoneEnded' <=> NoneEnded) /\ (Agree(Open, J) => Agree(Open, J)') /\ (KeptAgrees(Open, J) => KeptAgrees(Open, J)')
  BY <1>1 DEF NoneEnded, Agree, KeptAgrees
<1>3. ASSUME NEW c \in Busy, UnderWay(c, J) PROVE UnderWay(c, J)'
  <2>1. Rest(c)' = Rest(c) BY DEF Rest
  <2> QED BY <1>1, <1>3, <2>1 DEF UnderWay, Agree, KeptAgrees
<1> QED BY <1>1, <1>2, <1>3 DEF SerialOf

LEMMA SerialOfPages ==
  ASSUME Base, NEW J \in Jars, SerialOf(J), CallsAtOnce = 1, NEW p \in Pages,
         UsePage(p) \/ \E k \in PageCookies : Receive(p, k)
  PROVE  SerialOf(J)'
<1>0. \A q \in Open : q \in Pages /\ worker[q] \in {"none", "up", "ended"} /\ JarOf(q) \in Jars
  BY OpenFacts, JarOfType DEF Base, WorkerTypes
<1>1. CASE UsePage(p)
  <2>1. /\ p \in Open /\ StartWith(p, JarOf(p)) /\ Cardinality(Busy) < CallsAtOnce
        /\ UNCHANGED <<targets, kept, task, saved>>
    BY <1>1 DEF UsePage
  <2>2. Idle /\ Agree(Open, J) /\ KeptAgrees(Open, J) BY <2>1, TurnMeansIdle DEF SerialOf
  <2>3. JarOf(p) = J BY <2>1, <2>2, JarIs
  <2>4. /\ Open' = Open /\ worker'[p] = "up" /\ core'[p] = J
        /\ \A q \in Pages \ {p} : worker'[q] = worker[q] /\ core'[q] = core[q]
    BY <1>0, <2>1, <2>3, Starts
  <2>5. \A q \in Open \ {p} : worker'[q] = worker[q] /\ core'[q] = core[q] BY <1>0, <2>4
  <2>6. Busy' = {} /\ Idle' BY <2>1, <2>2 DEF Idle, Busy
  <2>7. Agree(Open, J)' /\ KeptAgrees(Open, J)' BY <2>1, <2>2, <2>4, <2>5 DEF Agree, KeptAgrees
  <2>8. NoneEnded => NoneEnded' BY <2>4, <2>5 DEF NoneEnded
  <2> QED BY <2>6, <2>7, <2>8 DEF SerialOf
<1>2. ASSUME NEW k \in PageCookies, Receive(p, k) PROVE SerialOf(J)'
  <2>1. UNCHANGED <<targets, worker, core, kept, task>> BY <1>2 DEF Receive
  <2> QED BY <2>1, SerialUnseen
<1> QED BY <1>1, <1>2

-----------------------------------------------------------------------------
(* The jar that the pages share is the one callers have filled, unless the *)
(* context has lost track of it.                                           *)

Shared == \E J \in Jars : SerialOf(J) /\ (~lost => J = jar)

LEMMA SharedStep ==
  ASSUME Base, Shared, CallsAtOnce = 1, WorkersEnd # "unnoticed", [Next]_vars
  PROVE  Base' /\ Shared'
<1>1. Base' BY BaseStep
<1>2. PICK J \in Jars : SerialOf(J) /\ (~lost => J = jar) BY DEF Shared
<1>3. ASSUME SerialOf(J)', UNCHANGED history PROVE Shared'
  BY <1>2, <1>3 DEF Shared, history
<1>4. ASSUME NEW K, K \in Jars, SerialOf(K)', ~lost' => K = jar' PROVE Shared'
  BY <1>4 DEF Shared
<1>5. CASE UNCHANGED vars
  <2>1. UNCHANGED <<targets, worker, core, kept, task>> /\ UNCHANGED history
    BY <1>5 DEF vars, history
  <2>2. SerialOf(J)' BY <1>2, <2>1, SerialUnseen
  <2> QED BY <1>1, <1>3, <2>1, <2>2
<1>6. ASSUME NEW c \in Callers, SetReturns(c) PROVE Shared'
  <2>1. PICK K : K = (IF targets = <<>> THEN J ELSE J \cup task[c].copy) OBVIOUS
  <2>2. task[c].copy \in Jars BY <1>6, TaskFacts DEF SetReturns, At
  <2>3. K \in Jars BY <2>1, <2>2 DEF Jars
  <2>4. SerialOf(K)' BY <1>2, <1>6, <2>1, SerialSets
  <2>5. ~lost' => K = jar' BY <1>2, <1>6, <2>1 DEF SetReturns
  <2> QED BY <1>4, <2>3, <2>4, <2>5
<1>7. ASSUME NEW c \in Callers, ClearReturns(c) PROVE Shared'
  <2>1. PICK K : K = (IF targets = <<>> THEN J ELSE {}) OBVIOUS
  <2>2. K \in Jars BY <2>1 DEF Jars
  <2>3. SerialOf(K)' /\ (targets = <<>> => Content(kept) = J) BY <1>2, <1>7, <2>1, SerialClears
  <2>4. ~lost' => K = jar' BY <1>7, <2>1, <2>3 DEF ClearReturns
  <2> QED BY <1>4, <2>2, <2>3, <2>4
<1>8. ASSUME NEW p \in Pages, WorkerEnds(p) PROVE Shared'
  <2>1. PICK K : K = (IF RunningBut(p) = {} THEN Content(kept) ELSE J) OBVIOUS
  <2>2. K \in Jars BY <2>1, JarOfType
  <2>3. SerialOf(K)' BY <1>2, <1>8, <2>1, SerialLoses
  <2>4. ~lost' => K = jar' BY <1>2, <1>8, <2>1 DEF WorkerEnds
  <2> QED BY <1>4, <2>2, <2>3, <2>4
<1>9. ASSUME NEW c \in Callers, CallStep(c), ~SetReturns(c), ~ClearReturns(c) PROVE Shared'
  <2>1. UNCHANGED history
    BY <1>9 DEF CallStep, StartCreated, CreateFails, ExportSource, SeedCreated, SeedingFails,
      LoadFirst, KeepSnapshot, RemovePage, ExportNewest, RestoreSibling, ReturnSnapshot,
      SetInPage, ClearPage, FreshWorker, SeedFresh
  <2>2. SerialOf(J)' BY <1>1, <1>2, <1>9, SerialGoesOn
  <2> QED BY <1>3, <2>1, <2>2
<1>10. ASSUME NEW c \in Callers,
              \/ CallCheckpoint(c) \/ CallClear(c)
              \/ \E p \in Pages : CallCreate(c, p) \/ CallClose(c, p) \/ CallRecycle(c, p)
              \/ \E k \in Cookies : CallSetCookie(c, k)
       PROVE  Shared'
  <2>1. UNCHANGED history
    BY <1>10 DEF CallCheckpoint, CallClear, CallCreate, CallClose, CallRecycle, CallSetCookie
  <2>2. SerialOf(J)' BY <1>1, <1>2, <1>10, SerialBegins
  <2> QED BY <1>3, <2>1, <2>2
<1>11. ASSUME NEW p \in Pages, UsePage(p) \/ \E k \in PageCookies : Receive(p, k) PROVE Shared'
  <2>1. UNCHANGED history BY <1>11 DEF UsePage, Receive
  <2>2. SerialOf(J)' BY <1>2, <1>11, SerialOfPages
  <2> QED BY <1>3, <2>1, <2>2
<1> QED BY <1>1, <1>5, <1>6, <1>7, <1>8, <1>9, <1>10, <1>11 DEF Next

LEMMA SharedInit ==
  ASSUME Init
  PROVE  Base /\ Shared
<1>1. Base /\ jar \in Jars BY BaseInit DEF Base, OtherTypes
<1>2. SerialOf(jar) BY SerialInit
<1> QED BY <1>1, <1>2 DEF Shared

\* While calls are made one at a time, and the end of a Worker is noticed by the
\* next one, the pages of a context act as if they had one jar, that of the
\* cookies callers have set unless the context has lost track of them.
THEOREM OneJar ==
  ASSUME CallsAtOnce = 1, WorkersEnd # "unnoticed"
  PROVE  Spec => []PagesAgree
<1>1. Init => Base /\ Shared BY SharedInit
<1>2. Base /\ Shared /\ [Next]_vars => (Base /\ Shared)' BY SharedStep
<1>3. Base /\ Shared => PagesAgree
  <2> SUFFICES ASSUME Shared, Idle
      PROVE  /\ \A p, q \in Running : core[p] = core[q]
             /\ lost \/ \A p \in Running : core[p] = jar
             /\ lost \/ Running # {} \/ Content(kept) = jar
    BY DEF PagesAgree
  <2>1. PICK J \in Jars : SerialOf(J) /\ (~lost => J = jar) BY DEF Shared
  <2>2. Agree(Open, J) /\ KeptAgrees(Open, J) BY <2>1 DEF SerialOf
  <2>3. \A p \in Running : core[p] = J BY <2>2 DEF Agree, Running
  <2>4. Running # {} \/ Content(kept) = J BY <2>2 DEF KeptAgrees, Running
  <2> QED BY <2>1, <2>3, <2>4
<1> QED BY <1>1, <1>2, <1>3, PTL DEF Spec

\* cookies() then reports the cookies that callers have set, unless the context
\* has lost track of them, and nothing besides them but what running pages
\* received themselves.
THEOREM Reports ==
  ASSUME CallsAtOnce = 1, WorkersEnd # "unnoticed"
  PROVE  Spec => []ReportsTheContext
<1>1. Init => Base /\ Shared BY SharedInit
<1>2. Base /\ Shared /\ [Next]_vars => (Base /\ Shared)' BY SharedStep
<1>3. Base /\ Shared => ReportsTheContext
  <2> SUFFICES ASSUME Shared, Idle, ~lost
      PROVE  /\ jar \subseteq Reported
             /\ Reported \subseteq jar \cup UNION {document[p] : p \in Running}
    BY DEF ReportsTheContext
  <2>1. SerialOf(jar) BY DEF Shared
  <2>2. Agree(Open, jar) /\ KeptAgrees(Open, jar) BY <2>1 DEF SerialOf
  <2>3. CASE Running = {}
    <3>1. Content(kept) = jar BY <2>2, <2>3 DEF KeptAgrees, Running
    <3> QED BY <2>3, <3>1 DEF Reported, Content
  <2>4. CASE Running # {}
    <3>1. \A p \in Running : core[p] = jar BY <2>2 DEF Agree, Running
    <3>2. Reported = UNION {core[p] \cup document[p] : p \in Running} BY <2>4 DEF Reported
    <3> QED BY <2>4, <3>1, <3>2
  <2> QED BY <2>3, <2>4
<1> QED BY <1>1, <1>2, <1>3, PTL DEF Spec

\* A profile that is saved then is the state of all running pages, and holds the
\* cookies that callers have set and no others unless the context has lost track
\* of them.
THEOREM Saves ==
  ASSUME CallsAtOnce = 1, WorkersEnd # "unnoticed"
  PROVE  Spec => SavesTheContext
<1>1. Init => Base /\ Shared BY SharedInit
<1>2. Base /\ Shared /\ [Next]_vars => (Base /\ Shared)' BY SharedStep
<1>3. /\ Base /\ Shared /\ [Next]_vars
      => [saved' # saved => (\A p \in Running : core[p] = saved') /\ (lost \/ saved' = jar)]_vars
  <2> SUFFICES ASSUME Shared, Next, saved' # saved
      PROVE  (\A p \in Running : core[p] = saved') /\ (lost \/ saved' = jar)
    BY DEF vars
  <2>1. PICK c \in Callers : ReturnSnapshot(c)
    BY DEF Next, CallStep, StartCreated, CreateFails, ExportSource, SeedCreated, SeedingFails,
      LoadFirst, KeepSnapshot, RemovePage, ExportNewest, RestoreSibling, SetInPage, SetReturns,
      ClearPage, ClearReturns, FreshWorker, SeedFresh, CallCheckpoint, CallClear, CallCreate,
      CallClose, CallRecycle, CallSetCookie, WorkerEnds, UsePage, Receive
  <2>2. task[c].step = "save" /\ saved' = task[c].copy BY <2>1 DEF ReturnSnapshot, At
  <2>3. c \in Busy BY <2>2 DEF Busy, NoTask
  <2>4. PICK J \in Jars : SerialOf(J) /\ (~lost => J = jar) BY DEF Shared
  <2>5. Agree(Open, J) /\ task[c].copy = J BY <2>2, <2>3, <2>4 DEF SerialOf, UnderWay
  <2> QED BY <2>2, <2>4, <2>5 DEF Agree, Running
<1> QED BY <1>1, <1>2, <1>3, PTL DEF Spec, SavesTheContext
=============================================================================
