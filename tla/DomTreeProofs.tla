---------------------------- MODULE DomTreeProofs ----------------------------
(***************************************************************************)
(* Proofs about DomTree, for arenas of any size: the shape of the tree,    *)
(* the edited rules, the refinement of DomPromise, walks and the index.    *)
(***************************************************************************)
EXTENDS DomTree, NatSets, SequenceTheorems, FiniteSetTheorems

Pointers == [Nodes -> Link]

\* LinksAgree, said of any links.
Linked(P, F, L, V, X) ==
  \A n \in Nodes :
    /\ P[n] = None => V[n] = None /\ X[n] = None
    /\ X[n] # None => V[X[n]] = n /\ P[X[n]] = P[n]
    /\ V[n] # None => X[V[n]] = n /\ P[V[n]] = P[n]
    /\ F[n] # None => P[F[n]] = n /\ V[F[n]] = None
    /\ L[n] # None => P[L[n]] = n /\ X[L[n]] = None
    /\ F[n] = None <=> L[n] = None
    /\ P[n] # None => (V[n] = None => F[P[n]] = n) /\ (X[n] = None => L[P[n]] = n)

\* Parents without n's; the first (or last) children, and the neighbours on one
\* side, when n is taken out, where V looks to that side and X to the other.
UpOff(P, n) == [P EXCEPT ![n] = None]
EndOff(P, F, V, X, n) == [x \in Nodes |-> IF x = P[n] /\ V[n] = None THEN X[n] ELSE F[x]]
SideOff(V, X, n) ==
  [x \in Nodes |-> IF x = n THEN None ELSE IF x = X[n] THEN V[n] ELSE V[x]]

\* The same when c is put at the end of p's list, or n before e.
FirstOn(F, p, c) == [F EXCEPT ![p] = IF @ = None THEN c ELSE @]
NextOn(X, before, n, e) == [x \in Nodes |-> IF x = before THEN n ELSE IF x = n THEN e ELSE X[x]]
FirstBefore(P, F, V, e, n) == IF V[e] = None THEN [F EXCEPT ![P[e]] = n] ELSE F
PrevBefore(V, e, n) == [V EXCEPT ![n] = V[e], ![e] = n]
Set(F, x, y) == [F EXCEPT ![x] = y]

\* What is left when n is taken out of its list.
LEMMA Unlinked ==
  ASSUME NEW P \in Pointers, NEW F \in Pointers, NEW L \in Pointers,
         NEW V \in Pointers, NEW X \in Pointers, Linked(P, F, L, V, X),
         NEW n \in Nodes
  PROVE  Linked(UpOff(P, n), EndOff(P, F, V, X, n), EndOff(P, L, X, V, n),
                SideOff(V, X, n), SideOff(X, V, n))
<1> DEFINE P1 == UpOff(P, n)
           F1 == EndOff(P, F, V, X, n)
           L1 == EndOff(P, L, X, V, n)
           V1 == SideOff(V, X, n)
           X1 == SideOff(X, V, n)
<1> USE TreeAssumption DEF Pointers, Link, Linked, UpOff, EndOff, SideOff
<1> SUFFICES ASSUME NEW m \in Nodes
             PROVE  /\ P1[m] = None => V1[m] = None /\ X1[m] = None
                    /\ X1[m] # None => V1[X1[m]] = m /\ P1[X1[m]] = P1[m]
                    /\ V1[m] # None => X1[V1[m]] = m /\ P1[V1[m]] = P1[m]
                    /\ F1[m] # None => P1[F1[m]] = m /\ V1[F1[m]] = None
                    /\ L1[m] # None => P1[L1[m]] = m /\ X1[L1[m]] = None
                    /\ F1[m] = None <=> L1[m] = None
                    /\ P1[m] # None => /\ V1[m] = None => F1[P1[m]] = m
                                       /\ X1[m] = None => L1[P1[m]] = m
  BY Zenon DEF Linked
<1>1. P1[m] = None => V1[m] = None /\ X1[m] = None
  OBVIOUS
<1>2. X1[m] # None => V1[X1[m]] = m /\ P1[X1[m]] = P1[m]
  OBVIOUS
<1>3. V1[m] # None => X1[V1[m]] = m /\ P1[V1[m]] = P1[m]
  OBVIOUS
<1>4. F1[m] # None => P1[F1[m]] = m /\ V1[F1[m]] = None
  OBVIOUS
<1>5. L1[m] # None => P1[L1[m]] = m /\ X1[L1[m]] = None
  OBVIOUS
<1>6. P1[m] # None => /\ V1[m] = None => F1[P1[m]] = m
                      /\ X1[m] = None => L1[P1[m]] = m
  OBVIOUS
<1>7. F1[m] = None <=> L1[m] = None
  OBVIOUS
<1> QED BY <1>1, <1>2, <1>3, <1>4, <1>5, <1>6, <1>7

\* c, which is in no list, put at the end of p's.
LEMMA Appended ==
  ASSUME NEW P \in Pointers, NEW F \in Pointers, NEW L \in Pointers,
         NEW V \in Pointers, NEW X \in Pointers, Linked(P, F, L, V, X),
         NEW p \in Nodes, NEW c \in Nodes, p # c, P[c] = None
  PROVE  Linked(Set(P, c, p), FirstOn(F, p, c), Set(L, p, c),
                Set(V, c, L[p]), NextOn(X, L[p], c, None))
<1> DEFINE P1 == Set(P, c, p)
           F1 == FirstOn(F, p, c)
           L1 == Set(L, p, c)
           V1 == Set(V, c, L[p])
           X1 == NextOn(X, L[p], c, None)
<1> USE TreeAssumption DEF Pointers, Link, Linked, Set, FirstOn, NextOn
<1> SUFFICES ASSUME NEW m \in Nodes
             PROVE  /\ P1[m] = None => V1[m] = None /\ X1[m] = None
                    /\ X1[m] # None => V1[X1[m]] = m /\ P1[X1[m]] = P1[m]
                    /\ V1[m] # None => X1[V1[m]] = m /\ P1[V1[m]] = P1[m]
                    /\ F1[m] # None => P1[F1[m]] = m /\ V1[F1[m]] = None
                    /\ L1[m] # None => P1[L1[m]] = m /\ X1[L1[m]] = None
                    /\ F1[m] = None <=> L1[m] = None
                    /\ P1[m] # None => /\ V1[m] = None => F1[P1[m]] = m
                                       /\ X1[m] = None => L1[P1[m]] = m
  BY Zenon DEF Linked
<1>1. P1[m] = None => V1[m] = None /\ X1[m] = None
  OBVIOUS
<1>2. X1[m] # None => V1[X1[m]] = m /\ P1[X1[m]] = P1[m]
  OBVIOUS
<1>3. V1[m] # None => X1[V1[m]] = m /\ P1[V1[m]] = P1[m]
  OBVIOUS
<1>4. F1[m] # None => P1[F1[m]] = m /\ V1[F1[m]] = None
  OBVIOUS
<1>5. L1[m] # None => P1[L1[m]] = m /\ X1[L1[m]] = None
  OBVIOUS
<1>6. P1[m] # None => /\ V1[m] = None => F1[P1[m]] = m
                      /\ X1[m] = None => L1[P1[m]] = m
  OBVIOUS
<1>7. F1[m] = None <=> L1[m] = None
  OBVIOUS
<1> QED BY <1>1, <1>2, <1>3, <1>4, <1>5, <1>6, <1>7

\* n, which is in no list, put before e.
LEMMA Inserted ==
  ASSUME NEW P \in Pointers, NEW F \in Pointers, NEW L \in Pointers,
         NEW V \in Pointers, NEW X \in Pointers, Linked(P, F, L, V, X),
         NEW e \in Nodes, NEW n \in Nodes, e # n, P[n] = None, P[e] # None, P[e] # n
  PROVE  Linked(Set(P, n, P[e]), FirstBefore(P, F, V, e, n), L,
                PrevBefore(V, e, n), NextOn(X, V[e], n, e))
<1> DEFINE P1 == Set(P, n, P[e])
           F1 == FirstBefore(P, F, V, e, n)
           L1 == L
           V1 == PrevBefore(V, e, n)
           X1 == NextOn(X, V[e], n, e)
<1> USE TreeAssumption DEF Pointers, Link, Linked, Set, FirstBefore, PrevBefore, NextOn
<1> SUFFICES ASSUME NEW m \in Nodes
             PROVE  /\ P1[m] = None => V1[m] = None /\ X1[m] = None
                    /\ X1[m] # None => V1[X1[m]] = m /\ P1[X1[m]] = P1[m]
                    /\ V1[m] # None => X1[V1[m]] = m /\ P1[V1[m]] = P1[m]
                    /\ F1[m] # None => P1[F1[m]] = m /\ V1[F1[m]] = None
                    /\ L1[m] # None => P1[L1[m]] = m /\ X1[L1[m]] = None
                    /\ F1[m] = None <=> L1[m] = None
                    /\ P1[m] # None => /\ V1[m] = None => F1[P1[m]] = m
                                       /\ X1[m] = None => L1[P1[m]] = m
  BY Zenon DEF Linked
<1>1. P1[m] = None => V1[m] = None /\ X1[m] = None
  OBVIOUS
<1>2. X1[m] # None => V1[X1[m]] = m /\ P1[X1[m]] = P1[m]
  OBVIOUS
<1>3. V1[m] # None => X1[V1[m]] = m /\ P1[V1[m]] = P1[m]
  OBVIOUS
<1>4. F1[m] # None => P1[F1[m]] = m /\ V1[F1[m]] = None
  OBVIOUS
<1>5. L1[m] # None => P1[L1[m]] = m /\ X1[L1[m]] = None
  OBVIOUS
<1>6. P1[m] # None => /\ V1[m] = None => F1[P1[m]] = m
                      /\ X1[m] = None => L1[P1[m]] = m
  OBVIOUS
<1>7. F1[m] = None <=> L1[m] = None
  OBVIOUS
<1> QED BY <1>1, <1>2, <1>3, <1>4, <1>5, <1>6, <1>7

\* No set of nodes is closed under the pointers U.
Grounded(U) == \A S \in (SUBSET Nodes) \ {{}} : \E n \in S : U[n] \notin S

LEMMA UnlinkedGrounded ==
  ASSUME NEW V \in Pointers, NEW X \in Pointers, Grounded(V), NEW n \in Nodes,
         \A m \in Nodes : X[m] # None => V[X[m]] = m
  PROVE  Grounded(SideOff(V, X, n))
<1> DEFINE V1 == SideOff(V, X, n)
<1> SUFFICES ASSUME NEW S \in (SUBSET Nodes) \ {{}} PROVE \E m \in S : V1[m] \notin S
  BY DEF Grounded
<1> USE TreeAssumption DEF Pointers, Link, SideOff
<1>1. CASE n \in S
  BY <1>1
<1>2. CASE n \notin S /\ V[n] \in S
  <2>1. PICK m \in S \cup {n} : V[m] \notin S \cup {n}
    BY DEF Grounded
  <2> QED BY <1>2, <2>1
<1>3. CASE n \notin S /\ V[n] \notin S
  <2>1. PICK m \in S : V[m] \notin S
    BY DEF Grounded
  <2> QED BY <1>3, <2>1
<1> QED BY <1>1, <1>2, <1>3

LEMMA AppendedGrounded ==
  ASSUME NEW V \in Pointers, Grounded(V), NEW c \in Nodes, NEW w \in Link, w # c,
         \A m \in Nodes : V[m] # c
  PROVE  Grounded(Set(V, c, w))
<1> SUFFICES ASSUME NEW S \in (SUBSET Nodes) \ {{}} PROVE \E m \in S : Set(V, c, w)[m] \notin S
  BY DEF Grounded
<1> USE TreeAssumption DEF Pointers, Link, Set
<1>1. CASE S \ {c} = {}
  BY <1>1
<1>2. CASE S \ {c} # {}
  <2>1. PICK m \in S \ {c} : V[m] \notin S \ {c}
    BY <1>2 DEF Grounded
  <2> QED BY <2>1
<1> QED BY <1>1, <1>2

\* c gets the pointer w, and a set A that w leads into does not hold c.
LEMMA MovedGrounded ==
  ASSUME NEW U \in Pointers, Grounded(U), NEW c \in Nodes, NEW w \in Link,
         NEW A \in SUBSET Nodes, w \in A \cup {None}, c \notin A,
         \A x \in A : U[x] \in A \cup {None}
  PROVE  Grounded([U EXCEPT ![c] = w])
<1> SUFFICES ASSUME NEW S \in (SUBSET Nodes) \ {{}}
             PROVE \E m \in S : [U EXCEPT ![c] = w][m] \notin S
  BY DEF Grounded
<1> USE TreeAssumption DEF Pointers, Link
<1>1. CASE c \notin S
  <2>1. PICK m \in S : U[m] \notin S
    BY DEF Grounded
  <2> QED BY <1>1, <2>1
<1>2. CASE c \in S /\ w \notin S
  BY <1>2
<1>3. CASE c \in S /\ w \in S
  <2>1. S \cap A \in (SUBSET Nodes) \ {{}}
    BY <1>3
  <2>2. PICK m \in S \cap A : U[m] \notin S \cap A
    BY <2>1 DEF Grounded
  <2>3. U[m] \notin S
    BY <2>2
  <2> QED BY <2>2, <2>3
<1> QED BY <1>1, <1>2, <1>3

LEMMA InsertedGrounded ==
  ASSUME NEW V \in Pointers, Grounded(V), NEW e \in Nodes, NEW n \in Nodes, e # n,
         \A m \in Nodes : V[m] # n
  PROVE  Grounded(PrevBefore(V, e, n))
<1> DEFINE V1 == PrevBefore(V, e, n)
<1> SUFFICES ASSUME NEW S \in (SUBSET Nodes) \ {{}} PROVE \E m \in S : V1[m] \notin S
  BY DEF Grounded
<1> USE TreeAssumption DEF Pointers, Link, PrevBefore
<1>1. CASE n \notin S
  <2>1. PICK m \in S : V[m] \notin S
    BY DEF Grounded
  <2> QED BY <1>1, <2>1
<1>2. CASE S = {n}
  BY <1>2
<1>3. CASE n \in S /\ S # {n}
  <2>1. PICK m \in S \ {n} : V[m] \notin S \ {n}
    BY <1>3 DEF Grounded
  <2>2. V[m] \notin S
    BY <2>1
  <2>3. CASE m = e
    BY <1>3, <2>2, <2>3
  <2>4. CASE m # e
    BY <2>1, <2>2, <2>4
  <2> QED BY <2>3, <2>4
<1> QED BY <1>1, <1>2, <1>3

(* Walks to the top and down. *)

LEMMA AboveFacts ==
  ASSUME NEW n \in Nodes, \A x \in Nodes : Up(x) \in Link
  PROVE  /\ n \in Above(n)
         /\ AboveClosed(Above(n))
         /\ \A S \in SUBSET Nodes : n \in S /\ AboveClosed(S) => Above(n) \subseteq S
  BY DEF Above, AboveClosed, Link

LEMMA AboveStep ==
  ASSUME NEW x \in Nodes, NEW c \in Nodes, \A y \in Nodes : Up(y) \in Link
  PROVE  /\ Up(x) # None /\ c \in Above(Up(x)) => c \in Above(x)
         /\ x # c /\ c \in Above(x) => Up(x) # None /\ c \in Above(Up(x))
<1>1. ASSUME Up(x) # None, c \in Above(Up(x)) PROVE c \in Above(x)
  <2>1. Up(x) \in Above(x)
    BY <1>1, AboveFacts DEF AboveClosed, Link
  <2>2. Above(Up(x)) \subseteq Above(x)
    BY <1>1, <2>1, AboveFacts DEF Above, Link
  <2> QED BY <1>1, <2>2
<1>2. ASSUME x # c, c \in Above(x) PROVE Up(x) # None /\ c \in Above(Up(x))
  <2>1. CASE Up(x) = None
    <3>1. AboveClosed({x})
      BY <2>1 DEF AboveClosed
    <3> QED BY <3>1, <1>2, AboveFacts
  <2>2. CASE Up(x) # None
    <3>1. AboveClosed({x} \cup Above(Up(x)))
      BY <2>2, AboveFacts DEF AboveClosed, Link
    <3>2. Above(x) \subseteq {x} \cup Above(Up(x))
      BY <3>1, AboveFacts DEF Above
    <3> QED BY <3>2, <2>2, <1>2
  <2> QED BY <2>1, <2>2
<1> QED BY <1>1, <1>2

Ups == [n \in Nodes |-> Up(n)]

LEMMA UpTyped ==
  ASSUME TypeOK
  PROVE  Ups \in Pointers /\ \A x \in Nodes : Up(x) \in Link
  BY DEF TypeOK, Ups, Up, Pointers

LEMMA Grounds ==
  NoCycles <=> Grounded(prev) /\ Grounded(Ups)
<1>1. ASSUME NEW S \in (SUBSET Nodes) \ {{}}
      PROVE  (\E n \in S : Ups[n] \notin S) <=> (\E n \in S : Up(n) \notin S)
  BY DEF Ups
<1> QED BY <1>1 DEF NoCycles, Grounded

\* A parent has a first child.
LEMMA HasFirst ==
  ASSUME TypeOK, LinksAgree, Grounded(prev), NEW x \in Nodes, parent[x] # None
  PROVE  first[parent[x]] # None
<1> DEFINE S == {m \in Nodes : parent[m] = parent[x]}
<1>1. PICK m \in S : prev[m] \notin S
  <2>1. S \in (SUBSET Nodes) \ {{}}
    OBVIOUS
  <2> QED BY <2>1 DEF Grounded
<1>2. prev[m] = None
  BY <1>1 DEF LinksAgree, TypeOK, Link
<1>3. first[parent[m]] = m
  BY <1>1, <1>2 DEF LinksAgree
<1> QED BY <1>1, <1>3, TreeAssumption

\* The shortcut of WouldCreateCycle: what holds nothing is above nothing else.
LEMMA LeafNotAbove ==
  ASSUME TypeOK, LinksAgree, ShadowsAgree, Grounded(prev),
         NEW p \in Nodes, NEW c \in Nodes, p # c, first[c] = None, root[c] = None
  PROVE  c \notin Above(p)
<1> USE TreeAssumption
<1> DEFINE A == Above(p) \ {c}
<1>1. AboveClosed(A)
  <2> SUFFICES ASSUME NEW x \in A PROVE Up(x) \in A \cup {None}
    BY DEF AboveClosed
  <2>1. x \in Nodes
    BY DEF Above
  <2>2. Up(x) \in Above(p) \cup {None}
    BY UpTyped, AboveFacts DEF AboveClosed
  <2>3. ASSUME Up(x) = c PROVE FALSE
    <3>1. CASE parent[x] # None
      BY <3>1, <2>1, <2>3, HasFirst DEF Up
    <3>2. CASE parent[x] = None
      BY <3>2, <2>1, <2>3 DEF Up, ShadowsAgree
    <3> QED BY <3>1, <3>2
  <2> QED BY <2>2, <2>3
<1>2. p \in A /\ A \subseteq Nodes
  BY UpTyped, AboveFacts DEF Above
<1>3. Above(p) \subseteq A
  BY <1>1, <1>2, UpTyped, AboveFacts
<1> QED BY <1>3

\* No node is above its own parent or host.
LEMMA NoWayRound ==
  ASSUME TypeOK, Grounded(Ups), NEW c \in Nodes, Up(c) # None
  PROVE  c \notin Above(Up(c))
<1> USE TreeAssumption, UpTyped DEF Link
<1> DEFINE S == {z \in Above(Up(c)) : c \in Above(z)}
<1> SUFFICES ASSUME c \in Above(Up(c)) PROVE FALSE
  OBVIOUS
<1>1. S \in (SUBSET Nodes) \ {{}}
  <2>1. Up(c) \in S
    BY AboveFacts
  <2> QED BY <2>1 DEF Above
<1>2. PICK z \in S : Up(z) \notin S
  <2>1. PICK z \in S : Ups[z] \notin S
    BY <1>1 DEF Grounded
  <2> QED BY <2>1, <1>1 DEF Ups
<1>3. z \in Nodes /\ Up(z) \in Above(Up(c)) \cup {None}
  BY <1>1, <1>2, AboveFacts DEF AboveClosed
<1>4. CASE z = c
  BY <1>2, <1>4, AboveFacts
<1>5. CASE z # c
  <2>1. Up(z) # None /\ c \in Above(Up(z))
    BY <1>2, <1>3, <1>5, AboveStep
  <2> QED BY <1>2, <1>3, <2>1
<1> QED BY <1>4, <1>5

(* What set_subtree_connected reaches: the node, and whatever has its parent *)
(* or host among what is reached.                                            *)

LEMMA OwnedFacts ==
  ASSUME TypeOK, NEW c \in Nodes
  PROVE  /\ c \in Owned(c) /\ Owned(c) \subseteq Nodes
         /\ OwnedClosed(Owned(c), c)
         /\ \A S \in SUBSET Nodes : c \in S /\ OwnedClosed(S, c) => Owned(c) \subseteq S
<1>1. \A x \in Nodes : {first[x], next[x], root[x]} \subseteq Link
  BY DEF TypeOK
<1> QED BY <1>1 DEF Owned, OwnedClosed, Link

\* Links between a node and what it owns, as Up sees them.
LEMMA UpOfOwned ==
  ASSUME TypeOK, LinksAgree, ShadowsAgree, NEW x \in Nodes
  PROVE  /\ first[x] # None => first[x] \in Nodes /\ Up(first[x]) = x
         /\ root[x] # None => root[x] \in Nodes /\ Up(root[x]) = x
         /\ next[x] # None => next[x] \in Nodes /\ Up(next[x]) = Up(x) /\ parent[x] # None
<1> USE TreeAssumption DEF TypeOK, Link
<1>1. first[x] # None => first[x] \in Nodes /\ Up(first[x]) = x
  BY DEF LinksAgree, Up
<1>2. root[x] # None => root[x] \in Nodes /\ Up(root[x]) = x
  BY DEF ShadowsAgree, Up, IsElement
<1>3. next[x] # None => next[x] \in Nodes /\ Up(next[x]) = Up(x) /\ parent[x] # None
  BY DEF LinksAgree, Up
<1> QED BY <1>1, <1>2, <1>3

LEMMA OwnerIsAbove ==
  ASSUME TypeOK, LinksAgree, ShadowsAgree, NEW c \in Nodes, NEW x \in Owned(c)
  PROVE  c \in Above(x)
<1> DEFINE S == {z \in Nodes : c \in Above(z)}
<1> USE TreeAssumption, UpTyped DEF Link
<1>1. c \in S
  BY AboveFacts
<1>2. OwnedClosed(S, c)
  <2> SUFFICES ASSUME NEW z \in S
               PROVE  /\ first[z] \in S \cup {None} /\ root[z] \in S \cup {None}
                      /\ z # c => next[z] \in S \cup {None}
    BY DEF OwnedClosed
  <2>1. first[z] \in S \cup {None}
    BY UpOfOwned, AboveStep
  <2>2. root[z] \in S \cup {None}
    BY UpOfOwned, AboveStep
  <2>3. ASSUME z # c, next[z] # None PROVE next[z] \in S
    <3>1. next[z] \in Nodes /\ Up(next[z]) = Up(z)
      BY <2>3, UpOfOwned
    <3>2. Up(z) # None /\ c \in Above(Up(z))
      BY <2>3, AboveStep
    <3> QED BY <3>1, <3>2, AboveStep
  <2> QED BY <2>1, <2>2, <2>3
<1>3. Owned(c) \subseteq S
  BY <1>1, <1>2, OwnedFacts
<1> QED BY <1>3

LEMMA OwnedIff ==
  ASSUME TypeOK, LinksAgree, ShadowsAgree, Grounded(prev), Grounded(Ups), NEW c \in Nodes
  PROVE  /\ Up(c) \notin Owned(c)
         /\ \A x \in Nodes \ {c} : x \in Owned(c) <=> Up(x) \in Owned(c)
<1> USE TreeAssumption
<1> DEFINE D == Owned(c)
<1>1. Up(c) \notin D
  BY OwnerIsAbove, NoWayRound, OwnedFacts
<1>2. ASSUME NEW x \in Nodes \ {c}, x \in D PROVE Up(x) \in D
  <2> DEFINE S == {z \in D : z = c \/ Up(z) \in D}
  <2>1. c \in S /\ S \subseteq Nodes
    BY OwnedFacts
  <2>2. OwnedClosed(S, c)
    <3> SUFFICES ASSUME NEW z \in S
                 PROVE  /\ first[z] \in S \cup {None} /\ root[z] \in S \cup {None}
                        /\ z # c => next[z] \in S \cup {None}
      BY DEF OwnedClosed
    <3>0. z \in Nodes /\ z \in D
      BY <2>1
    <3>1. /\ first[z] \in D \cup {None} /\ root[z] \in D \cup {None}
          /\ z # c => next[z] \in D \cup {None}
      BY <3>0, OwnedFacts DEF OwnedClosed
    <3> QED BY <3>0, <3>1, UpOfOwned
  <2>3. D \subseteq S
    BY <2>1, <2>2, OwnedFacts
  <2> QED BY <1>2, <2>3
<1>3. ASSUME NEW x \in Nodes \ {c}, Up(x) \in D PROVE x \in D
  <2>0. Up(x) \in Nodes /\ Up(x) # None
    BY <1>3, OwnedFacts
  <2>1. CASE parent[x] = None
    <3>1. root[Up(x)] = x
      BY <2>0, <2>1 DEF Up, ShadowsAgree
    <3> QED BY <3>1, <1>3, OwnedFacts DEF OwnedClosed
  <2>2. CASE parent[x] # None
    <3> DEFINE S == {z \in Nodes \ D : parent[z] = parent[x]}
    <3> SUFFICES ASSUME x \notin D PROVE FALSE
      OBVIOUS
    <3>0. parent[x] = Up(x)
      BY <2>2 DEF Up
    <3>1. S \in (SUBSET Nodes) \ {{}}
      OBVIOUS
    <3>2. PICK z \in S : prev[z] \notin S
      BY <3>1 DEF Grounded
    <3>3. CASE prev[z] = None
      <4>1. first[Up(x)] = z
        BY <2>2, <3>0, <3>2, <3>3 DEF LinksAgree
      <4> QED BY <4>1, <3>2, <1>3, OwnedFacts DEF OwnedClosed
    <3>4. CASE prev[z] # None
      <4>1. prev[z] \in Nodes /\ next[prev[z]] = z /\ parent[prev[z]] = parent[x]
        BY <3>2, <3>4 DEF LinksAgree, TypeOK, Link
      <4>2. prev[z] \in D
        BY <4>1, <3>2
      <4>3. prev[z] # c
        <5>1. parent[prev[z]] # None /\ parent[prev[z]] \in D
          BY <4>1, <3>0, <1>3, <2>2
        <5> QED BY <5>1, <1>1 DEF Up
      <4>4. z \in D
        <5>1. z \in D \cup {None}
          BY <4>1, <4>2, <4>3, OwnedFacts DEF OwnedClosed
        <5> QED BY <5>1, <3>2
      <4> QED BY <4>4, <3>2
    <3> QED BY <3>3, <3>4
  <2> QED BY <2>1, <2>2
<1> QED BY <1>1, <1>2, <1>3

\* A node gets a new place, or a root its host: where the new place is not below
\* the node, every walk to the top still ends and the bits still agree.
LEMMA Moved ==
  ASSUME TreeShape, NEW c \in Nodes \ {Document}, NEW p \in Link,
         p = None \/ c \notin Above(p),
         \A x \in Nodes : Up(x)' = IF x = c THEN p ELSE Up(x),
         SetConnected(c, IF p = None THEN FALSE ELSE connected[p])
  PROVE  Grounded(Ups)' /\ ConnectedAgree'
<1> DEFINE b == IF p = None THEN FALSE ELSE connected[p]
           D == Owned(c)
<1> USE TreeAssumption DEF TreeShape
<1>1. Grounded(Ups)'
  <2> DEFINE A == IF p = None THEN {} ELSE Above(p)
  <2>1. /\ A \in SUBSET Nodes /\ p \in A \cup {None} /\ c \notin A
        /\ \A x \in A : Ups[x] \in A \cup {None}
    <3>1. CASE p = None
      BY <3>1
    <3>2. CASE p # None
      <4>1. p \in Above(p) /\ AboveClosed(Above(p)) /\ Above(p) \subseteq Nodes
        BY <3>2, UpTyped, AboveFacts DEF Link, Above
      <4> QED BY <3>2, <4>1 DEF AboveClosed, Ups
    <3> QED BY <3>1, <3>2
  <2>2. Ups' = [Ups EXCEPT ![c] = p]
    BY DEF Ups
  <2>3. Ups \in Pointers /\ Grounded(Ups)
    BY UpTyped, Grounds
  <2>4. Grounded([Ups EXCEPT ![c] = p])
    <3> HIDE DEF A
    <3> QED BY <2>1, <2>3, MovedGrounded
  <2> QED BY <2>2, <2>4 DEF Grounded
<1>2. /\ c \in D /\ Up(c) \notin D
      /\ \A x \in Nodes \ {c} : x \in D <=> Up(x) \in D
  BY OwnedFacts, OwnedIff, Grounds
<1>3. D \subseteq Nodes
  BY OwnedFacts
<1>4. p # None => p \notin D
  BY OwnerIsAbove
<1>5. connected' = IF connected[c] = b THEN connected
                   ELSE [x \in Nodes |-> IF x \in D THEN b ELSE connected[x]]
  BY DEF SetConnected
<1>6. \A x \in Nodes : Up(x) \in Link /\ connected[x] \in BOOLEAN
  BY UpTyped DEF TypeOK
<1>7. ConnectedAgree'
  <2> HIDE DEF D
  <2> SUFFICES ASSUME NEW n \in Nodes
               PROVE  connected'[n] = IF Up(n)' = None THEN n = Document
                                      ELSE connected'[Up(n)']
    BY DEF ConnectedAgree
  <2>1. connected[n] = IF Up(n) = None THEN n = Document ELSE connected[Up(n)]
    BY DEF ConnectedAgree
  <2>2. CASE n = c
    <3>1. Up(n)' = p /\ n # Document
      BY <2>2
    <3>2. CASE connected[c] = b
      BY <3>1, <3>2, <2>2, <1>5
    <3>3. CASE connected[c] # b
      <4>1. connected'[c] = b /\ (p # None => connected'[p] = connected[p])
        BY <3>3, <1>2, <1>4, <1>5 DEF Link
      <4> QED BY <3>1, <4>1, <2>2
    <3> QED BY <3>2, <3>3
  <2>3. CASE n # c
    <3>1. Up(n)' = Up(n) /\ (n \in D <=> Up(n) \in D)
      BY <2>3, <1>2
    <3>2. CASE connected[c] = b
      BY <3>1, <3>2, <2>1, <1>5
    <3>3. CASE connected[c] # b
      <4>1. /\ connected'[n] = (IF n \in D THEN b ELSE connected[n])
            /\ Up(n) # None =>
                 connected'[Up(n)] = (IF Up(n) \in D THEN b ELSE connected[Up(n)])
        BY <3>3, <1>5, <1>6 DEF Link
      <4>2. Up(n) = None => n \notin D
        BY <3>1, <1>3
      <4> QED BY <3>1, <4>1, <4>2, <2>1
    <3> QED BY <3>2, <3>3
  <2> QED BY <2>2, <2>3
<1> QED BY <1>1, <1>7

(* The operations. *)

LEMMA InvOfParts ==
  TreeShape <=> /\ TypeOK /\ Linked(parent, first, last, prev, next)
              /\ ShadowsAgree /\ Grounded(prev) /\ Grounded(Ups) /\ ConnectedAgree
<1>1. LinksAgree <=> Linked(parent, first, last, prev, next)
  BY Zenon DEF LinksAgree, Linked
<1> QED BY <1>1, Grounds DEF TreeShape

\* A node that is not fixed, out of its list.
LEMMA TakenOff ==
  ASSUME TreeShape, NEW n \in Nodes, ~Fixed(n)
  PROVE  /\ ParentOff(n) \in Pointers /\ FirstOff(n) \in Pointers /\ LastOff(n) \in Pointers
         /\ PrevOff(n) \in Pointers /\ NextOff(n) \in Pointers
         /\ Linked(ParentOff(n), FirstOff(n), LastOff(n), PrevOff(n), NextOff(n))
         /\ Grounded(PrevOff(n))
         /\ \A m \in Nodes : PrevOff(n)[m] # n
         /\ \A m \in Nodes : ~Used(m) => FirstOff(n)[m] = None /\ LastOff(n)[m] = None
<1> USE TreeAssumption
<1>1. /\ parent \in Pointers /\ first \in Pointers /\ last \in Pointers
      /\ prev \in Pointers /\ next \in Pointers
      /\ Linked(parent, first, last, prev, next) /\ Grounded(prev)
  BY InvOfParts DEF TypeOK, Pointers
<1>2. /\ ParentOff(n) \in Pointers /\ FirstOff(n) \in Pointers /\ LastOff(n) \in Pointers
      /\ PrevOff(n) \in Pointers /\ NextOff(n) \in Pointers
  BY <1>1 DEF Pointers, Link, ParentOff, FirstOff, LastOff, PrevOff, NextOff
<1>0. /\ ParentOff(n) = UpOff(parent, n)
      /\ FirstOff(n) = EndOff(parent, first, prev, next, n)
      /\ LastOff(n) = EndOff(parent, last, next, prev, n)
      /\ PrevOff(n) = SideOff(prev, next, n) /\ NextOff(n) = SideOff(next, prev, n)
  BY DEF ParentOff, FirstOff, LastOff, PrevOff, NextOff, UpOff, EndOff, SideOff
<1>3. Linked(ParentOff(n), FirstOff(n), LastOff(n), PrevOff(n), NextOff(n))
  BY <1>0, <1>1, Unlinked
<1>4. \A m \in Nodes : next[m] # None => prev[next[m]] = m
  BY <1>1 DEF Linked
<1>5. Grounded(PrevOff(n))
  BY <1>0, <1>1, <1>4, UnlinkedGrounded
<1>6. \A m \in Nodes : PrevOff(n)[m] # n
  BY <1>1 DEF PrevOff, Linked, Pointers, Link
<1>7. \A m \in Nodes : ~Used(m) => FirstOff(n)[m] = None /\ LastOff(n)[m] = None
  BY <1>1 DEF FirstOff, LastOff, Linked, Pointers, Link, TreeShape, ShadowsAgree
<1> QED BY <1>2, <1>3, <1>5, <1>6, <1>7

\* What moves, and what does not, where the document is not moved.
LEMMA MovableIsLoose ==
  ASSUME DocumentMoves = FALSE, TreeShape, NEW c \in Nodes, Movable(c)
  PROVE  ~Fixed(c) /\ c # Document
  BY DEF Movable, TreeShape, ShadowsAgree, Fixed, IsElement, IsShadowRoot

LEMMA MoveToStep ==
  ASSUME NEW c \in Nodes, NEW p \in Nodes, ~Fixed(c), TypeOK, MoveTo(c, p)
  PROVE  SetConnected(c, connected[p]) /\ cssom' \subseteq Nodes
  BY DEF MoveTo, TypeOK

LEMMA AppendStep ==
  ASSUME DocumentMoves = FALSE, TreeShape,
         NEW p \in Nodes, NEW c \in Nodes, AppendChild(p, c)
  PROVE  TreeShape'
<1> USE TreeAssumption
<1>1. ~Fixed(c) /\ c # Document /\ IsElement(c)
  BY MovableIsLoose DEF AppendChild, Movable
<1>2. /\ parent' = [ParentOff(c) EXCEPT ![c] = p]
      /\ first' = [FirstOff(c) EXCEPT ![p] = IF @ = None THEN c ELSE @]
      /\ last' = [LastOff(c) EXCEPT ![p] = c]
      /\ prev' = [PrevOff(c) EXCEPT ![c] = LastOff(c)[p]]
      /\ next' = [x \in Nodes |-> IF x = LastOff(c)[p] THEN c
                                  ELSE IF x = c THEN None ELSE NextOff(c)[x]]
      /\ p # c /\ Used(p) /\ UNCHANGED <<kind, shadow, contents, naming, clearing>>
  BY DEF AppendChild
<1>3. ParentOff(c)[c] = None /\ LastOff(c)[p] # c
  BY <1>1, TakenOff DEF ParentOff, TypeOK, TreeShape, Linked, Pointers
<1>4. Linked(parent', first', last', prev', next')
  <2>1. /\ parent' = Set(ParentOff(c), c, p) /\ first' = FirstOn(FirstOff(c), p, c)
        /\ last' = Set(LastOff(c), p, c) /\ prev' = Set(PrevOff(c), c, LastOff(c)[p])
        /\ next' = NextOn(NextOff(c), LastOff(c)[p], c, None)
    BY <1>2 DEF Set, FirstOn, NextOn
  <2>2. p # c
    BY <1>2
  <2>3. Linked(Set(ParentOff(c), c, p), FirstOn(FirstOff(c), p, c), Set(LastOff(c), p, c),
               Set(PrevOff(c), c, LastOff(c)[p]), NextOn(NextOff(c), LastOff(c)[p], c, None))
    BY <1>1, <1>3, <2>2, TakenOff, Appended
  <2> QED BY <2>1, <2>3
<1>5. Grounded(prev)'
  <2>1. Grounded(Set(PrevOff(c), c, LastOff(c)[p]))
    BY <1>1, <1>2, <1>3, TakenOff, AppendedGrounded DEF Pointers
  <2> QED BY <2>1, <1>2 DEF Grounded, Set
<1>6. SetConnected(c, connected[p]) /\ cssom' \subseteq Nodes
  BY <1>1, MoveToStep DEF AppendChild, TreeShape
<1>7. \A x \in Nodes : Up(x)' = IF x = c THEN p ELSE Up(x)
  BY <1>1, <1>2 DEF Up, ParentOff, shadow, TreeShape, TypeOK
<1>8. c \notin Above(p)
  BY <1>2, LeafNotAbove, InvOfParts DEF AppendChild, WouldCreateCycle, TreeShape
<1>9. Grounded(Ups)' /\ ConnectedAgree'
  BY <1>1, <1>6, <1>7, <1>8, Moved DEF Link
<1>10. TypeOK'
  <2>1. /\ parent' \in Pointers /\ first' \in Pointers /\ last' \in Pointers
        /\ prev' \in Pointers /\ next' \in Pointers
    BY <1>1, <1>2, TakenOff DEF Pointers, Link
  <2>2. connected' \in [Nodes -> BOOLEAN]
    BY <1>6 DEF SetConnected, TreeShape, TypeOK
  <2> QED BY <2>1, <2>2, <1>2, <1>6 DEF TreeShape, TypeOK, Pointers, shadow, naming
<1>11. ShadowsAgree'
  <2>1. \A m \in Nodes : ~Used(m) => first'[m] = None /\ last'[m] = None
    BY <1>1, <1>2, TakenOff DEF Pointers
  <2>2. \A m \in Nodes : parent'[m] # None => IsElement(m)
    BY <1>1, <1>2 DEF ParentOff, TreeShape, TypeOK, ShadowsAgree
  <2> QED BY <2>1, <2>2, <1>2 DEF TreeShape, ShadowsAgree, Used, IsElement, shadow
<1>12. Linked(parent, first, last, prev, next)'
  BY <1>4 DEF Linked
<1> QED BY <1>12, <1>5, <1>9, <1>10, <1>11, InvOfParts, PTL

LEMMA InsertStep ==
  ASSUME DocumentMoves = FALSE, TreeShape,
         NEW e \in Nodes, NEW n \in Nodes, InsertBefore(e, n)
  PROVE  TreeShape'
<1> USE TreeAssumption
<1> DEFINE p == parent[e]
<1>1. ~Fixed(n) /\ n # Document /\ IsElement(n)
  BY MovableIsLoose DEF InsertBefore, Movable
<1>2. /\ parent' = [ParentOff(n) EXCEPT ![n] = p]
      /\ first' = IF PrevOff(n)[e] = None THEN [FirstOff(n) EXCEPT ![p] = n] ELSE FirstOff(n)
      /\ last' = LastOff(n)
      /\ prev' = [PrevOff(n) EXCEPT ![n] = PrevOff(n)[e], ![e] = n]
      /\ next' = [x \in Nodes |-> IF x = PrevOff(n)[e] THEN n
                                  ELSE IF x = n THEN e ELSE NextOff(n)[x]]
      /\ e # n /\ p # None /\ UNCHANGED <<kind, shadow, contents, naming, clearing>>
  BY DEF InsertBefore
<1>3. p \in Nodes /\ e # n
  BY <1>2, UpTyped DEF TreeShape, TypeOK, Link
<1>4. p # n /\ n \notin Above(p)
  <2>1. p # n
    <3>1. CASE first[n] = None
      BY <3>1, <1>2, HasFirst, InvOfParts DEF TreeShape
    <3>2. CASE first[n] # None
      <4>1. n \notin Above(p)
        BY <3>2 DEF InsertBefore, WouldCreateCycle
      <4> QED BY <4>1, <1>3, UpTyped, AboveFacts DEF TreeShape
    <3> QED BY <3>1, <3>2
  <2> QED BY <2>1, <1>3, LeafNotAbove, InvOfParts DEF InsertBefore, WouldCreateCycle, TreeShape
<1>5. ParentOff(n)[n] = None /\ ParentOff(n)[e] = p
  BY <1>1, <1>3 DEF ParentOff, TypeOK, TreeShape
<1>6. Linked(parent', first', last', prev', next')
  <2>1. /\ parent' = Set(ParentOff(n), n, ParentOff(n)[e])
        /\ first' = FirstBefore(ParentOff(n), FirstOff(n), PrevOff(n), e, n)
        /\ last' = LastOff(n) /\ prev' = PrevBefore(PrevOff(n), e, n)
        /\ next' = NextOn(NextOff(n), PrevOff(n)[e], n, e)
    BY <1>2, <1>5 DEF Set, FirstBefore, PrevBefore, NextOn
  <2>2. e # n /\ ParentOff(n)[e] # None /\ ParentOff(n)[e] # n
    BY <1>2, <1>4, <1>5
  <2>3. Linked(Set(ParentOff(n), n, ParentOff(n)[e]),
               FirstBefore(ParentOff(n), FirstOff(n), PrevOff(n), e, n), LastOff(n),
               PrevBefore(PrevOff(n), e, n), NextOn(NextOff(n), PrevOff(n)[e], n, e))
    BY <1>1, <1>5, <2>2, TakenOff, Inserted
  <2> QED BY <2>1, <2>3
<1>7. Grounded(prev)'
  <2>1. Grounded(PrevBefore(PrevOff(n), e, n))
    BY <1>1, <1>3, TakenOff, InsertedGrounded
  <2> QED BY <2>1, <1>2 DEF Grounded, PrevBefore
<1>8. SetConnected(n, connected[p]) /\ cssom' \subseteq Nodes
  BY <1>1, <1>3, MoveToStep DEF InsertBefore, TreeShape
<1>9. \A x \in Nodes : Up(x)' = IF x = n THEN p ELSE Up(x)
  BY <1>1, <1>2 DEF Up, ParentOff, shadow, TreeShape, TypeOK
<1>10. Grounded(Ups)' /\ ConnectedAgree'
  <2> HIDE DEF p
  <2> QED BY <1>1, <1>2, <1>3, <1>4, <1>8, <1>9, Moved DEF Link
<1>11. TypeOK'
  <2>1. /\ parent' \in Pointers /\ first' \in Pointers /\ last' \in Pointers
        /\ prev' \in Pointers /\ next' \in Pointers
    BY <1>1, <1>2, <1>3, TakenOff DEF Pointers, Link
  <2>2. connected' \in [Nodes -> BOOLEAN]
    BY <1>3, <1>8 DEF SetConnected, TreeShape, TypeOK
  <2> QED BY <2>1, <2>2, <1>2, <1>8 DEF TreeShape, TypeOK, Pointers, shadow, naming
<1>12. ShadowsAgree'
  <2>1. Used(p)
    BY <1>2, <1>3, HasFirst, InvOfParts DEF TreeShape, ShadowsAgree
  <2>2. \A m \in Nodes : ~Used(m) => first'[m] = None /\ last'[m] = None
    BY <1>1, <1>2, <2>1, TakenOff DEF Pointers
  <2>3. \A m \in Nodes : parent'[m] # None => IsElement(m)
    BY <1>1, <1>2 DEF ParentOff, TreeShape, TypeOK, ShadowsAgree
  <2> QED BY <2>2, <2>3, <1>2 DEF TreeShape, ShadowsAgree, Used, IsElement, shadow
<1>13. Linked(parent, first, last, prev, next)'
  BY <1>6 DEF Linked
<1> QED BY <1>13, <1>7, <1>10, <1>11, <1>12, InvOfParts, PTL

LEMMA DetachStep ==
  ASSUME TreeShape, NEW n \in Nodes, Detach(n), index' \in [Ids -> Link], clearing' \in Link
  PROVE  TreeShape'
<1> USE TreeAssumption
<1>1. /\ ~Fixed(n) /\ n # Document
      /\ parent' = ParentOff(n) /\ prev' = PrevOff(n) /\ next' = NextOff(n)
      /\ first' = FirstOff(n) /\ last' = LastOff(n)
      /\ SetConnected(n, FALSE) /\ cssom' \subseteq cssom
      /\ UNCHANGED <<kind, shadow, contents, ident>>
  BY DEF Detach, Fixed
<1>2. Linked(parent, first, last, prev, next)' /\ Grounded(prev)'
  BY <1>1, TakenOff DEF Linked, Grounded
<1>3. \A x \in Nodes : Up(x)' = IF x = n THEN None ELSE Up(x)
  BY <1>1 DEF Up, ParentOff, shadow, TreeShape, TypeOK, Fixed, IsShadowRoot
<1>4. Grounded(Ups)' /\ ConnectedAgree'
  BY <1>1, <1>3, Moved DEF Link
<1>5. TypeOK'
  <2>1. /\ parent' \in Pointers /\ first' \in Pointers /\ last' \in Pointers
        /\ prev' \in Pointers /\ next' \in Pointers
    BY <1>1, TakenOff
  <2>2. connected' \in [Nodes -> BOOLEAN]
    BY <1>1 DEF SetConnected, TreeShape, TypeOK
  <2> QED BY <2>1, <2>2, <1>1 DEF TreeShape, TypeOK, Pointers, shadow
<1>6. ShadowsAgree'
  <2>1. \A m \in Nodes : ~Used(m) => first'[m] = None /\ last'[m] = None
    BY <1>1, TakenOff
  <2>2. \A m \in Nodes : parent'[m] # None => IsElement(m)
    BY <1>1 DEF ParentOff, TreeShape, TypeOK, ShadowsAgree
  <2> QED BY <2>1, <2>2, <1>1 DEF TreeShape, ShadowsAgree, Used, IsElement, shadow
<1> QED BY <1>2, <1>4, <1>5, <1>6, InvOfParts, PTL

LEMMA AttachStep ==
  ASSUME TreeShape, NEW h \in Nodes, NEW r \in Nodes, IsElement(h), root[h] = None,
         r # Document, parent[r] = None, host[r] = None, first[r] = None, root[r] = None,
         kind[r] # "element", kind' = [kind EXCEPT ![r] = "fragment"], AttachShadow(h, r),
         ident' = ident, index' \in [Ids -> Link], cssom' \subseteq cssom
  PROVE  TreeShape'
<1> USE TreeAssumption
<1>1. /\ root' = [root EXCEPT ![h] = r] /\ host' = [host EXCEPT ![r] = h]
      /\ SetConnected(r, connected[h]) /\ UNCHANGED <<links, contents, clearing>>
      /\ h # r
  BY DEF AttachShadow, IsElement
<1>2. Linked(parent, first, last, prev, next)' /\ Grounded(prev)'
  BY <1>1, InvOfParts DEF Linked, Grounded, links
<1>3. \A x \in Nodes : Up(x)' = IF x = r THEN h ELSE Up(x)
  BY <1>1 DEF Up, links, TreeShape, TypeOK
<1>4. r \notin Above(h)
  BY <1>1, LeafNotAbove, InvOfParts DEF TreeShape
<1>5. Grounded(Ups)' /\ ConnectedAgree'
  BY <1>1, <1>3, <1>4, Moved DEF Link
<1>6. TypeOK'
  <2>1. connected' \in [Nodes -> BOOLEAN]
    BY <1>1 DEF SetConnected, TreeShape, TypeOK
  <2> QED BY <2>1, <1>1 DEF TreeShape, TypeOK, links, Link
<1>7. ShadowsAgree'
  BY <1>1 DEF TreeShape, TypeOK, ShadowsAgree, Used, IsElement, links, Link
<1> QED BY <1>2, <1>5, <1>6, <1>7, InvOfParts, PTL

LEMMA SameTree ==
  ASSUME TreeShape, TypeOK', UNCHANGED <<links, connected, shadow>>, ShadowsAgree'
  PROVE  TreeShape'
<1>1. /\ Linked(parent, first, last, prev, next)' /\ Grounded(prev)'
      /\ Grounded(Ups)' /\ ConnectedAgree'
  BY InvOfParts DEF links, shadow, Linked, Grounded, Ups, Up, ConnectedAgree
<1> QED BY <1>1, InvOfParts, PTL

LEMMA NextKeepsTree ==
  ASSUME DocumentMoves = FALSE, TreeShape, [Next]_vars
  PROVE  TreeShape'
<1> USE TreeAssumption
<1>1. ASSUME NEW n \in Nodes, NEW i \in Ids \cup {None}, NewNode(n, i) PROVE TreeShape'
  <2>1. TypeOK'
    BY <1>1 DEF NewNode, TreeShape, TypeOK, links, shadow, Link
  <2>2. ShadowsAgree'
    BY <1>1 DEF NewNode, TreeShape, TypeOK, ShadowsAgree, links, shadow, Used, IsElement, Link
  <2> QED BY <2>1, <2>2, <1>1, SameTree DEF NewNode
<1>2. ASSUME NEW n \in Nodes, NEW i \in Ids \cup {None}, SetId(n, i) PROVE TreeShape'
  <2>1. TypeOK'
    BY <1>2 DEF SetId, UpdateIdIndex, TreeShape, TypeOK, links, shadow, Link
  <2>2. ShadowsAgree'
    BY <1>2 DEF SetId, TreeShape, ShadowsAgree, links, shadow, Used, IsElement
  <2> QED BY <2>1, <2>2, <1>2, SameTree DEF SetId
<1>3. ASSUME NEW n \in Nodes, NewFragment(n) PROVE TreeShape'
  <2>1. TypeOK'
    BY <1>3 DEF NewFragment, TreeShape, TypeOK, links, shadow, naming
  <2>2. ShadowsAgree'
    BY <1>3 DEF NewFragment, TreeShape, TypeOK, ShadowsAgree, links, shadow, Used, IsElement
  <2> QED BY <2>1, <2>2, <1>3, SameTree DEF NewFragment
<1>4. ASSUME NEW n \in Nodes, RemoveChild(n) PROVE TreeShape'
  <2>1. index' \in [Ids -> Link] /\ clearing' \in Link
    BY <1>4 DEF RemoveChild, TreeShape, TypeOK, Link
  <2>2. CASE Detach(n)
    BY <2>1, <2>2, DetachStep
  <2>3. CASE UNCHANGED <<kind, links, connected, shadow, contents, ident, cssom>>
    <3>1. TypeOK' /\ ShadowsAgree'
      BY <2>1, <2>3 DEF TreeShape, TypeOK, ShadowsAgree, links, shadow, Used, IsElement
    <3> QED BY <2>3, <3>1, SameTree
  <2> QED BY <2>2, <2>3, <1>4 DEF RemoveChild
<1>5. ASSUME NEW n \in Nodes, SetInnerHtml(n) PROVE TreeShape'
  <2>1. TypeOK' /\ ShadowsAgree'
    BY <1>5 DEF SetInnerHtml, TreeShape, TypeOK, ShadowsAgree, links, shadow, naming, Link,
                Used, IsElement
  <2> QED BY <2>1, <1>5, SameTree DEF SetInnerHtml
<1>6. ASSUME NEW n \in Nodes, UpdateCssom(n) PROVE TreeShape'
  <2>1. TypeOK' /\ ShadowsAgree'
    BY <1>6 DEF UpdateCssom, TreeShape, TypeOK, ShadowsAgree, links, shadow, naming, Link,
                Used, IsElement
  <2> QED BY <2>1, <1>6, SameTree DEF UpdateCssom
<1>7. ASSUME NEW h \in Nodes, NEW r \in Nodes, AttachShadowRoot(h, r) PROVE TreeShape'
  <2>1. /\ r # Document /\ parent[r] = None /\ host[r] = None /\ first[r] = None
        /\ root[r] = None /\ kind[r] # "element"
    BY <1>7 DEF AttachShadowRoot, TreeShape, TypeOK, ShadowsAgree, Used, IsElement
  <2>2. index' \in [Ids -> Link] /\ ident' = ident /\ cssom' \subseteq cssom
    BY <1>7 DEF AttachShadowRoot, naming, TreeShape, TypeOK
  <2> QED BY <2>1, <2>2, <1>7, AttachStep DEF AttachShadowRoot
<1>8. ASSUME NEW h \in Nodes, NEW t \in Nodes, AttachDeclarativeShadow(h, t) PROVE TreeShape'
  <2> DEFINE r == contents[t]
  <2>1. /\ r \in Nodes /\ r # Document /\ parent[r] = None /\ host[r] = None
        /\ first[r] = None /\ root[r] = None /\ kind[r] = "fragment"
    BY <1>8 DEF AttachDeclarativeShadow, TreeShape, TypeOK, ShadowsAgree, Fixed, IsElement,
                IsShadowRoot, Link
  <2>2. /\ index' \in [Ids -> Link] /\ ident' = ident /\ cssom' \subseteq cssom
        /\ kind' = [kind EXCEPT ![r] = "fragment"]
    BY <1>8, <2>1 DEF AttachDeclarativeShadow, TreeShape, TypeOK, Link
  <2>3. IsElement(h) /\ root[h] = None /\ AttachShadow(h, r)
    BY <1>8 DEF AttachDeclarativeShadow
  <2> HIDE DEF r
  <2> QED BY <2>1, <2>2, <2>3, AttachStep
<1>9. ASSUME NEW t \in Nodes, NEW n \in Nodes, TemplateContents(t, n) PROVE TreeShape'
  <2>1. TypeOK'
    BY <1>9 DEF TemplateContents, TreeShape, TypeOK, links, shadow, naming, Link
  <2>2. ShadowsAgree'
    BY <1>9 DEF TemplateContents, TreeShape, TypeOK, ShadowsAgree, links, shadow, Used,
                IsElement, Link
  <2> QED BY <2>1, <2>2, <1>9, SameTree DEF TemplateContents
<1>10. ASSUME DetachNext PROVE TreeShape'
  <2>1. /\ first[clearing] \in Nodes /\ index' \in [Ids -> Link] /\ clearing' \in Link
        /\ Detach(first[clearing])
    BY <1>10 DEF DetachNext, TreeShape, TypeOK, Link
  <2> QED BY <2>1, DetachStep
<1>11. ASSUME Cleared PROVE TreeShape'
  <2>1. TypeOK' /\ ShadowsAgree'
    BY <1>11 DEF Cleared, TreeShape, TypeOK, ShadowsAgree, links, shadow, naming, Link,
                 Used, IsElement
  <2> QED BY <2>1, <1>11, SameTree DEF Cleared
<1>12. ASSUME UNCHANGED vars PROVE TreeShape'
  <2>1. TypeOK' /\ ShadowsAgree'
    BY <1>12 DEF vars, TreeShape, TypeOK, ShadowsAgree, links, shadow, naming, Used, IsElement
  <2> QED BY <2>1, <1>12, SameTree DEF vars
<1> QED
  BY <1>1, <1>2, <1>3, <1>4, <1>5, <1>6, <1>7, <1>8, <1>9, <1>10, <1>11, <1>12,
     AppendStep, InsertStep DEF Next

LEMMA InitTree ==
  ASSUME Init
  PROVE  TreeShape
<1> USE TreeAssumption DEF Init, NoLinks
<1>1. TypeOK
  BY DEF TypeOK, Link
<1>2. Linked(parent, first, last, prev, next)
  BY DEF Linked
<1>3. ShadowsAgree
  BY DEF ShadowsAgree, Used
<1>4. \A x \in Nodes : Up(x) = None
  BY DEF Up
<1>5. Grounded(prev)
  BY DEF Grounded
<1>6. Grounded(Ups)
  BY <1>4 DEF Grounded, Ups
<1>7. ConnectedAgree
  BY <1>4 DEF ConnectedAgree
<1> QED BY <1>1, <1>2, <1>3, <1>5, <1>6, <1>7, InvOfParts

\* While scripts do not move the document itself, the tree stays a tree: lists and
\* parents agree, no walk goes round, a node is connected when what is above it is,
\* and shadow roots belong to their hosts (append_child, insert_before, detach,
\* attach_shadow_root and set_subtree_connected of tree.rs).
THEOREM ShapeInvariance ==
  ASSUME DocumentMoves = FALSE
  PROVE  Spec => []TreeShape
<1>1. Init => TreeShape
  BY InitTree
<1>2. TreeShape /\ [Next]_vars => TreeShape'
  BY NextKeepsTree
<1> QED BY <1>1, <1>2, PTL DEF Spec

\* A connected node has the document above it, and a node with the document above
\* it is connected: what isConnected reads is what the walk over parents and hosts
\* would find.
THEOREM ConnectedMeansBelowDocument ==
  ASSUME TreeShape, NEW x \in Nodes
  PROVE  connected[x] <=> Document \in Above(x)
<1> USE TreeAssumption, UpTyped DEF TreeShape, Link
<1> DEFINE Agree == {z \in Nodes : connected[z] <=> Document \in Above(z)}
           S == Nodes \ Agree
<1> SUFFICES ASSUME x \in S PROVE FALSE
  OBVIOUS
<1>1. PICK z \in S : Up(z) \notin S
  <2>1. S \in (SUBSET Nodes) \ {{}}
    OBVIOUS
  <2> QED BY <2>1 DEF NoCycles
<1>2. connected[z] = IF Up(z) = None THEN z = Document ELSE connected[Up(z)]
  BY DEF ConnectedAgree
<1>3. CASE Up(z) = None
  <2>1. z # Document => Document \notin Above(z)
    BY <1>3, AboveStep
  <2>2. z = Document => Document \in Above(z)
    BY AboveFacts
  <2> QED BY <1>1, <1>2, <1>3, <2>1, <2>2
<1>4. CASE Up(z) # None
  <2>1. z # Document
    BY <1>4 DEF ShadowsAgree, Up, IsElement
  <2>2. Document \in Above(z) <=> Document \in Above(Up(z))
    BY <1>4, <2>1, AboveStep
  <2>3. Up(z) \in Agree
    BY <1>1, <1>4
  <2> QED BY <1>1, <1>2, <1>4, <2>2, <2>3
<1> QED BY <1>3, <1>4

\* The list of n's children: from the first along the links of the next ones.
Partly(F, X, n, s) ==
  /\ s \in Seq(Nodes)
  /\ s # <<>> => s[1] = F[n]
  /\ \A k \in 1 .. Len(s) - 1 : s[k + 1] = X[s[k]]
Ends(F, X, n, s) == IF s = <<>> THEN F[n] = None ELSE X[s[Len(s)]] = None
Listed(F, X, n, s) == Partly(F, X, n, s) /\ Ends(F, X, n, s)

LEMMA ListedOnce ==
  ASSUME NEW F, NEW X, NEW n \in Nodes, NEW s, NEW t,
         Listed(F, X, n, s), Listed(F, X, n, t)
  PROVE  Len(s) <= Len(t) /\ \A k \in 1 .. Len(s) : s[k] = t[k]
<1> USE TreeAssumption DEF Listed, Partly, Ends
<1> DEFINE N == Len(s)
           T == {k \in 0 .. N : k <= Len(t) /\ (k > 0 => s[k] = t[k])}
<1>0. N \in Nat /\ Len(t) \in Nat /\ N \in 0 .. N
  OBVIOUS
<1>1. 0 \in T
  BY <1>0
<1>2. ASSUME NEW k \in 0 .. N, k # N, k \in T PROVE k + 1 \in T
  <2>1. CASE k = 0
    <3>1. s[1] \in Nodes /\ s[1] = F[n] /\ s # <<>>
      BY <1>2, <2>1
    <3>2. t # <<>>
      BY <3>1
    <3> QED BY <3>1, <3>2, <2>1, <1>2
  <2>2. CASE k # 0
    <3>1. s[k + 1] \in Nodes /\ s[k + 1] = X[s[k]] /\ s[k] = t[k] /\ t # <<>>
      BY <1>2, <2>2
    <3>2. k # Len(t)
      BY <3>1
    <3>3. t[k + 1] = X[t[k]]
      BY <3>2, <2>2, <1>2
    <3> QED BY <3>1, <3>2, <3>3, <1>2, <2>2
  <2> QED BY <2>1, <2>2
<1>3. 0 .. N \subseteq T
  <2> HIDE DEF T, N
  <2> QED BY <1>0, <1>1, <1>2, UpTo
<1> QED BY <1>0, <1>3

LEMMA SameList ==
  ASSUME NEW F, NEW X, NEW n \in Nodes, NEW s, NEW t,
         Listed(F, X, n, s), Listed(F, X, n, t)
  PROVE  s = t
<1>1. Len(s) <= Len(t) /\ Len(t) <= Len(s) /\ \A k \in 1 .. Len(s) : s[k] = t[k]
  BY ListedOnce
<1>2. s \in Seq(Nodes) /\ t \in Seq(Nodes)
  BY DEF Listed, Partly
<1>3. Len(s) = Len(t)
  BY <1>1, <1>2
<1> QED BY <1>1, <1>2, <1>3, SeqEqual

\* What is in the list has n for parent.
LEMMA ListedChildren ==
  ASSUME NEW P \in Pointers, NEW F \in Pointers, NEW L \in Pointers,
         NEW V \in Pointers, NEW X \in Pointers, Linked(P, F, L, V, X),
         NEW n \in Nodes, NEW s, Partly(F, X, n, s)
  PROVE  \A k \in 1 .. Len(s) : /\ s[k] \in Nodes /\ P[s[k]] = n
                                /\ V[s[k]] = IF k = 1 THEN None ELSE s[k - 1]
<1> USE TreeAssumption DEF Partly, Pointers, Link
<1> DEFINE N == Len(s)
           T == {k \in 0 .. N : k > 0 => P[s[k]] = n /\ V[s[k]] = IF k = 1 THEN None ELSE s[k - 1]}
<1>0. N \in Nat /\ N \in 0 .. N
  OBVIOUS
<1>1. 0 \in T
  BY <1>0
<1>2. ASSUME NEW k \in 0 .. N, k # N, k \in T PROVE k + 1 \in T
  <2>1. CASE k = 0
    <3>1. s[1] \in Nodes /\ s[1] = F[n]
      BY <1>2, <2>1
    <3> QED BY <3>1, <2>1, <1>2 DEF Linked
  <2>2. CASE k # 0
    <3>1. s[k + 1] \in Nodes /\ s[k + 1] = X[s[k]] /\ s[k] \in Nodes /\ P[s[k]] = n
      BY <1>2, <2>2
    <3>2. V[s[k + 1]] = s[k] /\ P[s[k + 1]] = n
      BY <3>1 DEF Linked
    <3> QED BY <3>2, <1>2, <2>2
  <2> QED BY <2>1, <2>2
<1>3. 0 .. N \subseteq T
  <2> HIDE DEF T, N
  <2> QED BY <1>0, <1>1, <1>2, UpTo
<1> QED BY <1>0, <1>3

LEMMA NoRepeats ==
  ASSUME NEW P \in Pointers, NEW F \in Pointers, NEW L \in Pointers,
         NEW V \in Pointers, NEW X \in Pointers, Linked(P, F, L, V, X),
         NEW n \in Nodes, NEW s, Partly(F, X, n, s)
  PROVE  \A i, j \in 1 .. Len(s) : s[i] = s[j] => i = j
<1> USE TreeAssumption
<1> DEFINE T == {i \in 1 .. Len(s) : \E j \in 1 .. Len(s) : i < j /\ s[i] = s[j]}
<1>0. /\ \A k \in 1 .. Len(s) : /\ s[k] \in Nodes
                                /\ V[s[k]] = IF k = 1 THEN None ELSE s[k - 1]
      /\ Len(s) \in Nat
  BY ListedChildren DEF Partly
<1>1. ASSUME T # {} PROVE FALSE
  <2>1. PICK i \in T : \A k \in T : i <= k
    <3>1. T \in SUBSET Nat
      OBVIOUS
    <3> QED BY <1>1, <3>1, LeastElement
  <2>2. PICK j \in 1 .. Len(s) : i < j /\ s[i] = s[j]
    BY <2>1
  <2>3. j # 1 /\ V[s[j]] = s[j - 1] /\ s[j - 1] \in Nodes /\ s[i] \in Nodes
    BY <1>0, <2>2
  <2>4. i # 1
    BY <1>0, <2>2, <2>3
  <2>5. s[i - 1] = s[j - 1]
    BY <1>0, <2>2, <2>3, <2>4
  <2>6. i - 1 \in T
    BY <2>2, <2>3, <2>4, <2>5, <1>0
  <2> QED BY <2>1, <2>6
<1> QED BY <1>0, <1>1

LEMMA ListedAll ==
  ASSUME NEW P \in Pointers, NEW F \in Pointers, NEW L \in Pointers,
         NEW V \in Pointers, NEW X \in Pointers, Linked(P, F, L, V, X), Grounded(V),
         NEW n \in Nodes, NEW s, Listed(F, X, n, s), NEW x \in Nodes, P[x] = n
  PROVE  \E k \in 1 .. Len(s) : s[k] = x
<1> USE TreeAssumption DEF Listed, Partly, Ends, Pointers, Link
<1> DEFINE In == {s[k] : k \in 1 .. Len(s)}
           S == {m \in Nodes : P[m] = n /\ m \notin In}
<1> SUFFICES ASSUME x \in S PROVE FALSE
  OBVIOUS
<1>1. PICK m \in S : V[m] \notin S
  <2>1. S \in (SUBSET Nodes) \ {{}}
    OBVIOUS
  <2> QED BY <2>1 DEF Grounded
<1>2. CASE V[m] = None
  <2>1. F[n] = m
    BY <1>1, <1>2 DEF Linked
  <2>2. s # <<>> /\ s[1] = m /\ 1 \in 1 .. Len(s)
    BY <2>1
  <2> QED BY <2>2, <1>1
<1>3. CASE V[m] # None
  <2>1. V[m] \in Nodes /\ X[V[m]] = m /\ P[V[m]] = n
    BY <1>1, <1>3 DEF Linked
  <2>2. PICK k \in 1 .. Len(s) : s[k] = V[m]
    BY <2>1, <1>1
  <2>3. k # Len(s)
    BY <2>1, <2>2
  <2>4. s[k + 1] = m /\ k + 1 \in 1 .. Len(s)
    BY <2>1, <2>2, <2>3
  <2> QED BY <2>4, <1>1
<1> QED BY <1>2, <1>3

\* The recursive function of Children: there is one.
Run(X, N, f) ==
  f = [k \in 0 .. N |->
         [x \in Link |-> IF x = None \/ k = 0 THEN <<>> ELSE <<x>> \o f[k - 1][X[x]]]]

LEMMA RunAt ==
  ASSUME NEW X, NEW N, NEW f, Run(X, N, f), NEW x \in Link, NEW k \in 0 .. N
  PROVE  f[k][x] = IF x = None \/ k = 0 THEN <<>> ELSE <<x>> \o f[k - 1][X[x]]
<1>1. f[k] = [z \in Link |-> IF z = None \/ k = 0 THEN <<>> ELSE <<z>> \o f[k - 1][X[z]]]
  BY Zenon DEF Run
<1> QED BY <1>1, Zenon

LEMMA RunExists ==
  ASSUME NEW X \in Pointers, NEW N \in Nat
  PROVE  \E f : Run(X, N, f)
<1> USE TreeAssumption DEF Pointers, Link
<1> DEFINE T == {m \in 0 .. N : \E f : Run(X, m, f)}
<1>0. N \in 0 .. N
  OBVIOUS
<1>1. 0 \in T
  <2>1. Run(X, 0, [k \in 0 .. 0 |-> [x \in Link |-> <<>>]])
    BY DEF Run
  <2> QED BY <2>1
<1>2. ASSUME NEW m \in 0 .. N, m # N, m \in T PROVE m + 1 \in T
  <2>1. PICK f : Run(X, m, f)
    BY <1>2
  <2> DEFINE g == [k \in 0 .. m + 1 |->
                     [x \in Link |-> IF x = None \/ k = 0 THEN <<>>
                                      ELSE <<x>> \o f[k - 1][X[x]]]]
  <2>2. ASSUME NEW x \in Link, NEW k \in 0 .. m PROVE g[k][x] = f[k][x]
    <3>1. f[k][x] = IF x = None \/ k = 0 THEN <<>> ELSE <<x>> \o f[k - 1][X[x]]
      BY <2>1, RunAt
    <3>2. k \in 0 .. m + 1
      OBVIOUS
    <3>3. g[k][x] = IF x = None \/ k = 0 THEN <<>> ELSE <<x>> \o f[k - 1][X[x]]
      BY <3>2
    <3> QED BY <3>1, <3>3
  <2>3. ASSUME NEW x \in Link, NEW k \in 0 .. m + 1, ~(x = None \/ k = 0)
        PROVE  f[k - 1][X[x]] = g[k - 1][X[x]]
    <3>1. X[x] \in Link /\ k - 1 \in 0 .. m
      BY <2>3
    <3> HIDE DEF g
    <3> QED BY <3>1, <2>2
  <2>4. g = [k \in 0 .. m + 1 |->
               [x \in Link |-> IF x = None \/ k = 0 THEN <<>>
                                ELSE <<x>> \o g[k - 1][X[x]]]]
    <3>1. ASSUME NEW k \in 0 .. m + 1
          PROVE  [x \in Link |-> IF x = None \/ k = 0 THEN <<>> ELSE <<x>> \o f[k - 1][X[x]]]
                 = [x \in Link |-> IF x = None \/ k = 0 THEN <<>> ELSE <<x>> \o g[k - 1][X[x]]]
      <4> HIDE DEF g
      <4> QED BY <2>3
    <3> DEFINE h == [k \in 0 .. m + 1 |->
                       [x \in Link |-> IF x = None \/ k = 0 THEN <<>>
                                        ELSE <<x>> \o g[k - 1][X[x]]]]
    <3>2. g = h
      BY <3>1, Zenon
    <3> QED BY <3>2, Zenon
  <2>5. Run(X, m + 1, g)
    BY <2>4 DEF Run
  <2> QED BY <2>5, <1>2
<1>3. 0 .. N \subseteq T
  <2> HIDE DEF T
  <2> QED BY <1>0, <1>1, <1>2, UpTo
<1> QED BY <1>0, <1>3

LEMMA Cons ==
  ASSUME NEW x \in Nodes, NEW t \in Seq(Nodes)
  PROVE  /\ <<x>> \o t \in Seq(Nodes) /\ <<x>> \o t # <<>>
         /\ Len(<<x>> \o t) = Len(t) + 1 /\ (<<x>> \o t)[1] = x
         /\ \A i \in 1 .. Len(t) : (<<x>> \o t)[i + 1] = t[i]
  OBVIOUS

\* What it returns for x and k: the path along X from x, if need be cut off after k.
LEMMA RunPath ==
  ASSUME NEW X \in Pointers, NEW N \in Nat, NEW f, Run(X, N, f),
         NEW y \in Link
  PROVE  /\ f[N][y] \in Seq(Nodes)
         /\ f[N][y] # <<>> => f[N][y][1] = y
         /\ \A i \in 1 .. Len(f[N][y]) - 1 : f[N][y][i + 1] = X[f[N][y][i]]
         /\ Len(f[N][y]) < N => IF f[N][y] = <<>> THEN y = None
                                ELSE X[f[N][y][Len(f[N][y])]] = None
<1>a. ASSUME NEW x \in Link, NEW k \in 0 .. N
      PROVE  f[k][x] = IF x = None \/ k = 0 THEN <<>> ELSE <<x>> \o f[k - 1][X[x]]
  BY RunAt
<1> USE TreeAssumption DEF Pointers, Link
<1> DEFINE P(s, x, k) ==
             /\ s \in Seq(Nodes)
             /\ s # <<>> => s[1] = x
             /\ \A i \in 1 .. Len(s) - 1 : s[i + 1] = X[s[i]]
             /\ Len(s) < k => IF s = <<>> THEN x = None ELSE X[s[Len(s)]] = None
           T == {k \in 0 .. N : \A x \in Link : P(f[k][x], x, k)}
<1>0. N \in 0 .. N /\ 0 \in 0 .. N
  OBVIOUS
<1>1. 0 \in T
  <2>1. ASSUME NEW x \in Link PROVE P(f[0][x], x, 0)
    <3>1. f[0][x] = <<>>
      BY <1>0, <1>a
    <3>2. P(<<>>, x, 0)
      OBVIOUS
    <3> QED BY <3>1, <3>2
  <2> QED BY <2>1, <1>0
<1>2. ASSUME NEW k \in 0 .. N, k # N, k \in T PROVE k + 1 \in T
  <2> SUFFICES ASSUME NEW x \in Link PROVE P(f[k + 1][x], x, k + 1)
    BY <1>2
  <2>0. k + 1 \in 0 .. N
    BY <1>2
  <2>1. CASE x = None
    <3>1. f[k + 1][x] = <<>>
      BY <2>1, <2>0, <1>a
    <3> QED BY <3>1, <2>1
  <2>2. CASE x # None
    <3> DEFINE t == f[k][X[x]]
    <3>1. f[k + 1][x] = <<x>> \o t
      <4>1. (k + 1) - 1 = k
        OBVIOUS
      <4>2. f[k + 1][x] = IF x = None \/ k + 1 = 0 THEN <<>>
                          ELSE <<x>> \o f[(k + 1) - 1][X[x]]
        BY <2>0, <1>a
      <4> QED BY <4>1, <4>2, <2>2
    <3>2. x \in Nodes /\ X[x] \in Link
      BY <2>2
    <3>3. P(t, X[x], k)
      BY <3>2, <1>2
    <3> HIDE DEF t
    <3>4. P(<<x>> \o t, x, k + 1)
      <4> DEFINE s == <<x>> \o t
      <4>1. /\ s \in Seq(Nodes) /\ s # <<>> /\ Len(s) = Len(t) + 1 /\ s[1] = x
            /\ \A i \in 1 .. Len(t) : s[i + 1] = t[i]
        BY <3>2, <3>3, Cons
      <4> HIDE DEF s
      <4>2. ASSUME NEW i \in 1 .. Len(s) - 1 PROVE s[i + 1] = X[s[i]]
        <5>1. CASE i = 1
          BY <5>1, <4>1, <4>2, <3>3
        <5>2. CASE i # 1
          <6>1. i - 1 \in 1 .. Len(t) - 1 /\ i \in 1 .. Len(t)
            BY <5>2, <4>1, <4>2, <3>3
          <6>2. t[(i - 1) + 1] = X[t[i - 1]]
            BY <6>1, <3>3
          <6>3. s[(i - 1) + 1] = t[i - 1] /\ (i - 1) + 1 = i
            BY <6>1, <4>1, <3>3
          <6>4. s[i + 1] = t[i]
            BY <6>1, <4>1
          <6> QED BY <6>2, <6>3, <6>4
        <5> QED BY <5>1, <5>2
      <4>3. Len(s) < k + 1 => X[s[Len(s)]] = None
        <5> SUFFICES ASSUME Len(s) < k + 1 PROVE X[s[Len(s)]] = None
          OBVIOUS
        <5>1. Len(t) < k
          BY <4>1, <3>3
        <5>2. CASE t = <<>>
          BY <5>1, <5>2, <4>1, <3>3
        <5>3. CASE t # <<>>
          <6>1. Len(t) \in 1 .. Len(t)
            BY <5>3, <3>3
          <6> QED BY <6>1, <5>1, <5>3, <4>1, <3>3
        <5> QED BY <5>2, <5>3
      <4>4. P(s, x, k + 1)
        BY <4>1, <4>2, <4>3
      <4> QED BY <4>4 DEF s
    <3> QED BY <3>1, <3>4
  <2> QED BY <2>1, <2>2
<1>3. 0 .. N \subseteq T
  <2> HIDE DEF T
  <2> QED BY <1>0, <1>1, <1>2, UpTo
<1>4. P(f[N][y], y, N)
  BY <1>0, <1>3
<1> QED BY <1>4

LEMMA NoLongerThanNodes ==
  ASSUME NEW s \in Seq(Nodes), \A i, j \in 1 .. Len(s) : s[i] = s[j] => i = j
  PROVE  Len(s) < Cardinality(Nodes) + 1
<1> DEFINE S == 1 .. Len(s)
<1>0. Cardinality(Nodes) \in Nat /\ IsFiniteSet(Nodes)
  BY TreeAssumption, FS_CardinalityType
<1>1. IsFiniteSet(S) /\ Cardinality(S) = Len(s)
  <2>1. 1 \in Int /\ Len(s) \in Int /\ Len(s) \in Nat
    OBVIOUS
  <2>2. /\ IsFiniteSet(S)
        /\ Cardinality(S) = IF 1 > Len(s) THEN 0 ELSE Len(s) - 1 + 1
    BY <2>1, FS_Interval
  <2> QED BY <2>1, <2>2
<1>2. s \in [S -> Nodes]
  OBVIOUS
<1>3. ASSUME Cardinality(Nodes) < Cardinality(S) PROVE FALSE
  <2>1. \E x, y \in S : x # y /\ s[x] = s[y]
    BY <1>0, <1>1, <1>2, <1>3, FS_PigeonHole
  <2> QED BY <2>1
<1> QED BY <1>0, <1>1, <1>3

LEMMA ChildrenRun ==
  TypeOK => \A n \in Nodes : \E f : /\ Run(next, Cardinality(Nodes) + 1, f)
                                    /\ Children(n) = f[Cardinality(Nodes) + 1][first[n]]
<1> SUFFICES ASSUME TypeOK, NEW n \in Nodes
             PROVE  \E f : /\ Run(next, Cardinality(Nodes) + 1, f)
                           /\ Children(n) = f[Cardinality(Nodes) + 1][first[n]]
  OBVIOUS
<1> DEFINE N == Cardinality(Nodes) + 1
           f == CHOOSE f : f = [k \in 0 .. N |->
                  [x \in Link |-> IF x = None \/ k = 0 THEN <<>>
                                  ELSE <<x>> \o f[k - 1][next[x]]]]
<1>1. Children(n) = f[N][first[n]]
  BY DEF Children
<1>2. N \in Nat /\ next \in Pointers
  BY TreeAssumption, FS_CardinalityType DEF TypeOK, Pointers
<1>3. Run(next, N, f)
  <2>1. \E g : Run(next, N, g)
    <3> HIDE DEF N
    <3> QED BY <1>2, RunExists
  <2>2. \E g : g = [k \in 0 .. N |->
                  [x \in Link |-> IF x = None \/ k = 0 THEN <<>>
                                  ELSE <<x>> \o g[k - 1][next[x]]]]
    BY <2>1, Zenon DEF Run
  <2> HIDE DEF N
  <2> QED BY <2>2, Zenon DEF Run
<1> QED BY <1>1, <1>3

\* children() gives the whole list: the bound in it is never reached.
LEMMA ChildrenListed ==
  TreeShape => \A n \in Nodes : Listed(first, next, n, Children(n))
<1> SUFFICES ASSUME TreeShape, NEW n \in Nodes PROVE Listed(first, next, n, Children(n))
  OBVIOUS
<1> DEFINE N == Cardinality(Nodes) + 1
           s == Children(n)
<1>1. /\ parent \in Pointers /\ first \in Pointers /\ last \in Pointers
      /\ prev \in Pointers /\ next \in Pointers /\ first[n] \in Link
      /\ Linked(parent, first, last, prev, next)
  BY InvOfParts DEF TypeOK, Pointers
<1>2. N \in Nat
  BY TreeAssumption, FS_CardinalityType
<1>3. PICK f : Run(next, N, f) /\ s = f[N][first[n]]
  BY ChildrenRun DEF TreeShape
<1>4. /\ s \in Seq(Nodes)
      /\ s # <<>> => s[1] = first[n]
      /\ \A i \in 1 .. Len(s) - 1 : s[i + 1] = next[s[i]]
      /\ Len(s) < N => IF s = <<>> THEN first[n] = None ELSE next[s[Len(s)]] = None
  <2> HIDE DEF N, s
  <2> QED BY <1>1, <1>2, <1>3, RunPath
<1> HIDE DEF s
<1>5. Partly(first, next, n, s)
  BY <1>4 DEF Partly
<1>6. \A i, j \in 1 .. Len(s) : s[i] = s[j] => i = j
  BY <1>1, <1>5, NoRepeats
<1>7. Len(s) < N
  BY <1>4, <1>6, NoLongerThanNodes
<1>8. Listed(first, next, n, s)
  <2> HIDE DEF N
  <2> QED BY <1>4, <1>5, <1>7 DEF Listed, Ends
<1> QED BY <1>8 DEF s

Distinct(s) == \A i, j \in 1 .. Len(s) : s[i] = s[j] => i = j

LEMMA Glued ==
  ASSUME NEW a \in Seq(Nodes), NEW b \in Seq(Nodes)
  PROVE  /\ a \o b \in Seq(Nodes) /\ Len(a \o b) = Len(a) + Len(b)
         /\ \A k \in 1 .. Len(a) + Len(b) :
              (a \o b)[k] = IF k <= Len(a) THEN a[k] ELSE b[k - Len(a)]
  OBVIOUS

LEMMA AtIs ==
  ASSUME NEW s \in Seq(Nodes), Distinct(s), NEW i \in 1 .. Len(s)
  PROVE  Promise!At(s, s[i]) = i
  BY DEF Promise!At, Distinct

LEMMA WithoutAt ==
  ASSUME NEW s \in Seq(Nodes), Distinct(s), NEW i \in 1 .. Len(s)
  PROVE  LET t == Promise!Without(s, s[i])
         IN  /\ t \in Seq(Nodes) /\ Len(t) = Len(s) - 1
             /\ \A k \in 1 .. Len(t) : t[k] = IF k < i THEN s[k] ELSE s[k + 1]
<1>1. s[i] \in Promise!Items(s)
  BY DEF Promise!Items
<1>2. Promise!Without(s, s[i]) = SubSeq(s, 1, i - 1) \o SubSeq(s, i + 1, Len(s))
  BY <1>1, AtIs DEF Promise!Without
<1> DEFINE a == SubSeq(s, 1, i - 1)
           b == SubSeq(s, i + 1, Len(s))
<1>3. /\ a \in Seq(Nodes) /\ Len(a) = i - 1
      /\ \A k \in 1 .. i - 1 : a[k] = s[k]
  OBVIOUS
<1>4. /\ b \in Seq(Nodes) /\ Len(b) = Len(s) - i
      /\ \A k \in 1 .. Len(s) - i : b[k] = s[k + i]
  OBVIOUS
<1> HIDE DEF a, b
<1>5. a \o b \in Seq(Nodes) /\ Len(a \o b) = Len(s) - 1
  <2>1. Len(a \o b) = Len(a) + Len(b)
    BY <1>3, <1>4, Glued
  <2> QED BY <1>3, <1>4, <2>1, Glued
<1>6. ASSUME NEW k \in 1 .. Len(a \o b) PROVE (a \o b)[k] = IF k < i THEN s[k] ELSE s[k + 1]
  <2>1. k \in 1 .. Len(a) + Len(b) /\ k \in 1 .. Len(s) - 1
    BY <1>3, <1>4, <1>5
  <2>2. (a \o b)[k] = IF k <= Len(a) THEN a[k] ELSE b[k - Len(a)]
    BY <1>3, <1>4, <2>1, Glued
  <2>3. CASE k < i
    BY <2>1, <2>2, <2>3, <1>3
  <2>4. CASE k >= i
    <3>1. k - (i - 1) \in 1 .. Len(s) - i /\ k - (i - 1) + i = k + 1
      BY <2>1, <2>4
    <3> QED BY <2>1, <2>2, <2>4, <3>1, <1>3, <1>4
  <2> QED BY <2>1, <2>3, <2>4
<1> QED BY <1>2, <1>5, <1>6 DEF a, b

LEMMA BeforeAt ==
  ASSUME NEW s \in Seq(Nodes), Distinct(s), NEW i \in 1 .. Len(s), NEW n \in Nodes
  PROVE  LET t == Promise!Before(s, s[i], n)
         IN  /\ t \in Seq(Nodes) /\ Len(t) = Len(s) + 1
             /\ \A k \in 1 .. Len(t) :
                  t[k] = IF k < i THEN s[k] ELSE IF k = i THEN n ELSE s[k - 1]
<1> DEFINE a == SubSeq(s, 1, i - 1)
           b == SubSeq(s, i, Len(s))
<1>2. Promise!Before(s, s[i], n) = a \o <<n>> \o b
  BY AtIs DEF Promise!Before
<1>3. /\ a \in Seq(Nodes) /\ Len(a) = i - 1
      /\ \A k \in 1 .. i - 1 : a[k] = s[k]
  OBVIOUS
<1>4. /\ b \in Seq(Nodes) /\ Len(b) = Len(s) - i + 1
      /\ \A k \in 1 .. Len(b) : b[k] = s[k + i - 1]
  OBVIOUS
<1> HIDE DEF a, b
<1>5. /\ a \o <<n>> \in Seq(Nodes) /\ Len(a \o <<n>>) = i
      /\ \A k \in 1 .. i : (a \o <<n>>)[k] = IF k < i THEN s[k] ELSE n
  BY <1>3
<1> DEFINE c == a \o <<n>>
<1> HIDE DEF c
<1>6. c \o b \in Seq(Nodes) /\ Len(c \o b) = Len(s) + 1
  <2>1. c \in Seq(Nodes) /\ Len(c) = i
    BY <1>5 DEF c
  <2>2. Len(c \o b) = Len(c) + Len(b)
    BY <2>1, <1>4, Glued
  <2> QED BY <2>1, <2>2, <1>4, Glued
<1>7. ASSUME NEW k \in 1 .. Len(c \o b)
      PROVE  (c \o b)[k] = IF k < i THEN s[k] ELSE IF k = i THEN n ELSE s[k - 1]
  <2>1. /\ c \in Seq(Nodes) /\ Len(c) = i
        /\ \A j \in 1 .. i : c[j] = IF j < i THEN s[j] ELSE n
    BY <1>5 DEF c
  <2>2. (c \o b)[k] = IF k <= i THEN c[k] ELSE b[k - i]
    <3>1. k \in 1 .. Len(c) + Len(b)
      BY <1>4, <1>6, <2>1
    <3> QED BY <1>4, <2>1, <3>1, Glued
  <2>3. k > i => k - i \in 1 .. Len(b) /\ s[(k - i) + i - 1] = s[k - 1]
    BY <1>4, <1>6
  <2> QED BY <1>4, <1>6, <2>1, <2>2, <2>3
<1> QED BY <1>2, <1>6, <1>7 DEF c

\* Taking n out.
LEMMA ListedWithout ==
  ASSUME NEW P \in Pointers, NEW F \in Pointers, NEW L \in Pointers,
         NEW V \in Pointers, NEW X \in Pointers, Linked(P, F, L, V, X), Grounded(V),
         NEW n \in Nodes, NEW m \in Nodes, NEW s, Listed(F, X, m, s)
  PROVE  Listed(EndOff(P, F, V, X, n), SideOff(X, V, n), m, Promise!Without(s, n))
<1> DEFINE F1 == EndOff(P, F, V, X, n)
           X1 == SideOff(X, V, n)
<1> USE TreeAssumption
<1>1. /\ s \in Seq(Nodes) /\ Distinct(s)
      /\ s # <<>> => s[1] = F[m] /\ X[s[Len(s)]] = None
      /\ s = <<>> => F[m] = None
      /\ \A k \in 1 .. Len(s) - 1 : s[k + 1] = X[s[k]]
  BY NoRepeats DEF Listed, Partly, Ends, Distinct
<1>2. \A k \in 1 .. Len(s) : /\ s[k] \in Nodes /\ P[s[k]] = m
                             /\ V[s[k]] = IF k = 1 THEN None ELSE s[k - 1]
  BY ListedChildren DEF Listed
<1>3. /\ \A x \in Nodes : /\ F1[x] = IF x = P[n] /\ V[n] = None THEN X[n] ELSE F[x]
                          /\ X1[x] = IF x = n THEN None ELSE IF x = V[n] THEN X[n] ELSE X[x]
  BY DEF EndOff, SideOff
<1>4. CASE P[n] # m
  <2>1. \A k \in 1 .. Len(s) : s[k] # n /\ s[k] # V[n]
    BY <1>2, <1>4 DEF Linked
  <2>2. Promise!Without(s, n) = s
    BY <2>1, <1>1 DEF Promise!Without, Promise!Items
  <2>3. F1[m] = F[m] /\ \A k \in 1 .. Len(s) : X1[s[k]] = X[s[k]]
    BY <1>2, <1>3, <1>4, <2>1
  <2> HIDE DEF F1, X1
  <2>4. Listed(F1, X1, m, s)
    <3>1. s # <<>> => 1 \in 1 .. Len(s) /\ Len(s) \in 1 .. Len(s)
      BY <1>1
    <3> QED BY <3>1, <1>1, <2>3 DEF Listed, Partly, Ends
  <2> QED BY <2>2, <2>4 DEF F1, X1
<1>5. CASE P[n] = m
  <2>1. PICK i \in 1 .. Len(s) : s[i] = n
    BY <1>5, ListedAll
  <2> DEFINE t == Promise!Without(s, n)
  <2>2. /\ t \in Seq(Nodes) /\ Len(t) = Len(s) - 1
        /\ \A k \in 1 .. Len(t) : t[k] = IF k < i THEN s[k] ELSE s[k + 1]
    BY <1>1, <2>1, WithoutAt
  <2>3. /\ V[n] = IF i = 1 THEN None ELSE s[i - 1]
        /\ X[n] = IF i = Len(s) THEN None ELSE s[i + 1]
    BY <1>1, <1>2, <2>1
  <2> HIDE DEF t, F1, X1
  <2>4. Partly(F1, X1, m, t)
    <3>1. ASSUME t # <<>> PROVE t[1] = F1[m]
      <4>1. 1 \in 1 .. Len(t) /\ 1 \in 1 .. Len(s)
        BY <3>1, <2>2, <1>1
      <4>2. CASE i = 1
        BY <4>1, <4>2, <1>1, <1>3, <1>5, <2>2, <2>3
      <4>3. CASE i # 1
        <5>1. V[n] # None
          BY <4>3, <1>2, <2>1, <2>3
        <5> QED BY <5>1, <4>1, <4>3, <1>1, <1>3, <2>1, <2>2
      <4> QED BY <4>2, <4>3
    <3>2. ASSUME NEW k \in 1 .. Len(t) - 1 PROVE t[k + 1] = X1[t[k]]
      <4>0. k \in 1 .. Len(t) /\ k + 1 \in 1 .. Len(t) /\ k + 1 \in 1 .. Len(s) /\ k \in 1 .. Len(s)
            /\ k + 1 + 1 \in 1 .. Len(s) /\ k \in 1 .. Len(s) - 1 /\ k + 1 \in 1 .. Len(s) - 1
        BY <2>2, <1>1
      <4>1. CASE k + 1 < i
        <5>1. t[k] = s[k] /\ t[k + 1] = s[k + 1] /\ s[k + 1] = X[s[k]]
          BY <4>0, <4>1, <2>2, <1>1
        <5>2. s[k] # n /\ s[k] # V[n]
          <6>1. i - 1 \in 1 .. Len(s) /\ k # i - 1 /\ k # i /\ i # 1
            BY <4>0, <4>1
          <6> QED BY <6>1, <4>0, <2>1, <2>3, <1>1 DEF Distinct
        <5> QED BY <5>1, <5>2, <4>0, <1>2, <1>3
      <4>2. CASE k + 1 = i
        <5>1. t[k] = s[k] /\ t[k + 1] = s[i + 1]
          BY <4>0, <4>2, <2>2, <1>1
        <5>2. V[n] = s[k] /\ X[n] = s[i + 1] /\ s[k] # n
          BY <4>0, <4>2, <2>1, <2>3, <1>1 DEF Distinct
        <5> QED BY <5>1, <5>2, <4>0, <1>2, <1>3
      <4>3. CASE k + 1 > i
        <5>1. t[k] = s[k + 1] /\ t[k + 1] = s[k + 1 + 1] /\ s[k + 1 + 1] = X[s[k + 1]]
          BY <4>0, <4>3, <2>2, <1>1
        <5>2. s[k + 1] # n /\ s[k + 1] # V[n]
          <6>1. k + 1 # i /\ (i # 1 => i - 1 \in 1 .. Len(s) /\ k + 1 # i - 1)
            BY <4>0, <4>3
          <6> QED BY <6>1, <4>0, <2>1, <2>3, <1>1, <1>2 DEF Distinct
        <5> QED BY <5>1, <5>2, <4>0, <1>2, <1>3
      <4> QED BY <4>1, <4>2, <4>3, <2>1
    <3> QED BY <3>1, <3>2, <2>2 DEF Partly
  <2>5. Ends(F1, X1, m, t)
    <3>1. CASE t = <<>>
      <4>1. Len(s) = 1 /\ i = 1
        BY <3>1, <2>1, <2>2, <1>1
      <4> QED BY <4>1, <3>1, <2>3, <1>3, <1>5 DEF Ends
    <3>2. CASE t # <<>>
      <4>0. Len(t) \in 1 .. Len(t) /\ Len(s) \in 1 .. Len(s) /\ Len(t) \in 1 .. Len(s)
            /\ Len(t) + 1 = Len(s)
        BY <3>2, <2>2, <1>1
      <4>1. CASE i = Len(s)
        <5>1. t[Len(t)] = s[i - 1] /\ V[n] = s[i - 1] /\ X[n] = None /\ i - 1 \in 1 .. Len(s)
          BY <4>0, <4>1, <2>2, <2>3
        <5>2. s[i - 1] # n
          BY <5>1, <1>1, <2>1 DEF Distinct
        <5> QED BY <5>1, <5>2, <3>2, <1>2, <1>3 DEF Ends
      <4>2. CASE i # Len(s)
        <5>1. t[Len(t)] = s[Len(s)]
          <6>1. ~(Len(t) < i)
            BY <4>0, <4>2
          <6> QED BY <4>0, <6>1, <2>2
        <5>2. s[Len(s)] # n /\ s[Len(s)] # V[n]
          <6>1. i # 1 => i - 1 \in 1 .. Len(s) /\ i - 1 # Len(s)
            BY <4>0, <4>2
          <6> QED BY <6>1, <4>0, <4>2, <2>1, <2>3, <1>1, <1>2 DEF Distinct
        <5>3. X[s[Len(s)]] = None
          BY <4>0, <1>1
        <5> QED BY <5>1, <5>2, <5>3, <4>0, <3>2, <1>2, <1>3 DEF Ends
      <4> QED BY <4>1, <4>2
    <3> QED BY <3>1, <3>2
  <2>6. Listed(F1, X1, m, t)
    BY <2>4, <2>5 DEF Listed
  <2> QED BY <2>6 DEF t, F1, X1
<1> QED BY <1>4, <1>5

\* Putting c at the end of p's list.
LEMMA ListedAppended ==
  ASSUME NEW P \in Pointers, NEW F \in Pointers, NEW L \in Pointers,
         NEW V \in Pointers, NEW X \in Pointers, Linked(P, F, L, V, X), Grounded(V),
         NEW p \in Nodes, NEW c \in Nodes, P[c] = None,
         NEW m \in Nodes, NEW s, Listed(F, X, m, s)
  PROVE  Listed(FirstOn(F, p, c), NextOn(X, L[p], c, None), m,
                IF m = p THEN Append(s, c) ELSE s)
<1> DEFINE F1 == FirstOn(F, p, c)
           X1 == NextOn(X, L[p], c, None)
<1> USE TreeAssumption
<1>1. /\ s \in Seq(Nodes)
      /\ s # <<>> => s[1] = F[m] /\ X[s[Len(s)]] = None
      /\ s = <<>> => F[m] = None
      /\ \A k \in 1 .. Len(s) - 1 : s[k + 1] = X[s[k]]
  BY DEF Listed, Partly, Ends
<1>2. \A k \in 1 .. Len(s) : s[k] \in Nodes /\ P[s[k]] = m
  BY ListedChildren DEF Listed
<1>3. /\ \A x \in Nodes : /\ F1[x] = IF x = p /\ F[x] = None THEN c ELSE F[x]
                          /\ X1[x] = IF x = L[p] THEN c ELSE IF x = c THEN None ELSE X[x]
  BY DEF FirstOn, NextOn, Pointers
<1>4. \A k \in 1 .. Len(s) : s[k] # c
  BY <1>2
<1>5. s # <<>> => Len(s) \in 1 .. Len(s) /\ 1 \in 1 .. Len(s)
  BY <1>1
<1>6. CASE m # p
  <2>1. \A k \in 1 .. Len(s) : s[k] # L[p]
    BY <1>2, <1>6 DEF Linked
  <2>3. F1[m] = F[m] /\ \A k \in 1 .. Len(s) : X1[s[k]] = X[s[k]]
    BY <1>2, <1>3, <1>4, <1>6, <2>1
  <2> HIDE DEF F1, X1
  <2>4. Listed(F1, X1, m, s)
    BY <1>5, <1>1, <2>3 DEF Listed, Partly, Ends
  <2> QED BY <2>4, <1>6 DEF F1, X1
<1>7. CASE m = p
  <2> DEFINE t == Append(s, c)
  <2>1. /\ t \in Seq(Nodes) /\ Len(t) = Len(s) + 1 /\ t # <<>>
        /\ t[Len(s) + 1] = c /\ \A k \in 1 .. Len(s) : t[k] = s[k]
    BY <1>1
  <2>2. L[p] = IF s = <<>> THEN None ELSE s[Len(s)]
    <3>1. CASE s = <<>>
      BY <3>1, <1>1, <1>7 DEF Linked
    <3>2. CASE s # <<>>
      <4>1. F[p] \in Nodes
        BY <3>2, <1>1, <1>2, <1>5, <1>7
      <4>2. L[p] \in Nodes /\ P[L[p]] = m /\ X[L[p]] = None
        BY <4>1, <1>7 DEF Linked, Pointers, Link
      <4>3. PICK k \in 1 .. Len(s) : s[k] = L[p]
        BY <4>2, ListedAll
      <4>4. k # Len(s) => X[s[k]] = s[k + 1] /\ s[k + 1] \in Nodes
        BY <4>3, <1>1
      <4>5. k = Len(s)
        BY <4>2, <4>3, <4>4
      <4> QED BY <4>3, <4>5, <3>2
    <3> QED BY <3>1, <3>2
  <2>3. X1[c] = None
    BY <1>3, <1>4, <1>5, <2>2
  <2> HIDE DEF F1, X1, t
  <2>4. t[1] = F1[m]
    BY <2>1, <1>1, <1>2, <1>3, <1>5, <1>7
  <2>5. ASSUME NEW k \in 1 .. Len(t) - 1 PROVE t[k + 1] = X1[t[k]]
    <3>0. k \in 1 .. Len(s) /\ t[k] = s[k] /\ s[k] # c /\ s[k] \in Nodes /\ s # <<>>
      BY <2>1, <1>1, <1>2, <1>4
    <3>1. CASE k = Len(s)
      BY <3>0, <3>1, <2>1, <2>2, <1>3
    <3>2. CASE k # Len(s)
      <4>1. k + 1 \in 1 .. Len(s) /\ k \in 1 .. Len(s) - 1
        BY <3>0, <3>2, <1>1
      <4>2. t[k + 1] = s[k + 1] /\ s[k + 1] = X[s[k]] /\ s[k + 1] \in Nodes
        BY <4>1, <2>1, <1>1, <1>2
      <4>3. s[k] # L[p]
        BY <4>2, <3>0, <2>2, <1>1
      <4> QED BY <4>2, <4>3, <3>0, <1>3
    <3> QED BY <3>1, <3>2
  <2>6. Listed(F1, X1, m, t)
    <3>1. t[Len(t)] = c
      BY <2>1
    <3> QED BY <2>1, <2>3, <2>4, <2>5, <3>1 DEF Listed, Partly, Ends
  <2> QED BY <2>6, <1>7 DEF F1, X1, t
<1> QED BY <1>6, <1>7

\* Putting n before e.
LEMMA ListedInserted ==
  ASSUME NEW P \in Pointers, NEW F \in Pointers, NEW L \in Pointers,
         NEW V \in Pointers, NEW X \in Pointers, Linked(P, F, L, V, X), Grounded(V),
         NEW e \in Nodes, NEW n \in Nodes, P[n] = None, P[e] # None,
         NEW m \in Nodes, NEW s, Listed(F, X, m, s)
  PROVE  Listed(FirstBefore(P, F, V, e, n), NextOn(X, V[e], n, e), m,
                IF m = P[e] THEN Promise!Before(s, e, n) ELSE s)
<1> DEFINE F1 == FirstBefore(P, F, V, e, n)
           X1 == NextOn(X, V[e], n, e)
<1> USE TreeAssumption
<1>1. /\ s \in Seq(Nodes)
      /\ s # <<>> => s[1] = F[m] /\ X[s[Len(s)]] = None
      /\ s = <<>> => F[m] = None
      /\ \A k \in 1 .. Len(s) - 1 : s[k + 1] = X[s[k]]
  BY DEF Listed, Partly, Ends
<1>2. \A k \in 1 .. Len(s) : /\ s[k] \in Nodes /\ P[s[k]] = m
                             /\ V[s[k]] = IF k = 1 THEN None ELSE s[k - 1]
  BY ListedChildren DEF Listed
<1>3. /\ \A x \in Nodes : /\ F1[x] = IF x = P[e] /\ V[e] = None THEN n ELSE F[x]
                          /\ X1[x] = IF x = V[e] THEN n ELSE IF x = n THEN e ELSE X[x]
  BY DEF FirstBefore, NextOn, Pointers
<1>4. \A k \in 1 .. Len(s) : s[k] # n
  BY <1>2
<1>5. s # <<>> => Len(s) \in 1 .. Len(s) /\ 1 \in 1 .. Len(s)
  BY <1>1
<1>6. CASE m # P[e]
  <2>1. \A k \in 1 .. Len(s) : s[k] # V[e]
    BY <1>2, <1>6 DEF Linked
  <2>3. F1[m] = F[m] /\ \A k \in 1 .. Len(s) : X1[s[k]] = X[s[k]]
    BY <1>2, <1>3, <1>4, <1>6, <2>1
  <2> HIDE DEF F1, X1
  <2>4. Listed(F1, X1, m, s)
    BY <1>5, <1>1, <2>3 DEF Listed, Partly, Ends
  <2> QED BY <2>4, <1>6 DEF F1, X1
<1>7. CASE m = P[e]
  <2>0. PICK i \in 1 .. Len(s) : s[i] = e
    BY <1>7, ListedAll
  <2>9. Distinct(s)
    BY NoRepeats DEF Listed, Distinct
  <2> DEFINE t == Promise!Before(s, e, n)
  <2>1. /\ t \in Seq(Nodes) /\ Len(t) = Len(s) + 1
        /\ \A k \in 1 .. Len(t) :
             t[k] = IF k < i THEN s[k] ELSE IF k = i THEN n ELSE s[k - 1]
    BY <1>1, <2>0, <2>9, BeforeAt
  <2>2. V[e] = IF i = 1 THEN None ELSE s[i - 1]
    BY <1>2, <2>0
  <2>3. /\ e \in Nodes /\ X1[n] = e /\ t # <<>>
        /\ i # 1 => i - 1 \in 1 .. Len(s) /\ s[i - 1] \in Nodes /\ s[i - 1] # n
    BY <1>1, <1>2, <1>3, <1>4, <2>0, <2>1, <2>2
  <2> HIDE DEF F1, X1, t
  <2>4. t[1] = F1[m]
    <3>1. 1 \in 1 .. Len(t)
      BY <1>1, <2>1
    <3>2. CASE i = 1
      BY <3>1, <3>2, <2>1, <2>2, <1>3, <1>7
    <3>3. CASE i # 1
      BY <3>1, <3>3, <2>1, <2>2, <2>3, <1>1, <1>3, <1>5, <1>7
    <3> QED BY <3>2, <3>3
  <2>5. ASSUME NEW k \in 1 .. Len(t) - 1 PROVE t[k + 1] = X1[t[k]]
    <3>0. k \in 1 .. Len(s) /\ k \in 1 .. Len(t) /\ k + 1 \in 1 .. Len(t)
      BY <2>1, <1>1
    <3>1. CASE k + 1 < i
      <4>1. k + 1 \in 1 .. Len(s) /\ k \in 1 .. Len(s) - 1
        BY <3>0, <3>1, <1>1
      <4>2. t[k] = s[k] /\ t[k + 1] = s[k + 1] /\ s[k + 1] = X[s[k]]
        BY <4>1, <3>0, <3>1, <2>1, <1>1
      <4>3. s[k] # V[e]
        <5>1. k # i - 1
          BY <3>0, <3>1
        <5> QED BY <5>1, <3>0, <2>2, <2>3, <2>9, <1>2 DEF Distinct
      <4> QED BY <4>2, <4>3, <3>0, <1>2, <1>3, <1>4
    <3>2. CASE k + 1 = i
      <4>1. k = i - 1 /\ i # 1 /\ t[k] = s[k] /\ t[k + 1] = n
        BY <3>0, <3>2, <2>1
      <4> QED BY <4>1, <3>0, <2>2, <1>2, <1>3
    <3>3. CASE k = i
      <4>1. t[k] = n /\ t[k + 1] = s[k] /\ s[k] = e
        BY <3>0, <3>3, <2>0, <2>1
      <4> QED BY <4>1, <2>3
    <3>4. CASE k > i
      <4>1. k - 1 \in 1 .. Len(s) - 1 /\ (k - 1) + 1 = k /\ k - 1 \in 1 .. Len(s)
        BY <3>0, <3>4, <1>1
      <4>2. t[k] = s[k - 1] /\ t[k + 1] = s[k] /\ s[k] = X[s[k - 1]]
        <5>1. t[k] = s[k - 1] /\ t[k + 1] = s[(k + 1) - 1]
          BY <3>0, <3>4, <2>1
        <5>2. s[(k - 1) + 1] = X[s[k - 1]]
          BY <4>1, <1>1
        <5>3. (k + 1) - 1 = k
          OBVIOUS
        <5> QED BY <4>1, <5>1, <5>2, <5>3
      <4>3. s[k - 1] # V[e]
        <5>1. k - 1 # i - 1
          BY <3>0, <3>4
        <5> QED BY <5>1, <4>1, <2>2, <2>3, <2>9, <1>2 DEF Distinct
      <4> QED BY <4>1, <4>2, <4>3, <1>2, <1>3, <1>4
    <3> QED BY <3>0, <3>1, <3>2, <3>3, <3>4
  <2>6. X1[t[Len(t)]] = None
    <3>1. Len(t) \in 1 .. Len(t) /\ Len(t) # i /\ ~(Len(t) < i) /\ Len(t) - 1 = Len(s)
      BY <2>1, <1>1
    <3>2. t[Len(t)] = s[Len(s)]
      BY <3>1, <2>1
    <3>3. Len(s) \in 1 .. Len(s) /\ s # <<>>
      BY <2>0, <1>1
    <3>4. s[Len(s)] # V[e]
      <4>1. i # 1 => i - 1 # Len(s)
        BY <2>0
      <4> QED BY <4>1, <3>3, <2>2, <2>3, <2>9, <1>2 DEF Distinct
    <3> QED BY <3>2, <3>3, <3>4, <1>1, <1>2, <1>3, <1>4
  <2>7. Listed(F1, X1, m, t)
    BY <2>1, <2>3, <2>4, <2>5, <2>6 DEF Listed, Partly, Ends
  <2> QED BY <2>7, <1>7 DEF F1, X1, t
<1> QED BY <1>6, <1>7

\* The list after a step is known by its links.
LEMMA ChildrenNow ==
  ASSUME TreeShape', NEW m \in Nodes, NEW s, Listed(first', next', m, s)
  PROVE  Children(m)' = s
<1>1. TreeShape' => (\A n \in Nodes : Listed(first', next', n, Children(n)'))
  <2>1. (TreeShape => \A n \in Nodes : Listed(first, next, n, Children(n)))'
    BY ChildrenListed, PTL
  <2> QED BY <2>1 DEF Listed, Partly, Ends
<1>2. Listed(first', next', m, Children(m)')
  BY <1>1
<1> QED BY <1>2, SameList

LEMMA SameLists ==
  ASSUME TreeShape, TreeShape', UNCHANGED links, NEW m \in Nodes
  PROVE  Children(m)' = Children(m)
<1>1. Listed(first, next, m, Children(m))
  BY ChildrenListed
<1>2. first' = first /\ next' = next
  BY DEF links
<1>3. Listed(first', next', m, Children(m))
  BY <1>1, <1>2
<1> QED BY <1>3, ChildrenNow

\* The lists when n is out, as the links of FirstOff and the others say.
LEMMA OffLists ==
  ASSUME TreeShape, NEW n \in Nodes, ~Fixed(n), NEW m \in Nodes
  PROVE  Listed(FirstOff(n), NextOff(n), m, Promise!Without(Children(m), n))
<1>1. /\ parent \in Pointers /\ first \in Pointers /\ last \in Pointers
      /\ prev \in Pointers /\ next \in Pointers
      /\ Linked(parent, first, last, prev, next) /\ Grounded(prev)
  BY InvOfParts DEF TypeOK, Pointers
<1>2. FirstOff(n) = EndOff(parent, first, prev, next, n) /\ NextOff(n) = SideOff(next, prev, n)
  BY DEF FirstOff, NextOff, EndOff, SideOff
<1>3. Listed(first, next, m, Children(m))
  BY ChildrenListed
<1>4. Listed(EndOff(parent, first, prev, next, n), SideOff(next, prev, n), m,
             Promise!Without(Children(m), n))
  BY <1>1, <1>3, ListedWithout
<1> QED BY <1>2, <1>4

LEMMA DetachLists ==
  ASSUME TreeShape, TreeShape', NEW n \in Nodes, Detach(n), NEW m \in Nodes
  PROVE  Children(m)' = Promise!Without(Children(m), n)
<1>1. ~Fixed(n) /\ first' = FirstOff(n) /\ next' = NextOff(n)
  BY DEF Detach
<1>2. Listed(first', next', m, Promise!Without(Children(m), n))
  BY <1>1, OffLists
<1> QED BY <1>2, ChildrenNow

LEMMA AppendLists ==
  ASSUME DocumentMoves = FALSE, TreeShape, TreeShape', NEW p \in Nodes, NEW c \in Nodes,
         AppendChild(p, c), NEW m \in Nodes
  PROVE  Children(m)' = IF m = p THEN Append(Promise!Without(Children(m), c), c)
                        ELSE Promise!Without(Children(m), c)
<1>1. ~Fixed(c)
  BY MovableIsLoose DEF AppendChild
<1>2. /\ first' = FirstOn(FirstOff(c), p, c)
      /\ next' = NextOn(NextOff(c), LastOff(c)[p], c, None)
  BY DEF AppendChild, FirstOn, NextOn
<1>3. ParentOff(c)[c] = None
  BY <1>1 DEF ParentOff, TypeOK, TreeShape
<1> DEFINE s == Promise!Without(Children(m), c)
<1>4. Listed(FirstOff(c), NextOff(c), m, s)
  BY <1>1, OffLists
<1> HIDE DEF s
<1>5. Listed(FirstOn(FirstOff(c), p, c), NextOn(NextOff(c), LastOff(c)[p], c, None), m,
             IF m = p THEN Append(s, c) ELSE s)
  BY <1>1, <1>3, <1>4, TakenOff, ListedAppended
<1>6. Children(m)' = IF m = p THEN Append(s, c) ELSE s
  BY <1>2, <1>5, ChildrenNow
<1> QED BY <1>6 DEF s

LEMMA InsertLists ==
  ASSUME DocumentMoves = FALSE, TreeShape, TreeShape', NEW e \in Nodes, NEW n \in Nodes,
         InsertBefore(e, n), NEW m \in Nodes
  PROVE  Children(m)' =
           IF m = parent[e] THEN Promise!Before(Promise!Without(Children(m), n), e, n)
           ELSE Promise!Without(Children(m), n)
<1>1. ~Fixed(n)
  BY MovableIsLoose DEF InsertBefore
<1>3. ParentOff(n)[n] = None /\ ParentOff(n)[e] = parent[e] /\ parent[e] # None
  BY <1>1 DEF ParentOff, TypeOK, TreeShape, InsertBefore
<1>2. /\ first' = FirstBefore(ParentOff(n), FirstOff(n), PrevOff(n), e, n)
      /\ next' = NextOn(NextOff(n), PrevOff(n)[e], n, e)
  BY <1>3 DEF InsertBefore, FirstBefore, NextOn
<1> DEFINE s == Promise!Without(Children(m), n)
<1>4. Listed(FirstOff(n), NextOff(n), m, s)
  BY <1>1, OffLists
<1> HIDE DEF s
<1>5. Listed(FirstBefore(ParentOff(n), FirstOff(n), PrevOff(n), e, n),
             NextOn(NextOff(n), PrevOff(n)[e], n, e), m,
             IF m = ParentOff(n)[e] THEN Promise!Before(s, e, n) ELSE s)
  BY <1>1, <1>3, <1>4, TakenOff, ListedInserted
<1>6. Children(m)' = IF m = parent[e] THEN Promise!Before(s, e, n) ELSE s
  <2>1. Listed(first', next', m, IF m = parent[e] THEN Promise!Before(s, e, n) ELSE s)
    BY <1>2, <1>3, <1>5
  <2> QED BY <2>1, ChildrenNow
<1> QED BY <1>6 DEF s

\* Which nodes a list holds.
LEMMA ListHolds ==
  ASSUME TreeShape, NEW n \in Nodes
  PROVE  /\ Children(n) \in Seq(Nodes)
         /\ \A x \in Nodes : x \in Promise!Items(Children(n)) <=> parent[x] = n
<1>1. /\ parent \in Pointers /\ first \in Pointers /\ last \in Pointers
      /\ prev \in Pointers /\ next \in Pointers
      /\ Linked(parent, first, last, prev, next) /\ Grounded(prev)
  BY InvOfParts DEF TypeOK, Pointers
<1> DEFINE s == Children(n)
<1>2. Listed(first, next, n, s)
  BY ChildrenListed
<1> HIDE DEF s
<1>3. s \in Seq(Nodes) /\ Partly(first, next, n, s)
  BY <1>2 DEF Listed, Partly
<1>4. \A k \in 1 .. Len(s) : parent[s[k]] = n
  BY <1>1, <1>3, ListedChildren
<1>5. \A x \in Nodes : parent[x] = n => \E k \in 1 .. Len(s) : s[k] = x
  BY <1>1, <1>2, ListedAll
<1>6. \A x \in Nodes : x \in Promise!Items(s) <=> parent[x] = n
  BY <1>3, <1>4, <1>5 DEF Promise!Items
<1> QED BY <1>3, <1>6 DEF s

(* Walks within one tree: up along parents, and down as descendants() does. *)

LEMMA ChainFacts ==
  ASSUME TypeOK, NEW n \in Nodes
  PROVE  /\ n \in Chain(n) /\ Chain(n) \subseteq Nodes
         /\ ChainClosed(Chain(n))
         /\ \A S \in SUBSET Nodes : n \in S /\ ChainClosed(S) => Chain(n) \subseteq S
<1>1. \A x \in Nodes : parent[x] \in Link
  BY DEF TypeOK
<1> QED BY <1>1 DEF Chain, ChainClosed, Link

LEMMA ChainStep ==
  ASSUME TypeOK, NEW x \in Nodes, NEW c \in Nodes
  PROVE  /\ parent[x] # None /\ c \in Chain(parent[x]) => c \in Chain(x)
         /\ x # c /\ c \in Chain(x) => parent[x] # None /\ c \in Chain(parent[x])
<1>0. \A y \in Nodes : parent[y] \in Link
  BY DEF TypeOK
<1>1. ASSUME parent[x] # None, c \in Chain(parent[x]) PROVE c \in Chain(x)
  <2>1. parent[x] \in Nodes /\ parent[x] \in Chain(x)
    BY <1>0, <1>1, ChainFacts DEF ChainClosed, Link
  <2>2. Chain(parent[x]) \subseteq Chain(x)
    BY <2>1, ChainFacts
  <2> QED BY <1>1, <2>2
<1>2. ASSUME x # c, c \in Chain(x) PROVE parent[x] # None /\ c \in Chain(parent[x])
  <2>1. CASE parent[x] = None
    <3>1. ChainClosed({x})
      BY <2>1 DEF ChainClosed
    <3> QED BY <3>1, <1>2, ChainFacts
  <2>2. CASE parent[x] # None
    <3>0. parent[x] \in Nodes
      BY <1>0, <2>2 DEF Link
    <3>1. ChainClosed({x} \cup Chain(parent[x]))
      BY <3>0, ChainFacts DEF ChainClosed
    <3>2. Chain(x) \subseteq {x} \cup Chain(parent[x])
      BY <3>0, <3>1, ChainFacts
    <3> QED BY <3>2, <2>2, <1>2
  <2> QED BY <2>1, <2>2
<1> QED BY <1>1, <1>2

LEMMA ChainIsAbove ==
  ASSUME TypeOK, NEW x \in Nodes
  PROVE  Chain(x) \subseteq Above(x)
<1>1. x \in Above(x) /\ AboveClosed(Above(x)) /\ Above(x) \subseteq Nodes
  BY UpTyped, AboveFacts DEF Above
<1>2. ChainClosed(Above(x))
  BY <1>1 DEF ChainClosed, AboveClosed, Up
<1> QED BY <1>1, <1>2, ChainFacts

LEMMA LightFacts ==
  ASSUME TypeOK, NEW n \in Nodes
  PROVE  /\ Light(n) \subseteq Nodes /\ n \notin Light(n)
         /\ LightClosed(Light(n) \cup {n}, n)
         /\ \A S \in SUBSET Nodes : n \in S /\ LightClosed(S, n) => Light(n) \subseteq S
<1>1. \A x \in Nodes : first[x] \in Link /\ next[x] \in Link
  BY DEF TypeOK
<1> DEFINE D == {x \in Nodes : \A S \in SUBSET Nodes : n \in S /\ LightClosed(S, n) => x \in S}
<1>2. /\ n \in D /\ D \subseteq Nodes
      /\ \A S \in SUBSET Nodes : n \in S /\ LightClosed(S, n) => D \subseteq S
  OBVIOUS
<1>3. LightClosed(D, n)
  BY <1>1 DEF LightClosed, Link
<1>4. Light(n) = D \ {n} /\ Light(n) \cup {n} = D
  BY <1>2 DEF Light
<1> HIDE DEF D
<1> QED BY <1>2, <1>3, <1>4

\* What is below n in its tree is what has n among its ancestors.
LEMMA LightIff ==
  ASSUME TreeShape, NEW n \in Nodes, NEW x \in Nodes
  PROVE  x \in Light(n) \cup {n} <=> n \in Chain(x)
<1> USE TreeAssumption
<1>0. /\ TypeOK /\ LinksAgree /\ ShadowsAgree /\ Grounded(prev) /\ Grounded(Ups)
      /\ \A y \in Nodes : /\ parent[y] \in Link /\ first[y] \in Link
                          /\ next[y] \in Link /\ prev[y] \in Link
  BY Grounds DEF TreeShape, TypeOK
<1> DEFINE D == Light(n) \cup {n}
<1>1. D \subseteq Nodes /\ n \in D /\ LightClosed(D, n)
  BY <1>0, LightFacts
<1>2. ASSUME x \in D PROVE n \in Chain(x)
  <2> DEFINE S == {z \in Nodes : n \in Chain(z)}
  <2>1. n \in S /\ S \in SUBSET Nodes
    BY <1>0, ChainFacts
  <2>2. LightClosed(S, n)
    <3> SUFFICES ASSUME NEW z \in S
                 PROVE  /\ first[z] \in S \cup {None}
                        /\ z # n => next[z] \in S \cup {None}
      BY DEF LightClosed
    <3>1. ASSUME first[z] # None PROVE first[z] \in S
      <4>1. first[z] \in Nodes /\ parent[first[z]] = z
        BY <1>0, <3>1 DEF Link, LinksAgree
      <4> QED BY <4>1, <1>0, ChainStep
    <3>2. ASSUME z # n, next[z] # None PROVE next[z] \in S
      <4>1. next[z] \in Nodes /\ parent[next[z]] = parent[z]
        BY <1>0, <3>2 DEF Link, LinksAgree
      <4>2. parent[z] # None /\ n \in Chain(parent[z])
        BY <3>2, <1>0, ChainStep
      <4> QED BY <4>1, <4>2, <1>0, ChainStep
    <3> QED BY <3>1, <3>2
  <2>3. Light(n) \subseteq S
    <3> HIDE DEF S
    <3> QED BY <2>1, <2>2, <1>0, LightFacts
  <2> QED BY <2>1, <2>3, <1>2
<1>3. ASSUME n \in Chain(x), x \notin D PROVE FALSE
  <2> DEFINE B == {z \in Nodes : n \in Chain(z) /\ z \notin D}
  <2>1. PICK z \in B : Up(z) \notin B
    <3>1. B \in (SUBSET Nodes) \ {{}}
      BY <1>3
    <3> QED BY <3>1 DEF TreeShape, NoCycles
  <2>2. /\ z \in Nodes /\ z # n /\ parent[z] # None /\ parent[z] \in Nodes
        /\ n \in Chain(parent[z]) /\ Up(z) = parent[z]
    <3>1. z \in Nodes /\ z # n
      BY <2>1, <1>1
    <3> QED BY <3>1, <2>1, <1>0, ChainStep DEF Link, Up
  <2>3. parent[z] \in D
    BY <2>1, <2>2
  <2> DEFINE S == {y \in Nodes \ D : parent[y] = parent[z]}
  <2>4. PICK y \in S : prev[y] \notin S
    <3>1. S \in (SUBSET Nodes) \ {{}}
      BY <2>1
    <3> QED BY <3>1, <1>0 DEF Grounded
  <2>5. CASE prev[y] = None
    <3>1. first[parent[z]] = y
      BY <2>2, <2>4, <2>5, <1>0 DEF LinksAgree
    <3> QED BY <3>1, <2>3, <2>4, <1>1 DEF LightClosed
  <2>6. CASE prev[y] # None
    <3>1. prev[y] \in Nodes /\ next[prev[y]] = y /\ parent[prev[y]] = parent[z]
      BY <2>4, <2>6, <1>0 DEF LinksAgree, Link
    <3>2. prev[y] \in D
      BY <3>1, <2>4
    <3>3. prev[y] # n
      <4> SUFFICES ASSUME prev[y] = n PROVE FALSE
        OBVIOUS
      <4>1. Up(n) = parent[z] /\ Up(n) # None
        BY <3>1, <2>2 DEF Up
      <4>2. n \in Above(Up(n))
        BY <4>1, <2>2, <1>0, ChainIsAbove
      <4> QED BY <4>1, <4>2, <1>0, NoWayRound
    <3>4. next[prev[y]] \in D \cup {None}
      BY <3>2, <3>3, <1>1 DEF LightClosed
    <3> QED BY <3>1, <3>4, <2>4
  <2> QED BY <2>5, <2>6
<1> QED BY <1>2, <1>3

\* A list that does not hold n is as it was without n.
LEMMA NotInList ==
  ASSUME TreeShape, NEW n \in Nodes, NEW m \in Nodes, parent[n] # m
  PROVE  Promise!Without(Children(m), n) = Children(m)
  BY ListHolds DEF Promise!Without

\* Where set_subtree_connected clears a bit, the node is below the one that moves.
LEMMA BitsKept ==
  ASSUME TypeOK, NEW c \in Nodes, NEW b \in BOOLEAN, SetConnected(c, b),
         NEW n \in Nodes, n \notin Disconnected(c, b), connected[n]
  PROVE  connected'[n]
<1>1. CASE connected[c] = b
  BY <1>1 DEF SetConnected
<1>2. CASE connected[c] # b
  <2>1. connected'[n] = IF n \in Owned(c) THEN b ELSE connected[n]
    BY <1>2 DEF SetConnected
  <2>2. b = FALSE => n \notin Owned(c)
    BY <1>2 DEF Disconnected, TypeOK
  <2> QED BY <2>1, <2>2
<1> QED BY <1>1, <1>2

\* An owner whose rules outlive the change of a list is not above that list.
LEMMA NotBelowOwner ==
  ASSUME TreeShape, NEW n \in Nodes, NEW c \in Nodes, n \notin Chain(c)
  PROVE  \A m \in Light(n) \cup {n} : m \in Nodes /\ m # c /\ m # parent[c]
<1> SUFFICES ASSUME NEW m \in Light(n) \cup {n} PROVE m \in Nodes /\ m # c /\ m # parent[c]
  OBVIOUS
<1>1. TypeOK
  BY DEF TreeShape
<1>2. m \in Nodes
  BY <1>1, LightFacts
<1>3. n \in Chain(m)
  BY <1>2, LightIff
<1>4. m = parent[c] => n \in Chain(c)
  BY <1>1, <1>2, <1>3, ChainStep, TreeAssumption
<1> QED BY <1>2, <1>3, <1>4

LEMMA MoveKeepsRules ==
  ASSUME TreeShape, NEW c \in Nodes, NEW p \in Nodes, ~Fixed(c), MoveTo(c, p),
         NEW n \in cssom \cap cssom'
  PROVE  /\ connected[n] => connected'[n]
         /\ \A m \in Light(n) \cup {n} : m \in Nodes /\ m # p /\ m # parent[c]
<1>1. /\ cssom' = cssom \ (Chain(c) \cup Disconnected(c, connected[p]) \cup Chain(p))
      /\ SetConnected(c, connected[p])
  BY DEF MoveTo
<1>2. n \in Nodes /\ TypeOK /\ connected[p] \in BOOLEAN
  BY DEF TreeShape, TypeOK
<1>3. n \notin Chain(c) /\ n \notin Chain(p) /\ n \notin Disconnected(c, connected[p])
  BY <1>1
<1>4. connected[n] => connected'[n]
  BY <1>1, <1>2, <1>3, BitsKept
<1> QED BY <1>2, <1>3, <1>4, NotBelowOwner

EditedKept ==
  \A n \in cssom \cap cssom' :
    /\ connected[n] => connected'[n]
    /\ \A m \in Light(n) \cup {n} : Children(m)' = Children(m)

LEMMA SameRules ==
  ASSUME TreeShape, TreeShape', UNCHANGED <<links, connected>>
  PROVE  EditedKept
<1>1. \A n \in cssom : Light(n) \cup {n} \subseteq Nodes
  <2>1. TypeOK /\ cssom \subseteq Nodes
    BY DEF TreeShape, TypeOK
  <2> QED BY <2>1, LightFacts
<1>2. \A m \in Nodes : Children(m)' = Children(m)
  BY SameLists
<1> QED BY <1>1, <1>2 DEF EditedKept

LEMMA DetachKeepsRules ==
  ASSUME TreeShape, TreeShape', NEW c \in Nodes, Detach(c)
  PROVE  EditedKept
<1>1. /\ cssom' = cssom \ (Chain(c) \cup Disconnected(c, FALSE))
      /\ SetConnected(c, FALSE)
  BY DEF Detach
<1> SUFFICES ASSUME NEW n \in cssom \cap cssom'
             PROVE  /\ connected[n] => connected'[n]
                    /\ \A m \in Light(n) \cup {n} : Children(m)' = Children(m)
  BY DEF EditedKept
<1>2. n \in Nodes /\ TypeOK
  BY DEF TreeShape, TypeOK
<1>3. n \notin Chain(c) /\ n \notin Disconnected(c, FALSE)
  BY <1>1
<1>4. connected[n] => connected'[n]
  BY <1>1, <1>2, <1>3, BitsKept
<1>5. \A m \in Light(n) \cup {n} : m \in Nodes /\ m # parent[c]
  BY <1>2, <1>3, NotBelowOwner
<1>6. \A m \in Nodes : m # parent[c] => Children(m)' = Children(m)
  BY DetachLists, NotInList
<1> QED BY <1>4, <1>5, <1>6

\* A shadow root that is attached was not connected: nothing loses its bit.
LEMMA AttachKeepsRules ==
  ASSUME TreeShape, TreeShape', NEW h \in Nodes, NEW r \in Nodes, AttachShadow(h, r),
         r # Document, parent[r] = None, host[r] = None
  PROVE  EditedKept
<1>1. UNCHANGED links /\ SetConnected(r, connected[h])
  BY DEF AttachShadow
<1>2. connected[r] = FALSE
  BY DEF TreeShape, ConnectedAgree, Up
<1>3. TypeOK /\ connected[h] \in BOOLEAN /\ cssom \subseteq Nodes
  BY DEF TreeShape, TypeOK
<1>4. Disconnected(r, connected[h]) = {}
  BY <1>2 DEF Disconnected
<1>5. \A n \in Nodes : connected[n] => connected'[n]
  BY <1>1, <1>3, <1>4, BitsKept
<1>6. \A n \in cssom : Light(n) \cup {n} \subseteq Nodes
  BY <1>3, LightFacts
<1>7. \A m \in Nodes : Children(m)' = Children(m)
  BY <1>1, SameLists
<1> QED BY <1>3, <1>5, <1>6, <1>7 DEF EditedKept

LEMMA NextKeepsRules ==
  ASSUME DocumentMoves = FALSE, TreeShape, TreeShape', [Next]_vars
  PROVE  EditedKept
<1> USE TreeAssumption
<1>1. ASSUME NEW p \in Nodes, NEW c \in Nodes, AppendChild(p, c) PROVE EditedKept
  <2>1. ~Fixed(c) /\ MoveTo(c, p)
    BY <1>1, MovableIsLoose DEF AppendChild
  <2>2. \A m \in Nodes : m # p /\ m # parent[c] => Children(m)' = Children(m)
    <3> SUFFICES ASSUME NEW m \in Nodes, m # p, m # parent[c]
                 PROVE  Children(m)' = Children(m)
      OBVIOUS
    <3>1. Children(m)' = Promise!Without(Children(m), c)
      BY <1>1, AppendLists
    <3> QED BY <3>1, NotInList
  <2> QED BY <2>1, <2>2, MoveKeepsRules DEF EditedKept
<1>2. ASSUME NEW e \in Nodes, NEW n \in Nodes, InsertBefore(e, n) PROVE EditedKept
  <2>1. ~Fixed(n) /\ MoveTo(n, parent[e])
    BY <1>2, MovableIsLoose DEF InsertBefore
  <2>2. parent[e] \in Nodes
    BY <1>2 DEF InsertBefore, TreeShape, TypeOK, Link
  <2>3. \A m \in Nodes : m # parent[e] /\ m # parent[n] => Children(m)' = Children(m)
    <3> SUFFICES ASSUME NEW m \in Nodes, m # parent[e], m # parent[n]
                 PROVE  Children(m)' = Children(m)
      OBVIOUS
    <3>1. Children(m)' = Promise!Without(Children(m), n)
      BY <1>2, InsertLists
    <3> QED BY <3>1, NotInList
  <2> QED BY <2>1, <2>2, <2>3, MoveKeepsRules DEF EditedKept
<1>3. ASSUME NEW n \in Nodes, RemoveChild(n) PROVE EditedKept
  <2>1. CASE Detach(n)
    BY <2>1, DetachKeepsRules
  <2>2. CASE UNCHANGED <<links, connected, cssom>>
    <3>1. \A m \in Nodes : Children(m)' = Children(m)
      BY <2>2, SameLists
    <3>2. TypeOK /\ cssom \subseteq Nodes
      BY DEF TreeShape, TypeOK
    <3>3. \A m \in cssom : Light(m) \cup {m} \subseteq Nodes
      BY <3>2, LightFacts
    <3>4. \A m \in Nodes : connected[m] => connected'[m]
      BY <2>2
    <3> QED BY <3>1, <3>2, <3>3, <3>4 DEF EditedKept
  <2> QED BY <2>1, <2>2, <1>3 DEF RemoveChild
<1>4. ASSUME DetachNext PROVE EditedKept
  <2>1. first[clearing] \in Nodes /\ Detach(first[clearing])
    BY <1>4 DEF DetachNext, TreeShape, TypeOK, Link
  <2> QED BY <2>1, DetachKeepsRules
<1>5. ASSUME NEW h \in Nodes, NEW r \in Nodes, AttachShadowRoot(h, r) PROVE EditedKept
  <2>1. r # Document /\ parent[r] = None /\ host[r] = None /\ AttachShadow(h, r)
    BY <1>5 DEF AttachShadowRoot, TreeShape, TypeOK, ShadowsAgree, Used, IsElement
  <2> QED BY <2>1, AttachKeepsRules
<1>6. ASSUME NEW h \in Nodes, NEW t \in Nodes, AttachDeclarativeShadow(h, t) PROVE EditedKept
  <2> DEFINE r == contents[t]
  <2>1. /\ r \in Nodes /\ r # Document /\ parent[r] = None /\ host[r] = None
        /\ AttachShadow(h, r)
    BY <1>6 DEF AttachDeclarativeShadow, TreeShape, TypeOK, Fixed, IsShadowRoot, Link
  <2> HIDE DEF r
  <2> QED BY <2>1, AttachKeepsRules
<1>7. ASSUME \/ \E n \in Nodes : \/ \E i \in Ids \cup {None} : NewNode(n, i) \/ SetId(n, i)
                                 \/ NewFragment(n) \/ SetInnerHtml(n) \/ UpdateCssom(n)
                                 \/ \E m \in Nodes : TemplateContents(n, m)
             \/ Cleared \/ UNCHANGED vars
      PROVE  EditedKept
  <2>1. UNCHANGED <<links, connected>>
    BY <1>7 DEF NewNode, SetId, NewFragment, SetInnerHtml, UpdateCssom, TemplateContents,
                Cleared, vars
  <2> QED BY <2>1, SameRules
<1> QED BY <1>1, <1>2, <1>3, <1>4, <1>5, <1>6, <1>7 DEF Next

\* While scripts do not move the document itself, a style sheet keeps the rules a
\* script edited only while its owner stays in the document, if it was there, and
\* while no list of children at or below the owner changes (invalidate_cssom_source
\* and the callers of it in tree.rs).
THEOREM EditedRules ==
  ASSUME DocumentMoves = FALSE
  PROVE  Spec => EditedRulesAreCurrent
<1>1. TreeShape /\ TreeShape' /\ [Next]_vars => [\A n \in cssom \cap cssom' :
       /\ connected[n] => connected'[n]
       /\ \A m \in Light(n) \cup {n} : Children(m)' = Children(m)]_vars
  BY NextKeepsRules DEF EditedKept
<1> QED BY <1>1, ShapeInvariance, PTL DEF Spec, EditedRulesAreCurrent

(* The tree the DOM standard describes. *)

Lists == [n \in Nodes |-> Children(n)]

\* Down the lists and shadow roots is what has the node above it.
LEMMA BelowIff ==
  ASSUME TreeShape, NEW n \in Nodes, NEW x \in Nodes
  PROVE  x \in Promise!Below(n) <=> n \in Above(x)
<1> USE TreeAssumption
<1>0. TypeOK /\ LinksAgree /\ ShadowsAgree /\ \A y \in Nodes : Up(y) \in Link
  BY UpTyped DEF TreeShape
<1> DEFINE Closed(S) ==
             \A y \in S : Promise!Items(Children(y)) \cup ({root[y]} \ {None}) \subseteq S
           D == {z \in Nodes : \A S \in SUBSET Nodes : n \in S /\ Closed(S) => z \in S}
<1>1. Promise!Below(n) = D
  <2>1. \A S \in SUBSET Nodes :
          Closed(S) <=> (\A y \in S : Promise!Items(Lists[y]) \cup ({root[y]} \ {None}) \subseteq S)
    BY DEF Lists
  <2> HIDE DEF Closed
  <2> QED BY <2>1 DEF Promise!Below, Lists
<1>2. ASSUME NEW y \in Nodes, NEW z \in Nodes
      PROVE  z \in Promise!Items(Children(y)) \cup ({root[y]} \ {None})
               <=> Up(z) = y
  <2>1. z \in Promise!Items(Children(y)) <=> parent[z] = y
    BY ListHolds
  <2>2. root[y] = z <=> host[z] = y
    BY <1>0 DEF ShadowsAgree
  <2>3. host[z] # None => parent[z] = None
    BY <1>0 DEF ShadowsAgree, IsElement
  <2> QED BY <2>1, <2>2, <2>3 DEF Up
<1>3. \A y \in Nodes : Promise!Items(Children(y)) \cup ({root[y]} \ {None}) \subseteq Nodes
  <2> SUFFICES ASSUME NEW y \in Nodes
               PROVE  Promise!Items(Children(y)) \cup ({root[y]} \ {None}) \subseteq Nodes
    OBVIOUS
  <2>1. Children(y) \in Seq(Nodes)
    BY ListHolds
  <2>2. root[y] \in Link
    BY <1>0 DEF TypeOK
  <2> HIDE DEF Closed, D
  <2> QED BY <2>1, <2>2 DEF Promise!Items, Link
<1>4. ASSUME n \notin Above(x), x \in D PROVE FALSE
  <2> DEFINE S == {z \in Nodes : n \in Above(z)}
  <2>1. n \in S /\ S \in SUBSET Nodes
    BY <1>0, AboveFacts
  <2>2. Closed(S)
    <3> SUFFICES ASSUME NEW y \in S,
                        NEW z \in Promise!Items(Children(y)) \cup ({root[y]} \ {None})
                 PROVE  z \in S
      OBVIOUS
    <3>1. z \in Nodes /\ Up(z) = y
      BY <1>2, <1>3
    <3> QED BY <3>1, <1>0, AboveStep
  <2> HIDE DEF Closed, S
  <2>3. x \in S
    BY <2>1, <2>2, <1>4
  <2> QED BY <2>3, <1>4 DEF S
<1>5. ASSUME n \in Above(x), x \notin D PROVE FALSE
  <2> DEFINE B == {z \in Nodes : n \in Above(z) /\ z \notin D}
  <2>1. PICK z \in B : Up(z) \notin B
    <3>1. B \in (SUBSET Nodes) \ {{}}
      BY <1>5
    <3> HIDE DEF B
    <3> QED BY <3>1 DEF TreeShape, NoCycles
  <2>2. n \in D
    OBVIOUS
  <2>3. z \in Nodes /\ z # n /\ n \in Above(z) /\ z \notin D
    BY <2>1, <2>2
  <2>4. Up(z) \in Nodes /\ n \in Above(Up(z))
    BY <2>3, <1>0, AboveStep DEF Link
  <2>5. Up(z) \in D
    BY <2>1, <2>4
  <2>6. z \in Promise!Items(Children(Up(z))) \cup ({root[Up(z)]} \ {None})
    BY <2>3, <2>4, <1>2
  <2>7. z \in D
    <3> SUFFICES ASSUME NEW S \in SUBSET Nodes, n \in S, Closed(S) PROVE z \in S
      BY <2>3
    <3> QED BY <2>4, <2>5, <2>6
  <2> QED BY <2>3, <2>7
<1> QED BY <1>1, <1>4, <1>5

LEMMA ConnectedBelow ==
  TreeShape => {n \in Nodes : connected[n]} = Promise!Below(Document)
<1> SUFFICES ASSUME TreeShape PROVE {n \in Nodes : connected[n]} = Promise!Below(Document)
  OBVIOUS
<1>1. Document \in Nodes
  BY TreeAssumption
<1>2. \A n \in Nodes : connected[n] <=> n \in Promise!Below(Document)
  BY <1>1, BelowIff, ConnectedMeansBelowDocument
<1>3. Promise!Below(Document) \subseteq Nodes
  BY DEF Promise!Below
<1> QED BY <1>2, <1>3

LEMMA InitPromised ==
  ASSUME Init
  PROVE  Promise!Init
<1>1. TreeShape
  BY InitTree
<1>2. ASSUME NEW n \in Nodes PROVE Children(n) = <<>>
  <2>1. Listed(first, next, n, <<>>)
    BY DEF Listed, Partly, Ends, Init, NoLinks
  <2>2. Listed(first, next, n, Children(n))
    BY <1>1, ChildrenListed
  <2> QED BY <2>1, <2>2, SameList
<1>3. Lists = [n \in Nodes |-> <<>>]
  BY <1>2 DEF Lists
<1>4. {n \in Nodes : connected[n]} = {Document}
  BY TreeAssumption DEF Init
<1>5. kind = [n \in Nodes |-> IF n = Document THEN "fragment" ELSE "unused"]
      /\ root = [n \in Nodes |-> None]
  BY DEF Init, NoLinks
<1> QED BY <1>3, <1>4, <1>5 DEF Promise!Init, Lists

LEMMA ConnectedBelowNext ==
  ASSUME TreeShape'
  PROVE  {n \in Nodes : connected'[n]} = Promise!Below(Document)'
<1>1. (TreeShape => {n \in Nodes : connected[n]} = Promise!Below(Document))'
  BY ConnectedBelow, PTL
<1>2. TreeShape' => {n \in Nodes : connected[n]}' = Promise!Below(Document)'
  BY <1>1
<1> QED BY <1>2

LEMMA RemovedIs ==
  ASSUME TreeShape, NEW c \in Nodes
  PROVE  Promise!Removed(c) = [n \in Nodes |-> Promise!Without(Children(n), c)]
<1>1. \A n \in Nodes : Lists[n] = Children(n)
  BY DEF Lists
<1> QED BY <1>1 DEF Promise!Removed, Lists

LEMMA AppendPromised ==
  ASSUME DocumentMoves = FALSE, TreeShape, TreeShape', NEW p \in Nodes, NEW c \in Nodes,
         AppendChild(p, c)
  PROVE  Promise!Insert(p, None, c)
<1>1. kind[p] # "unused" /\ kind[c] = "element"
  BY MovableIsLoose DEF AppendChild, Used, Movable, IsElement
<1>2. p \notin Promise!Below(c)
  <2>1. c \notin Above(p)
    BY LeafNotAbove, InvOfParts DEF AppendChild, WouldCreateCycle, TreeShape
  <2> QED BY <2>1, BelowIff
<1>3. Lists' = [Promise!Removed(c) EXCEPT ![p] = Append(@, c)]
  <2>1. \A n \in Nodes : Children(n)' = IF n = p THEN Append(Promise!Without(Children(n), c), c)
                                        ELSE Promise!Without(Children(n), c)
    BY AppendLists
  <2>2. Lists' = [n \in Nodes |-> Children(n)']
    BY DEF Lists
  <2>3. [Promise!Removed(c) EXCEPT ![p] = Append(@, c)]
          = [n \in Nodes |-> IF n = p THEN Append(Promise!Without(Children(n), c), c)
                             ELSE Promise!Without(Children(n), c)]
    BY RemovedIs
  <2>4. Lists' = [n \in Nodes |-> IF n = p THEN Append(Promise!Without(Children(n), c), c)
                                  ELSE Promise!Without(Children(n), c)]
    BY <2>1, <2>2, Zenon
  <2> QED BY <2>3, <2>4, Zenon
<1>4. {n \in Nodes : connected'[n]} = Promise!Below(Document)'
  BY ConnectedBelowNext
<1>5. UNCHANGED <<kind, root>>
  BY DEF AppendChild, shadow
<1> QED BY <1>1, <1>2, <1>3, <1>4, <1>5 DEF Promise!Insert, Lists

LEMMA InsertPromised ==
  ASSUME DocumentMoves = FALSE, TreeShape, TreeShape', NEW e \in Nodes, NEW n \in Nodes,
         InsertBefore(e, n)
  PROVE  parent[e] \in Nodes /\ Promise!Insert(parent[e], e, n)
<1> USE TreeAssumption
<1> DEFINE p == parent[e]
<1>1. p \in Nodes /\ p # None /\ e # n
  BY DEF InsertBefore, TreeShape, TypeOK, Link
<1>2. kind[p] # "unused" /\ kind[n] = "element"
  <2>1. first[p] # None
    BY <1>1, HasFirst, InvOfParts DEF TreeShape
  <2>2. Used(p)
    BY <1>1, <2>1 DEF TreeShape, ShadowsAgree
  <2> QED BY <2>2, MovableIsLoose DEF InsertBefore, Used, Movable, IsElement
<1>3. p \notin Promise!Below(n)
  <2>1. p # n
    <3>1. CASE first[n] = None
      BY <3>1, <1>1, HasFirst, InvOfParts DEF TreeShape
    <3>2. CASE first[n] # None
      <4>1. n \notin Above(p)
        BY <3>2 DEF InsertBefore, WouldCreateCycle
      <4> QED BY <4>1, <1>1, UpTyped, AboveFacts DEF TreeShape
    <3> QED BY <3>1, <3>2
  <2>2. n \notin Above(p)
    BY <2>1, <1>1, LeafNotAbove, InvOfParts DEF InsertBefore, WouldCreateCycle, TreeShape
  <2> QED BY <2>2, <1>1, BelowIff
<1>4. e \in Promise!Items(Lists[p]) \ {n}
  BY <1>1, ListHolds DEF Lists
<1>5. Lists' = [Promise!Removed(n) EXCEPT ![p] = Promise!Before(@, e, n)]
  <2>1. \A m \in Nodes : Children(m)' =
           IF m = p THEN Promise!Before(Promise!Without(Children(m), n), e, n)
           ELSE Promise!Without(Children(m), n)
    BY InsertLists
  <2>2. Lists' = [m \in Nodes |-> Children(m)']
    BY DEF Lists
  <2> HIDE DEF p
  <2> QED BY <1>1, <2>1, <2>2, RemovedIs
<1>6. {m \in Nodes : connected'[m]} = Promise!Below(Document)'
  BY ConnectedBelowNext
<1>7. UNCHANGED <<kind, root>>
  BY DEF InsertBefore, shadow
<1> HIDE DEF p
<1>8. Promise!Insert(p, e, n)
  BY <1>1, <1>2, <1>3, <1>4, <1>5, <1>6, <1>7 DEF Promise!Insert, Lists
<1> QED BY <1>1, <1>8 DEF p

LEMMA DetachPromised ==
  ASSUME TreeShape, TreeShape', NEW n \in Nodes, Detach(n)
  PROVE  Promise!Remove(n)
<1>1. Lists' = Promise!Removed(n)
  <2>1. \A m \in Nodes : Children(m)' = Promise!Without(Children(m), n)
    BY DetachLists
  <2>2. Lists' = [m \in Nodes |-> Children(m)']
    BY DEF Lists
  <2> QED BY <2>1, <2>2, RemovedIs
<1>2. {m \in Nodes : connected'[m]} = Promise!Below(Document)'
  BY ConnectedBelowNext
<1>3. UNCHANGED <<kind, root>>
  BY DEF Detach, shadow
<1> QED BY <1>1, <1>2, <1>3 DEF Promise!Remove, Lists

LEMMA SamePromised ==
  ASSUME TreeShape, TreeShape', UNCHANGED <<links, connected, shadow>>
  PROVE  UNCHANGED <<Lists, root, {n \in Nodes : connected[n]}>>
<1>1. Lists' = [m \in Nodes |-> Children(m)'] /\ \A m \in Nodes : Children(m)' = Children(m)
  BY SameLists DEF Lists
<1>2. Lists' = Lists
  BY <1>1 DEF Lists
<1> QED BY <1>2 DEF shadow

LEMMA AttachPromised ==
  ASSUME TreeShape, TreeShape', NEW h \in Nodes, NEW r \in Nodes, AttachShadow(h, r),
         kind[h] = "element", kind[r] # "element", root[h] = None,
         kind' = [kind EXCEPT ![r] = "fragment"]
  PROVE  Promise!AttachShadow(h, r)
<1>1. Lists' = Lists
  <2>1. Lists' = [m \in Nodes |-> Children(m)'] /\ \A m \in Nodes : Children(m)' = Children(m)
    BY SameLists DEF AttachShadow, Lists
  <2> QED BY <2>1 DEF Lists
<1>2. {m \in Nodes : connected'[m]} = Promise!Below(Document)'
  BY ConnectedBelowNext
<1>3. root' = [root EXCEPT ![h] = r]
  BY DEF AttachShadow
<1> QED BY <1>1, <1>2, <1>3 DEF Promise!AttachShadow, Lists

LEMMA NextPromised ==
  ASSUME DocumentMoves = FALSE, TreeShape, TreeShape', [Next]_vars
  PROVE  [Promise!Next]_(Promise!vars)
<1> USE TreeAssumption
<1>1. ASSUME NEW p \in Nodes, NEW c \in Nodes, AppendChild(p, c) PROVE Promise!Next
  BY <1>1, AppendPromised DEF Promise!Next
<1>2. ASSUME NEW e \in Nodes, NEW n \in Nodes, InsertBefore(e, n) PROVE Promise!Next
  BY <1>2, InsertPromised DEF Promise!Next
<1>3. ASSUME NEW n \in Nodes, RemoveChild(n) PROVE [Promise!Next]_(Promise!vars)
  <2>1. CASE Detach(n)
    BY <2>1, DetachPromised DEF Promise!Next
  <2>2. CASE UNCHANGED <<kind, links, connected, shadow>>
    BY <2>2, SamePromised DEF Promise!vars, Lists
  <2> QED BY <2>1, <2>2, <1>3 DEF RemoveChild
<1>4. ASSUME DetachNext PROVE Promise!Next
  <2>1. first[clearing] \in Nodes /\ Detach(first[clearing])
    BY <1>4 DEF DetachNext, TreeShape, TypeOK, Link
  <2> QED BY <2>1, DetachPromised DEF Promise!Next
<1>5. ASSUME NEW h \in Nodes, NEW r \in Nodes, AttachShadowRoot(h, r) PROVE Promise!Next
  <2>1. /\ AttachShadow(h, r) /\ kind[h] = "element" /\ kind[r] # "element"
        /\ root[h] = None /\ kind' = [kind EXCEPT ![r] = "fragment"]
    BY <1>5 DEF AttachShadowRoot, Used, IsElement
  <2> QED BY <2>1, AttachPromised DEF Promise!Next
<1>6. ASSUME NEW h \in Nodes, NEW t \in Nodes, AttachDeclarativeShadow(h, t) PROVE Promise!Next
  <2>0. PICK r \in Nodes : r = contents[t]
    BY <1>6 DEF AttachDeclarativeShadow, TreeShape, TypeOK, Link
  <2>1. /\ r \in Nodes /\ AttachShadow(h, r) /\ kind[h] = "element" /\ kind[r] = "fragment"
        /\ root[h] = None /\ kind' = kind
    BY <1>6, <2>0 DEF AttachDeclarativeShadow, IsElement, TreeShape, TypeOK, ShadowsAgree, Link
  <2>2. kind' = [kind EXCEPT ![r] = "fragment"] /\ kind[r] # "element"
    BY <2>1 DEF TreeShape, TypeOK
  <2>3. Promise!AttachShadow(h, r)
    BY <2>1, <2>2, AttachPromised
  <2> QED BY <2>1, <2>3 DEF Promise!Next
<1>7. ASSUME NEW n \in Nodes, NEW k \in {"element", "fragment"}, kind[n] = "unused",
             kind' = [kind EXCEPT ![n] = k], UNCHANGED <<links, connected, shadow>>
      PROVE  Promise!Next
  <2>1. Promise!New(n, k)
    BY <1>7, SamePromised DEF Promise!New, Lists
  <2> QED BY <2>1 DEF Promise!Next
<1>8. ASSUME NEW n \in Nodes, NEW i \in Ids \cup {None}, NewNode(n, i) PROVE Promise!Next
  BY <1>7, <1>8 DEF NewNode, Used
<1>9. ASSUME NEW n \in Nodes, NewFragment(n) PROVE Promise!Next
  BY <1>7, <1>9 DEF NewFragment, Used
<1>10. ASSUME NEW t \in Nodes, NEW n \in Nodes, TemplateContents(t, n) PROVE Promise!Next
  BY <1>7, <1>10 DEF TemplateContents, Used
<1>11. ASSUME \/ \E n \in Nodes : \/ \E i \in Ids \cup {None} : SetId(n, i)
                                  \/ SetInnerHtml(n) \/ UpdateCssom(n)
              \/ Cleared \/ UNCHANGED vars
       PROVE  UNCHANGED Promise!vars
  <2>1. UNCHANGED <<kind, links, connected, shadow>>
    BY <1>11 DEF SetId, SetInnerHtml, UpdateCssom, Cleared, vars
  <2> QED BY <2>1, SamePromised DEF Promise!vars, Lists
<1> QED BY <1>1, <1>2, <1>3, <1>4, <1>5, <1>6, <1>8, <1>9, <1>10, <1>11 DEF Next

\* While scripts do not move the document itself, the linked tree implements the tree
\* of the DOM standard: appending, inserting before, removing and attaching a shadow
\* root do to the lists of children, and to the set of connected nodes, what they say
\* (append_child, insert_before, detach, remove_child, attach_shadow_root of tree.rs).
THEOREM Promised ==
  ASSUME DocumentMoves = FALSE
  PROVE  Spec => IsPromisedTree
<1>1. Init => Promise!Init
  BY InitPromised
<1>2. TreeShape /\ TreeShape' /\ [Next]_vars => [Promise!Next]_(Promise!vars)
  BY NextPromised
<1> QED BY <1>1, <1>2, ShapeInvariance, PTL DEF Spec, IsPromisedTree, Promise!Spec

(* Functions that follow a pointer F until they come to B, and return V there: *)
(* there always is one.                                                        *)

Follow(D, B, F, V, g) == g = [x \in D |-> IF x \in B THEN V[x] ELSE g[F[x]]]
Reaches(D, B, F, x, b) ==
  \A S \in SUBSET D : x \in S /\ (\A y \in S \ B : F[y] \in S) => b \in S

LEMMA FollowExists ==
  ASSUME NEW D, NEW B \in SUBSET D, NEW F, NEW V, \A x \in D \ B : F[x] \in D
  PROVE  \E g : Follow(D, B, F, V, g)
<1> DEFINE Stops(x) == {b \in B : Reaches(D, B, F, x, b)}
           g == [x \in D |-> V[CHOOSE b : b \in Stops(x)]]
<1>1. ASSUME NEW x \in B PROVE g[x] = V[x]
  <2>1. Stops(x) = {x}
    <3>1. \A b \in Stops(x) : b = x
      <4> SUFFICES ASSUME NEW b \in Stops(x) PROVE b = x
        OBVIOUS
      <4>1. {x} \in SUBSET D /\ x \in {x} /\ \A y \in {x} \ B : F[y] \in {x}
        OBVIOUS
      <4>2. b \in {x}
        BY <4>1 DEF Reaches
      <4> QED BY <4>2
    <3>2. x \in Stops(x)
      BY DEF Reaches
    <3> QED BY <3>1, <3>2
  <2>2. (CHOOSE b : b \in Stops(x)) = x
    <3> HIDE DEF Stops
    <3> QED BY <2>1
  <2> QED BY <2>2
<1>2. ASSUME NEW x \in D \ B PROVE g[x] = g[F[x]]
  <2>0. F[x] \in D
    OBVIOUS
  <2>1. ASSUME NEW b \in B, Reaches(D, B, F, x, b) PROVE Reaches(D, B, F, F[x], b)
    <3> SUFFICES ASSUME NEW S \in SUBSET D, F[x] \in S, \A y \in S \ B : F[y] \in S
                 PROVE  b \in S
      BY DEF Reaches
    <3>1. /\ S \cup {x} \in SUBSET D /\ x \in S \cup {x}
          /\ \A y \in (S \cup {x}) \ B : F[y] \in S \cup {x}
      OBVIOUS
    <3>2. b \in S \cup {x}
      BY <3>1, <2>1 DEF Reaches
    <3> QED BY <3>2
  <2>2. ASSUME NEW b \in B, Reaches(D, B, F, F[x], b) PROVE Reaches(D, B, F, x, b)
    BY <2>2 DEF Reaches
  <2>3. Stops(x) = Stops(F[x])
    BY <2>1, <2>2
  <2> HIDE DEF Stops
  <2> QED BY <2>0, <2>3
<1>3. g = [x \in D |-> IF x \in B THEN V[x] ELSE g[F[x]]]
  <2>1. \A x \in D : g[x] = IF x \in B THEN V[x] ELSE g[F[x]]
    <3> HIDE DEF g
    <3> QED BY <1>1, <1>2
  <2>2. g = [x \in D |-> g[x]]
    OBVIOUS
  <2> HIDE DEF g
  <2> QED BY <2>1, <2>2
<1> QED BY <1>3 DEF Follow

(* The arena is finite. *)

\* Pointers that lead from S to S and never meet come from everywhere in S.
LEMMA ClosedIsOnto ==
  ASSUME NEW S \in SUBSET Nodes, NEW F, \A x \in S : F[x] \in S,
         \A x, y \in S : F[x] = F[y] => x = y
  PROVE  \A y \in S : \E x \in S : F[x] = y
<1> DEFINE f == [x \in S |-> F[x]]
<1>1. IsFiniteSet(S)
  BY TreeAssumption, FS_Subset
<1>2. f \in Injection(S, S)
  BY DEF Injection, IsInjective
<1>3. f \in Surjection(S, S)
  <2> HIDE DEF f
  <2> QED BY <1>1, <1>2, FS_Injection
<1>4. \A y \in S : \E x \in S : f[x] = y
  <2> HIDE DEF f
  <2> QED BY <1>3 DEF Surjection
<1> QED BY <1>4

\* A set of nodes has one without children in the set.
LEMMA Leafward ==
  ASSUME TreeShape, NEW S \in (SUBSET Nodes) \ {{}}
  PROVE  \E z \in S : \A x \in S : parent[x] # z
<1> SUFFICES ASSUME \A z \in S : \E x \in S : parent[x] = z PROVE FALSE
  OBVIOUS
<1> DEFINE c == [z \in Nodes |-> CHOOSE x \in S : parent[x] = z]
<1>1. \A z \in S : c[z] \in S /\ parent[c[z]] = z
  OBVIOUS
<1> HIDE DEF c
<1>2. \A y \in S : \E x \in S : c[x] = y
  BY <1>1, ClosedIsOnto
<1>3. \A y \in S : parent[y] \in S
  BY <1>1, <1>2
<1>4. \A y \in S : Up(y) \in S
  BY <1>3, TreeAssumption DEF Up
<1> QED BY <1>4 DEF TreeShape, NoCycles

(* What the recursive functions of the walks compute, one step at a time. *)

LEMMA ClimbStep ==
  ASSUME TypeOK, NEW r \in Nodes, NEW n \in Nodes
  PROVE  Climb(r, n) = IF n = r THEN None
                       ELSE IF next[n] # None THEN next[n]
                       ELSE IF parent[n] = None THEN None ELSE Climb(r, parent[n])
<1> DEFINE Is(g) == g = [x \in Nodes |->
                           IF x = r THEN None ELSE IF next[x] # None THEN next[x]
                           ELSE IF parent[x] = None THEN None ELSE g[parent[x]]]
           up == CHOOSE up : Is(up)
           B == {x \in Nodes : x = r \/ next[x] # None \/ parent[x] = None}
           V == [x \in Nodes |-> IF x = r THEN None ELSE IF next[x] # None THEN next[x] ELSE None]
<1>0. parent \in Pointers
  BY DEF TypeOK, Pointers
<1>1. PICK g : Follow(Nodes, B, parent, V, g)
  <2>1. B \in SUBSET Nodes /\ \A x \in Nodes \ B : parent[x] \in Nodes
    BY <1>0 DEF Pointers, Link
  <2> HIDE DEF B, V
  <2> QED BY <2>1, FollowExists
<1>2. Is(g)
  <2>1. g = [x \in Nodes |-> IF x \in B THEN V[x] ELSE g[parent[x]]]
    BY <1>1 DEF Follow
  <2>2. ASSUME NEW x \in Nodes
        PROVE  (IF x \in B THEN V[x] ELSE g[parent[x]])
               = IF x = r THEN None ELSE IF next[x] # None THEN next[x]
                 ELSE IF parent[x] = None THEN None ELSE g[parent[x]]
    OBVIOUS
  <2> HIDE DEF B, V
  <2> QED BY <2>1, <2>2, Zenon
<1>3. Is(up)
  <2> HIDE DEF Is
  <2> QED BY <1>2
<1>4. \A x \in Nodes : up[x] = IF x = r THEN None ELSE IF next[x] # None THEN next[x]
                               ELSE IF parent[x] = None THEN None ELSE up[parent[x]]
  <2> HIDE DEF up
  <2> QED BY <1>3
<1>5. \A x : Climb(r, x) = up[x]
  BY Zenon DEF Climb
<1> HIDE DEF up
<1> QED BY <1>4, <1>5

\* prev_in_subtree descends to the last descendant.
Deepest(n) ==
  LET deepest[x \in Nodes] == IF last[x] = None THEN x ELSE deepest[last[x]]
  IN  deepest[n]

LEMMA PrevIs ==
  ASSUME NEW r \in Nodes, NEW n \in Nodes
  PROVE  PrevInSubtree(r, n) = IF n = r THEN None
                               ELSE IF prev[n] = None THEN parent[n] ELSE Deepest(prev[n])
  BY Zenon DEF PrevInSubtree, Deepest

LEMMA DeepestStep ==
  ASSUME TypeOK, NEW n \in Nodes
  PROVE  Deepest(n) = IF last[n] = None THEN n ELSE Deepest(last[n])
<1> DEFINE Is(g) == g = [x \in Nodes |-> IF last[x] = None THEN x ELSE g[last[x]]]
           deepest == CHOOSE deepest : Is(deepest)
           B == {x \in Nodes : last[x] = None}
           V == [x \in Nodes |-> x]
<1>0. last \in Pointers
  BY DEF TypeOK, Pointers
<1>1. PICK g : Follow(Nodes, B, last, V, g)
  <2>1. B \in SUBSET Nodes /\ \A x \in Nodes \ B : last[x] \in Nodes
    BY <1>0 DEF Pointers, Link
  <2> HIDE DEF B, V
  <2> QED BY <2>1, FollowExists
<1>2. Is(g)
  <2>1. g = [x \in Nodes |-> IF x \in B THEN V[x] ELSE g[last[x]]]
    BY <1>1 DEF Follow
  <2>2. ASSUME NEW x \in Nodes
        PROVE  (IF x \in B THEN V[x] ELSE g[last[x]])
               = IF last[x] = None THEN x ELSE g[last[x]]
    OBVIOUS
  <2> HIDE DEF B, V
  <2> QED BY <2>1, <2>2, Zenon
<1>3. Is(deepest)
  <2> HIDE DEF Is
  <2> QED BY <1>2
<1>4. \A x \in Nodes : deepest[x] = IF last[x] = None THEN x ELSE deepest[last[x]]
  <2> HIDE DEF deepest
  <2> QED BY <1>3
<1>5. \A x : Deepest(x) = deepest[x]
  BY Zenon DEF Deepest
<1> HIDE DEF deepest
<1> QED BY <1>4, <1>5

\* The search of get_element_by_id from a node, or from None behind the last one.
ScanFrom(i, n) ==
  LET scan[x \in Link] == IF x = None \/ ident[x] = i THEN x
                          ELSE scan[NextInSubtree(Document, x)]
  IN  scan[n]

LEMMA ScanIs ==
  ASSUME NEW i \in Ids
  PROVE  ScanForId(i) = ScanFrom(i, NextInSubtree(Document, Document))
  BY Zenon DEF ScanForId, ScanFrom

LEMMA ScanStep ==
  ASSUME TypeOK, \A x \in Nodes : NextInSubtree(Document, x) \in Link,
         NEW i \in Ids, NEW n \in Link
  PROVE  ScanFrom(i, n) = IF n = None \/ ident[n] = i THEN n
                          ELSE ScanFrom(i, NextInSubtree(Document, n))
<1> DEFINE N == [x \in Nodes |-> NextInSubtree(Document, x)]
           Is(g) == g = [x \in Link |-> IF x = None \/ ident[x] = i THEN x
                                        ELSE g[NextInSubtree(Document, x)]]
           scan == CHOOSE scan : Is(scan)
           B == {x \in Link : x = None \/ ident[x] = i}
           V == [x \in Link |-> x]
<1>1. PICK g : Follow(Link, B, N, V, g)
  <2>1. B \in SUBSET Link /\ \A x \in Link \ B : N[x] \in Link
    BY DEF Link
  <2> HIDE DEF B, V, N
  <2> QED BY <2>1, FollowExists
<1>2. Is(g)
  <2>1. g = [x \in Link |-> IF x \in B THEN V[x] ELSE g[N[x]]]
    BY <1>1 DEF Follow
  <2>2. ASSUME NEW x \in Link
        PROVE  (IF x \in B THEN V[x] ELSE g[N[x]])
               = IF x = None \/ ident[x] = i THEN x ELSE g[NextInSubtree(Document, x)]
    BY DEF Link
  <2> HIDE DEF B, V, N
  <2> QED BY <2>1, <2>2, Zenon
<1>3. Is(scan)
  <2> HIDE DEF Is
  <2> QED BY <1>2
<1>4. \A x \in Link : scan[x] = IF x = None \/ ident[x] = i THEN x
                                ELSE scan[NextInSubtree(Document, x)]
  <2> HIDE DEF scan
  <2> QED BY <1>3
<1>5. \A x : ScanFrom(i, x) = scan[x]
  BY Zenon DEF ScanFrom
<1> HIDE DEF scan
<1> QED BY <1>4, <1>5

\* A node is below r when its parent is r or below it.
LEMMA LightParent ==
  ASSUME TreeShape, NEW r \in Nodes, NEW x \in Nodes
  PROVE  x \in Light(r) <=> parent[x] \in Light(r) \cup {r}
<1> USE TreeAssumption
<1>0. TypeOK /\ Grounded(Ups) /\ parent[x] \in Link /\ r \notin Light(r)
  BY Grounds, LightFacts DEF TreeShape, TypeOK
<1>1. ASSUME x \in Light(r) PROVE parent[x] \in Light(r) \cup {r}
  <2>1. x # r /\ r \in Chain(x)
    BY <1>0, <1>1, LightIff
  <2>2. parent[x] \in Nodes /\ r \in Chain(parent[x])
    BY <1>0, <2>1, ChainStep DEF Link
  <2> QED BY <2>2, LightIff
<1>2. ASSUME parent[x] \in Light(r) \cup {r} PROVE x \in Light(r)
  <2>1. parent[x] \in Nodes /\ parent[x] # None
    BY <1>0, <1>2, LightFacts
  <2>2. r \in Chain(parent[x])
    BY <1>2, <2>1, LightIff
  <2>3. r \in Chain(x)
    BY <1>0, <2>1, <2>2, ChainStep
  <2>4. x # r
    <3> SUFFICES ASSUME x = r PROVE FALSE
      OBVIOUS
    <3>1. Up(r) = parent[x]
      BY <2>1 DEF Up
    <3>2. r \in Above(Up(r))
      BY <1>0, <2>1, <2>2, <3>1, ChainIsAbove
    <3> QED BY <1>0, <2>1, <3>1, <3>2, NoWayRound
  <2> QED BY <2>3, <2>4, LightIff
<1> QED BY <1>1, <1>2

\* The links, as the walks use them.
LEMMA Neighbours ==
  ASSUME TreeShape, NEW x \in Nodes
  PROVE  /\ first[x] # None => first[x] \in Nodes /\ parent[first[x]] = x /\ prev[first[x]] = None
         /\ last[x] # None => last[x] \in Nodes /\ parent[last[x]] = x /\ next[last[x]] = None
         /\ next[x] # None => next[x] \in Nodes /\ parent[next[x]] = parent[x] /\ prev[next[x]] = x
         /\ prev[x] # None => prev[x] \in Nodes /\ parent[prev[x]] = parent[x] /\ next[prev[x]] = x
         /\ first[x] = None <=> last[x] = None
         /\ parent[x] # None => /\ parent[x] \in Nodes
                                /\ prev[x] = None => first[parent[x]] = x
                                /\ next[x] = None => last[parent[x]] = x
         /\ parent[x] = None => prev[x] = None /\ next[x] = None
  BY DEF TreeShape, TypeOK, LinksAgree, Link

\* Climbing from x ends at None or behind a node whose last descendant is x's.
LEMMA ClimbFrom ==
  ASSUME TreeShape, NEW r \in Nodes, NEW x \in Light(r) \cup {r}, Climb(r, x) # None
  PROVE  /\ Climb(r, x) \in Light(r) /\ prev[Climb(r, x)] \in Nodes
         /\ Deepest(prev[Climb(r, x)]) = Deepest(x)
<1> USE TreeAssumption
<1> DEFINE Good(z) == Climb(r, z) # None =>
                        /\ Climb(r, z) \in Light(r) /\ prev[Climb(r, z)] \in Nodes
                        /\ Deepest(prev[Climb(r, z)]) = Deepest(z)
           S == {z \in Light(r) \cup {r} : ~Good(z)}
<1>0. TypeOK /\ Light(r) \cup {r} \subseteq Nodes /\ r \notin Light(r)
  BY LightFacts DEF TreeShape
<1> SUFFICES ASSUME S # {} PROVE FALSE
  OBVIOUS
<1>1. PICK z \in S : Up(z) \notin S
  <2>1. S \in (SUBSET Nodes) \ {{}}
    BY <1>0
  <2> HIDE DEF S
  <2> QED BY <2>1 DEF TreeShape, NoCycles
<1>2. z \in Nodes /\ z \in Light(r) \cup {r} /\ ~Good(z)
  BY <1>0, <1>1
<1>3. Climb(r, z) = IF z = r THEN None
                    ELSE IF next[z] # None THEN next[z]
                    ELSE IF parent[z] = None THEN None ELSE Climb(r, parent[z])
  BY <1>0, <1>2, ClimbStep
<1>4. z # r /\ z \in Light(r)
  BY <1>2, <1>3
<1>5. parent[z] \in Light(r) \cup {r}
  BY <1>2, <1>4, LightParent
<1>6. CASE next[z] # None
  <2>1. next[z] \in Nodes /\ parent[next[z]] = parent[z] /\ prev[next[z]] = z
    BY <1>2, <1>6, Neighbours
  <2>2. next[z] \in Light(r)
    BY <2>1, <1>5, LightParent
  <2> QED BY <1>2, <1>3, <1>4, <1>6, <2>1, <2>2
<1>7. CASE next[z] = None
  <2>1. parent[z] # None /\ parent[z] \in Nodes
    BY <1>0, <1>5
  <2>2. last[parent[z]] = z
    BY <1>2, <1>7, <2>1, Neighbours
  <2>3. Deepest(parent[z]) = Deepest(z)
    BY <1>0, <1>2, <2>1, <2>2, DeepestStep
  <2>4. Climb(r, z) = Climb(r, parent[z])
    BY <1>3, <1>4, <1>7, <2>1
  <2>5. Good(parent[z])
    <3>1. Up(z) = parent[z]
      BY <2>1 DEF Up
    <3> HIDE DEF Good
    <3> QED BY <1>1, <1>5, <3>1
  <2>6. Good(z)
    BY <2>3, <2>4, <2>5
  <2> QED BY <2>6, <1>2
<1> QED BY <1>6, <1>7

\* The last descendant of w, and the climb from there.
LEMMA DeepestOf ==
  ASSUME TreeShape, NEW r \in Nodes, NEW w \in Light(r)
  PROVE  /\ Deepest(w) \in Light(r) /\ last[Deepest(w)] = None
         /\ Climb(r, Deepest(w)) = Climb(r, w)
<1> USE TreeAssumption
<1> DEFINE Good(z) == /\ Deepest(z) \in Light(r) /\ last[Deepest(z)] = None
                      /\ Climb(r, Deepest(z)) = Climb(r, z)
           S == {z \in Light(r) : ~Good(z)}
<1>0. TypeOK /\ Light(r) \subseteq Nodes /\ r \notin Light(r)
  BY LightFacts DEF TreeShape
<1> SUFFICES ASSUME S # {} PROVE FALSE
  OBVIOUS
<1>1. PICK z \in S : \A x \in S : parent[x] # z
  <2>1. S \in (SUBSET Nodes) \ {{}}
    BY <1>0
  <2> HIDE DEF S
  <2> QED BY <2>1, Leafward
<1>2. z \in Nodes /\ z \in Light(r) /\ ~Good(z)
  BY <1>0, <1>1
<1>3. Deepest(z) = IF last[z] = None THEN z ELSE Deepest(last[z])
  BY <1>0, <1>2, DeepestStep
<1>4. CASE last[z] = None
  BY <1>2, <1>3, <1>4
<1>5. CASE last[z] # None
  <2> DEFINE l == last[z]
  <2>1. l \in Nodes /\ parent[l] = z /\ next[l] = None
    BY <1>2, <1>5, Neighbours
  <2> HIDE DEF l
  <2>2. l \in Light(r) /\ l # r
    BY <1>0, <1>2, <2>1, LightParent
  <2>3. l \notin S
    <3> HIDE DEF S
    <3> QED BY <1>1, <2>1
  <2>4. Good(l)
    <3> HIDE DEF Good
    <3> QED BY <2>2, <2>3
  <2>5. Climb(r, l) = Climb(r, z)
    <3>1. Climb(r, l) = IF l = r THEN None
                        ELSE IF next[l] # None THEN next[l]
                        ELSE IF parent[l] = None THEN None ELSE Climb(r, parent[l])
      BY <1>0, <2>1, ClimbStep
    <3>2. z # None
      BY <1>2
    <3> QED BY <2>1, <2>2, <3>1, <3>2
  <2>6. Deepest(z) = Deepest(l)
    BY <1>3, <1>5 DEF l
  <2>7. Good(z)
    BY <2>4, <2>5, <2>6
  <2> QED BY <2>7, <1>2
<1> QED BY <1>4, <1>5

LEMMA NextIsInside ==
  ASSUME TreeShape, NEW r \in Nodes, NEW x \in Light(r) \cup {r}, NextInSubtree(r, x) # None
  PROVE  /\ NextInSubtree(r, x) \in Light(r)
         /\ PrevInSubtree(r, NextInSubtree(r, x)) = x
<1> USE TreeAssumption
<1>0. TypeOK /\ x \in Nodes /\ Light(r) \subseteq Nodes /\ r \notin Light(r)
  BY LightFacts DEF TreeShape
<1> DEFINE y == NextInSubtree(r, x)
<1>1. CASE first[x] # None
  <2>1. y = first[x]
    BY <1>1 DEF NextInSubtree
  <2>2. y \in Nodes /\ parent[y] = x /\ prev[y] = None
    BY <1>0, <1>1, <2>1, Neighbours
  <2> HIDE DEF y
  <2>3. y \in Light(r) /\ y # r
    BY <1>0, <2>2, LightParent
  <2>4. PrevInSubtree(r, y) = x
    BY <2>2, <2>3, PrevIs
  <2> QED BY <2>3, <2>4 DEF y
<1>2. CASE first[x] = None
  <2>1. y = Climb(r, x) /\ y # None
    BY <1>2 DEF NextInSubtree
  <2> HIDE DEF y
  <2>2. y \in Light(r) /\ prev[y] \in Nodes /\ Deepest(prev[y]) = Deepest(x)
    BY <2>1, ClimbFrom
  <2>3. Deepest(x) = x
    <3>1. last[x] = None
      BY <1>0, <1>2, Neighbours
    <3> QED BY <1>0, <3>1, DeepestStep
  <2>4. PrevInSubtree(r, y) = IF y = r THEN None
                              ELSE IF prev[y] = None THEN parent[y] ELSE Deepest(prev[y])
    BY <1>0, <2>2, PrevIs
  <2>5. PrevInSubtree(r, y) = x
    BY <1>0, <2>2, <2>3, <2>4
  <2> QED BY <2>2, <2>5 DEF y
<1> QED BY <1>1, <1>2

\* What the walk comes from.
LEMMA ComesFrom ==
  ASSUME TreeShape, NEW r \in Nodes, NEW y \in Light(r)
  PROVE  \E x \in Light(r) \cup {r} : NextInSubtree(r, x) = y
<1> USE TreeAssumption
<1>0. TypeOK /\ y \in Nodes /\ Light(r) \subseteq Nodes /\ r \notin Light(r)
  BY LightFacts DEF TreeShape
<1>1. parent[y] \in Light(r) \cup {r} /\ parent[y] \in Nodes /\ parent[y] # None
  BY <1>0, LightParent
<1>2. CASE prev[y] = None
  <2>1. first[parent[y]] = y
    BY <1>0, <1>1, <1>2, Neighbours
  <2>2. NextInSubtree(r, parent[y]) = y
    BY <1>0, <2>1 DEF NextInSubtree
  <2> QED BY <1>1, <2>2
<1>3. CASE prev[y] # None
  <2>1. PICK w \in Nodes : w = prev[y] /\ parent[w] = parent[y] /\ next[w] = y
    BY <1>0, <1>3, Neighbours
  <2>2. w \in Light(r) /\ w # r
    BY <1>0, <1>1, <2>1, LightParent
  <2>3. Climb(r, w) = y
    <3>1. Climb(r, w) = IF w = r THEN None
                        ELSE IF next[w] # None THEN next[w]
                        ELSE IF parent[w] = None THEN None ELSE Climb(r, parent[w])
      BY <1>0, <2>1, ClimbStep
    <3>2. y # None
      BY <1>0
    <3> QED BY <2>1, <2>2, <3>1, <3>2
  <2>4. PICK x \in Light(r) : x = Deepest(w) /\ last[x] = None /\ Climb(r, x) = Climb(r, w)
    BY <2>2, DeepestOf
  <2>5. first[x] = None
    BY <1>0, <2>4, Neighbours
  <2>6. NextInSubtree(r, x) = y
    BY <2>3, <2>4, <2>5 DEF NextInSubtree
  <2> QED BY <2>6
<1> QED BY <1>2, <1>3

LEMMA TreeWalks ==
  TreeShape => WalksAgree
<1> SUFFICES ASSUME TreeShape, NEW r \in Nodes
             PROVE  /\ \A n \in Light(r) \cup {r} :
                         NextInSubtree(r, n) # None => PrevInSubtree(r, NextInSubtree(r, n)) = n
                    /\ Light(r) = {NextInSubtree(r, n) : n \in Light(r) \cup {r}} \ {None}
  BY DEF WalksAgree
<1>1. \A n \in Light(r) \cup {r} :
        NextInSubtree(r, n) # None => /\ NextInSubtree(r, n) \in Light(r)
                                      /\ PrevInSubtree(r, NextInSubtree(r, n)) = n
  BY NextIsInside
<1>2. \A y \in Light(r) : \E n \in Light(r) \cup {r} : NextInSubtree(r, n) = y
  BY ComesFrom
<1>3. None \notin Light(r)
  BY LightFacts, TreeAssumption DEF TreeShape
<1> QED BY <1>1, <1>2, <1>3

\* While scripts do not move the document itself, the walks forward and backward over
\* any subtree undo each other, and the one forward passes every descendant of its
\* root and nothing else (next_in_subtree and prev_in_subtree of tree.rs).
THEOREM Walks ==
  ASSUME DocumentMoves = FALSE
  PROVE  Spec => []WalksAgree
  BY TreeWalks, ShapeInvariance, PTL

\* The index names elements by the ids they have.
LEMMA NextKeepsIndex ==
  ASSUME TypeOK, IndexAgree, [Next]_vars
  PROVE  IndexAgree'
<1> USE TreeAssumption
<1> SUFFICES ASSUME NEW j \in Ids, index'[j] # None
             PROVE  ident'[index'[j]] = j /\ kind'[index'[j]] = "element"
  BY DEF IndexAgree, IsElement
<1>0. /\ kind \in [Nodes -> {"unused", "element", "fragment"}]
      /\ ident \in [Nodes -> Ids \cup {None}] /\ index \in [Ids -> Link]
      /\ index[j] # None => /\ index[j] \in Nodes /\ ident[index[j]] = j
                            /\ kind[index[j]] = "element"
  BY DEF TypeOK, IndexAgree, IsElement, Link
<1>1. ASSUME NEW n \in Nodes, NEW i \in Ids \cup {None}, NewNode(n, i)
      PROVE  ident'[index'[j]] = j /\ kind'[index'[j]] = "element"
  BY <1>0, <1>1 DEF NewNode, Used
<1>2. ASSUME NEW n \in Nodes, NEW i \in Ids \cup {None}, SetId(n, i)
      PROVE  ident'[index'[j]] = j /\ kind'[index'[j]] = "element"
  <2>1. /\ ident' = [ident EXCEPT ![n] = i] /\ kind' = kind /\ kind[n] = "element"
        /\ index'[j] = IF j = i THEN n ELSE IF j = ident[n] THEN None ELSE index[j]
    BY <1>2 DEF SetId, UpdateIdIndex, IsElement
  <2> QED BY <1>0, <2>1
<1>3. ASSUME NEW n \in Nodes, kind[n] = "unused", kind' = [kind EXCEPT ![n] = "fragment"],
             UNCHANGED naming
      PROVE  ident'[index'[j]] = j /\ kind'[index'[j]] = "element"
  BY <1>0, <1>3 DEF naming
<1>4. ASSUME UNCHANGED <<kind, ident>>, index'[j] = index[j]
      PROVE  ident'[index'[j]] = j /\ kind'[index'[j]] = "element"
  BY <1>0, <1>4
<1>5. ASSUME NEW n \in Nodes, RemoveChild(n)
      PROVE  ident'[index'[j]] = j /\ kind'[index'[j]] = "element"
  <2>1. UNCHANGED <<kind, ident>> /\ index'[j] \in {None, index[j]}
    BY <1>5 DEF RemoveChild, Detach
  <2> QED BY <2>1, <1>4
<1>6. ASSUME NEW h \in Nodes, NEW t \in Nodes, AttachDeclarativeShadow(h, t)
      PROVE  ident'[index'[j]] = j /\ kind'[index'[j]] = "element"
  <2>1. UNCHANGED <<kind, ident>> /\ index'[j] \in {None, index[j]}
    BY <1>6 DEF AttachDeclarativeShadow
  <2> QED BY <2>1, <1>4
<1>7. ASSUME \/ \E n \in Nodes : \/ SetInnerHtml(n) \/ UpdateCssom(n)
                                 \/ \E m \in Nodes : AppendChild(n, m) \/ InsertBefore(n, m)
             \/ DetachNext \/ Cleared \/ UNCHANGED vars
      PROVE  ident'[index'[j]] = j /\ kind'[index'[j]] = "element"
  <2>1. UNCHANGED <<kind, ident, index>>
    BY <1>7 DEF SetInnerHtml, UpdateCssom, AppendChild, InsertBefore, DetachNext, Detach,
                Cleared, vars, naming
  <2> QED BY <2>1, <1>4
<1>8. ASSUME NEW n \in Nodes, NewFragment(n)
      PROVE  ident'[index'[j]] = j /\ kind'[index'[j]] = "element"
  BY <1>3, <1>8 DEF NewFragment, Used
<1>9. ASSUME NEW t \in Nodes, NEW n \in Nodes, TemplateContents(t, n)
      PROVE  ident'[index'[j]] = j /\ kind'[index'[j]] = "element"
  BY <1>3, <1>9 DEF TemplateContents, Used
<1>10. ASSUME NEW h \in Nodes, NEW r \in Nodes, AttachShadowRoot(h, r)
       PROVE  ident'[index'[j]] = j /\ kind'[index'[j]] = "element"
  BY <1>3, <1>10 DEF AttachShadowRoot, Used
<1> QED BY <1>1, <1>2, <1>5, <1>6, <1>7, <1>8, <1>9, <1>10 DEF Next

\* Under the same condition the tree keeps its shape (ShapeInvariance), and what the id
\* index names is an element that has that id: changing an id, wherever the element is,
\* leaves no entry of the old one behind (update_id_index of tree.rs).
THEOREM Invariance ==
  ASSUME DocumentMoves = FALSE
  PROVE  Spec => []TreeInv
<1>1. Init => TreeInv
  <2>1. Init => IndexAgree
    BY DEF Init, IndexAgree
  <2> QED BY <2>1, InitTree DEF TreeInv
<1>2. TreeInv /\ [Next]_vars => TreeInv'
  <2>1. TreeShape => TypeOK
    BY DEF TreeShape
  <2>2. TreeInv /\ [Next]_vars => TreeShape' /\ IndexAgree'
    BY <2>1, NextKeepsTree, NextKeepsIndex DEF TreeInv
  <2> QED BY <2>2 DEF TreeInv
<1> QED BY <1>1, <1>2, PTL DEF Spec

(* Looking an id up. *)

\* Every walk forward ends.
LEMMA WalkEnds ==
  ASSUME TreeShape, NEW r \in Nodes, NEW S \in SUBSET (Light(r) \cup {r}), S # {}
  PROVE  \E x \in S : NextInSubtree(r, x) \notin S
<1> USE TreeAssumption
<1>0. TypeOK /\ Light(r) \subseteq Nodes /\ r \notin Light(r) /\ S \subseteq Nodes
  BY LightFacts DEF TreeShape
<1> SUFFICES ASSUME \A x \in S : NextInSubtree(r, x) \in S PROVE FALSE
  OBVIOUS
<1> DEFINE N == [x \in Nodes |-> NextInSubtree(r, x)]
<1>1. \A x \in S : NextInSubtree(r, x) \in Light(r)
                   /\ PrevInSubtree(r, NextInSubtree(r, x)) = x
  <2> SUFFICES ASSUME NEW x \in S
               PROVE  NextInSubtree(r, x) \in Light(r)
                      /\ PrevInSubtree(r, NextInSubtree(r, x)) = x
    OBVIOUS
  <2>1. NextInSubtree(r, x) # None /\ x \in Light(r) \cup {r}
    BY <1>0
  <2> QED BY <2>1, NextIsInside
\* Going back, the walk stays in S as well.
<1>2. \A y \in S : y \in Light(r) /\ PrevInSubtree(r, y) \in S
  <2>1. /\ \A x \in S : N[x] \in S
        /\ \A x, y \in S : N[x] = N[y] => x = y
    BY <1>0, <1>1
  <2>2. \A y \in S : \E x \in S : N[x] = y
    <3> HIDE DEF N
    <3> QED BY <1>0, <2>1, ClosedIsOnto
  <2> QED BY <1>0, <1>1, <2>2
<1>3. ASSUME NEW y \in S
      PROVE  /\ y \in Nodes /\ parent[y] \in Light(r) \cup {r} /\ parent[y] \in Nodes
             /\ (IF prev[y] = None THEN parent[y] ELSE Deepest(prev[y])) \in S
  <2>1. y \in Nodes /\ y # r /\ y \in Light(r)
    BY <1>0, <1>2
  <2>2. PrevInSubtree(r, y) = IF prev[y] = None THEN parent[y] ELSE Deepest(prev[y])
    BY <2>1, PrevIs
  <2> QED BY <1>0, <1>2, <2>1, <2>2, LightParent
\* A node whose last descendant is in S is in S.
<1>4. ASSUME NEW w \in Light(r), Deepest(w) \in S PROVE w \in S
  <2> DEFINE Bad == {z \in Light(r) : Deepest(z) \in S /\ z \notin S}
  <2> SUFFICES ASSUME Bad # {} PROVE FALSE
    BY <1>4
  <2>1. PICK z \in Bad : \A x \in Bad : parent[x] # z
    <3>1. Bad \in (SUBSET Nodes) \ {{}}
      BY <1>0
    <3> HIDE DEF Bad
    <3> QED BY <3>1, Leafward
  <2>2. z \in Nodes /\ z \in Light(r) /\ Deepest(z) \in S /\ z \notin S
    BY <1>0, <2>1
  <2>3. last[z] # None /\ Deepest(z) = Deepest(last[z])
    BY <1>0, <2>2, DeepestStep
  <2>4. last[z] \in Nodes /\ parent[last[z]] = z
    BY <2>2, <2>3, Neighbours
  <2>5. last[z] \in Light(r)
    BY <2>2, <2>4, LightParent
  <2>6. last[z] \in S
    BY <2>1, <2>2, <2>3, <2>4, <2>5
  <2> DEFINE K == {x \in S : parent[x] = z}
  <2>7. PICK k \in K : prev[k] \notin K
    <3>1. K \in (SUBSET Nodes) \ {{}}
      BY <1>0, <2>4, <2>6
    <3> HIDE DEF K
    <3> QED BY <3>1, Grounds DEF TreeShape, Grounded
  <2>8. k \in S /\ parent[k] = z
    BY <2>7
  <2>9. CASE prev[k] = None
    BY <1>3, <2>2, <2>8, <2>9
  <2>10. CASE prev[k] # None
    <3>1. prev[k] \in Nodes /\ parent[prev[k]] = z /\ Deepest(prev[k]) \in S
      BY <1>3, <2>8, <2>10, Neighbours
    <3>2. prev[k] \in Light(r)
      BY <2>2, <3>1, LightParent
    <3>3. prev[k] \notin S
      BY <2>7, <3>1
    <3> QED BY <2>1, <3>1, <3>2, <3>3
  <2> QED BY <2>9, <2>10
<1>5. PICK y \in S : Up(y) \notin S
  <2>1. S \in (SUBSET Nodes) \ {{}}
    BY <1>0
  <2> QED BY <2>1 DEF TreeShape, NoCycles
<1>6. parent[y] # None /\ Up(y) = parent[y] /\ parent[y] \in Light(r) \cup {r}
  BY <1>3 DEF Up
<1> DEFINE K == {x \in S : parent[x] = parent[y]}
<1>7. PICK k \in K : prev[k] \notin K
  <2>1. K \in (SUBSET Nodes) \ {{}}
    BY <1>0
  <2> HIDE DEF K
  <2> QED BY <2>1, Grounds DEF TreeShape, Grounded
<1>8. k \in S /\ parent[k] = parent[y] /\ k \in Nodes
  BY <1>0, <1>7
<1>9. CASE prev[k] = None
  BY <1>3, <1>5, <1>6, <1>8, <1>9
<1>10. CASE prev[k] # None
  <2>1. prev[k] \in Nodes /\ parent[prev[k]] = parent[y] /\ Deepest(prev[k]) \in S
    BY <1>3, <1>8, <1>10, Neighbours
  <2>2. prev[k] \in Light(r)
    BY <1>6, <2>1, LightParent
  <2>3. prev[k] \in S
    BY <1>4, <2>1, <2>2
  <2> QED BY <1>7, <2>1, <2>3
<1> QED BY <1>9, <1>10

\* A step of any walk leads to a node or to None.
LEMMA NextTyped ==
  ASSUME TreeShape, NEW r \in Nodes, NEW n \in Nodes
  PROVE  NextInSubtree(r, n) \in Link
<1> USE TreeAssumption
<1> DEFINE S == {x \in Nodes : Climb(r, x) \notin Link}
<1>0. TypeOK /\ \A x \in Nodes : first[x] \in Link /\ next[x] \in Link /\ parent[x] \in Link
  BY DEF TreeShape, TypeOK
<1>1. S = {}
  <2> SUFFICES ASSUME S # {} PROVE FALSE
    OBVIOUS
  <2>1. PICK x \in S : Up(x) \notin S
    <3>1. S \in (SUBSET Nodes) \ {{}}
      OBVIOUS
    <3> HIDE DEF S
    <3> QED BY <3>1 DEF TreeShape, NoCycles
  <2>2. x \in Nodes /\ Climb(r, x) \notin Link
    BY <2>1
  <2>3. Climb(r, x) = IF x = r THEN None
                      ELSE IF next[x] # None THEN next[x]
                      ELSE IF parent[x] = None THEN None ELSE Climb(r, parent[x])
    BY <1>0, <2>2, ClimbStep
  <2>4. parent[x] # None /\ Climb(r, parent[x]) \notin Link
    BY <1>0, <2>2, <2>3 DEF Link
  <2>5. parent[x] \in Nodes /\ Up(x) = parent[x]
    BY <1>0, <2>2, <2>4 DEF Link, Up
  <2> QED BY <2>1, <2>4, <2>5
<1> QED BY <1>0, <1>1 DEF NextInSubtree

\* The search finds a node with the id below the document, if there is one.
LEMMA ScanFinds ==
  ASSUME TreeShape, NEW i \in Ids
  PROVE  LET found == {n \in Light(Document) : ident[n] = i}
         IN  IF found = {} THEN ScanForId(i) = None ELSE ScanForId(i) \in found
<1> USE TreeAssumption
<1> DEFINE found == {n \in Light(Document) : ident[n] = i}
           NextOf(x) == NextInSubtree(Document, x)
<1>0. /\ TypeOK /\ Light(Document) \subseteq Nodes /\ Document \notin Light(Document)
      /\ None \notin Light(Document) /\ Document \in Nodes
  <2>1. TypeOK
    BY DEF TreeShape
  <2> QED BY <2>1, LightFacts
<1>1. \A x \in Light(Document) \cup {Document} : NextOf(x) \in Light(Document) \cup {None}
  BY <1>0, NextIsInside
<1>2. ASSUME NEW x \in Link
      PROVE  ScanFrom(i, x) = IF x = None \/ ident[x] = i THEN x ELSE ScanFrom(i, NextOf(x))
  <2>1. \A y \in Nodes : NextInSubtree(Document, y) \in Link
    BY <1>0, NextTyped
  <2> QED BY <1>0, <2>1, ScanStep
<1>3. ScanForId(i) = ScanFrom(i, NextOf(Document))
  BY ScanIs
<1>4. ScanFrom(i, None) = None
  BY <1>2 DEF Link
<1> HIDE DEF NextOf
<1>5. ASSUME NEW z \in Light(Document) PROVE ScanFrom(i, z) \in found \cup {None}
  <2> DEFINE S == {x \in Light(Document) : ScanFrom(i, x) \notin found \cup {None}}
  <2> SUFFICES ASSUME S # {} PROVE FALSE
    OBVIOUS
  <2>1. PICK x \in S : NextOf(x) \notin S
    <3>1. S \in SUBSET (Light(Document) \cup {Document})
      OBVIOUS
    <3> HIDE DEF S
    <3> QED BY <3>1, <1>0, WalkEnds DEF NextOf
  <2>2. x \in Light(Document) /\ x \in Link /\ x # None
    BY <1>0, <2>1 DEF Link
  <2>3. ident[x] # i /\ ScanFrom(i, x) = ScanFrom(i, NextOf(x))
    BY <1>2, <2>1, <2>2
  <2> QED BY <1>1, <1>4, <2>1, <2>2, <2>3
<1>6. ScanForId(i) \in found \cup {None}
  BY <1>0, <1>1, <1>3, <1>4, <1>5
<1>7. ASSUME found # {}, ScanForId(i) = None PROVE FALSE
  <2> DEFINE S == {x \in Light(Document) : ScanFrom(i, x) # None}
  <2>1. ASSUME NEW y \in S PROVE \E x \in S : NextOf(x) = y
    <3>1. PICK x \in Light(Document) \cup {Document} : NextOf(x) = y
      BY <1>0, ComesFrom DEF NextOf
    <3>2. x # Document
      BY <1>3, <1>7, <2>1, <3>1
    <3>3. x \in Link /\ x # None /\ x \in Light(Document)
      BY <1>0, <3>1, <3>2 DEF Link
    <3>4. ScanFrom(i, x) # None
      BY <1>2, <2>1, <3>1, <3>3
    <3> QED BY <3>1, <3>3, <3>4
  <2>2. S # {} /\ S \subseteq Nodes
    <3>1. PICK n \in found : TRUE
      BY <1>7
    <3>2. n \in Link /\ n # None /\ ident[n] = i /\ n \in Light(Document)
      BY <1>0, <3>1 DEF Link
    <3>3. ScanFrom(i, n) = n
      BY <1>2, <3>2
    <3> QED BY <1>0, <3>2, <3>3
  <2> DEFINE from == [y \in Nodes |-> CHOOSE x \in S : NextOf(x) = y]
  <2>3. \A y \in S : from[y] \in S /\ NextOf(from[y]) = y
    <3> HIDE DEF S
    <3> QED BY <2>1, <2>2
  <2> HIDE DEF S, from
  <2>4. \A x \in S : \E y \in S : from[y] = x
    <3>1. \A x, y \in S : from[x] = from[y] => x = y
      BY <2>3
    <3> QED BY <2>2, <2>3, <3>1, ClosedIsOnto
  <2>5. \A x \in S : NextOf(x) \in S
    BY <2>3, <2>4
  <2>6. S \in SUBSET (Light(Document) \cup {Document})
    BY DEF S
  <2> QED BY <2>2, <2>5, <2>6, <1>0, WalkEnds DEF NextOf
<1> QED BY <1>6, <1>7

LEMMA IndexedIsLive ==
  TreeInv => LookupIsLive
<1> SUFFICES ASSUME TreeInv, NEW i \in Ids
             PROVE  LET found == {n \in Light(Document) : ident[n] = i}
                    IN  IF found = {} THEN GetElementById(i) = None
                        ELSE GetElementById(i) \in found
  BY Zenon DEF LookupIsLive
<1> USE TreeAssumption
<1> DEFINE found == {n \in Light(Document) : ident[n] = i}
<1>0. TreeShape /\ IndexAgree
  BY DEF TreeInv
<1>1. IF found = {} THEN ScanForId(i) = None ELSE ScanForId(i) \in found
  BY <1>0, ScanFinds
<1>2. CASE index[i] # None /\ Document \in Chain(index[i])
  <2>1. GetElementById(i) = index[i]
    BY <1>2 DEF GetElementById
  <2>2. index[i] \in Nodes /\ ident[index[i]] = i /\ IsElement(index[i])
    BY <1>0, <1>2 DEF IndexAgree, TreeShape, TypeOK, Link
  <2>3. index[i] # Document
    BY <1>0, <2>2 DEF TreeShape, ShadowsAgree, IsElement
  <2>4. index[i] \in Light(Document)
    BY <1>0, <1>2, <2>2, <2>3, LightIff
  <2> QED BY <2>1, <2>2, <2>4
<1>3. CASE ~(index[i] # None /\ Document \in Chain(index[i]))
  <2>1. GetElementById(i) = ScanForId(i)
    BY <1>3 DEF GetElementById
  <2> QED BY <1>1, <2>1
<1> QED BY <1>2, <1>3

\* While scripts do not move the document itself, getElementById finds an element with
\* the id whenever the document has one, and never one that was removed, lies in a
\* shadow tree or has had its id changed (get_element_by_id, update_id_index and the
\* document-order search of tree.rs).
THEOREM Lookup ==
  ASSUME DocumentMoves = FALSE
  PROVE  Spec => []LookupIsLive
  BY IndexedIsLive, Invariance, PTL
=============================================================================
