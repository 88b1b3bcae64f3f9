----------------------------- MODULE DomPromise -----------------------------
(***************************************************************************)
(* What the tree of DomTree promises, without links: every node has a list *)
(* of children, an element may host a shadow root, and the connected nodes *)
(* are those the document reaches through children and shadow roots.       *)
(***************************************************************************)
EXTENDS Naturals, Sequences, FiniteSets

CONSTANTS Nodes, Document, None
VARIABLES kind, children, root, connected

vars == <<kind, children, root, connected>>

Items(s) == {s[i] : i \in DOMAIN s}
At(s, e) == CHOOSE j \in DOMAIN s : s[j] = e
Without(s, n) ==
  IF n \notin Items(s) THEN s
  ELSE SubSeq(s, 1, At(s, n) - 1) \o SubSeq(s, At(s, n) + 1, Len(s))
Before(s, e, n) ==
  SubSeq(s, 1, At(s, e) - 1) \o <<n>> \o SubSeq(s, At(s, e), Len(s))

\* The nodes n reaches, itself among them.
Below(n) ==
  {x \in Nodes : \A S \in SUBSET Nodes :
     n \in S /\ (\A y \in S : Items(children[y]) \cup ({root[y]} \ {None}) \subseteq S) => x \in S}

Init ==
  /\ kind = [n \in Nodes |-> IF n = Document THEN "fragment" ELSE "unused"]
  /\ children = [n \in Nodes |-> <<>>] /\ root = [n \in Nodes |-> None]
  /\ connected = {Document}

New(n, k) ==
  /\ kind[n] = "unused" /\ k \in {"element", "fragment"}
  /\ kind' = [kind EXCEPT ![n] = k]
  /\ UNCHANGED <<children, root, connected>>

Removed(c) == [n \in Nodes |-> Without(children[n], c)]

\* At the end of the list, or before an element of it.
Insert(p, e, c) ==
  /\ kind[p] # "unused" /\ kind[c] = "element" /\ p \notin Below(c)
  /\ \/ e = None /\ children' = [Removed(c) EXCEPT ![p] = Append(@, c)]
     \/ /\ e \in Items(children[p]) \ {c}
        /\ children' = [Removed(c) EXCEPT ![p] = Before(@, e, c)]
  /\ connected' = Below(Document)'
  /\ UNCHANGED <<kind, root>>

Remove(c) ==
  /\ children' = Removed(c) /\ connected' = Below(Document)'
  /\ UNCHANGED <<kind, root>>

\* The shadow root is a new node, or one that has no place yet.
AttachShadow(h, r) ==
  /\ kind[h] = "element" /\ kind[r] # "element" /\ root[h] = None
  /\ root' = [root EXCEPT ![h] = r]
  /\ kind' = [kind EXCEPT ![r] = "fragment"]
  /\ connected' = Below(Document)'
  /\ UNCHANGED children

Next ==
  \/ \E n \in Nodes, k \in {"element", "fragment"} : New(n, k)
  \/ \E p, c \in Nodes, e \in Nodes \cup {None} : Insert(p, e, c)
  \/ \E c \in Nodes : Remove(c)
  \/ \E h, r \in Nodes : AttachShadow(h, r)

Spec == Init /\ [][Next]_vars
=============================================================================
