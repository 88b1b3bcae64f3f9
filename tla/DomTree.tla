------------------------------ MODULE DomTree ------------------------------
(***************************************************************************)
(* The document tree of crates/obscura-dom/src/tree.rs, as the DOM         *)
(* operations of crates/obscura-js/src/ops.rs drive it: nodes in an arena, *)
(* linked to their parent and siblings, with a connected bit kept up to    *)
(* date on every move, shadow roots beside the child lists, an index of id *)
(* attributes that is only a hint, and the style sheets that scripts have  *)
(* edited.                                                                 *)
(*                                                                         *)
(* Text and comments are elements that no operation gives children; names, *)
(* attributes other than id, and text are left out.  Cloning and parsing   *)
(* are sequences of NewNode, TemplateContents and AppendChild.             *)
(***************************************************************************)
EXTENDS Naturals, Sequences, FiniteSets

CONSTANTS
  Nodes,         \* slots of the arena
  Document,
  None,
  Ids,           \* values of id attributes
  DocumentMoves  \* scripts pass the document itself to appendChild

ASSUME TreeAssumption ==
  /\ None \notin Nodes /\ None \notin Ids
  /\ Document \in Nodes
  /\ DocumentMoves \in BOOLEAN
  /\ IsFiniteSet(Nodes)

Link == Nodes \cup {None}

VARIABLES
  kind,        \* "unused", "element", or "fragment" for NodeData::Document
  parent, first, last, prev, next,
  connected,   \* the bit of each node
  root, host,  \* shadow_roots_by_host and shadow_roots
  contents,    \* template_contents of each element
  ident,       \* the id attribute of each element
  index,       \* id_index
  cssom,       \* owners of a style sheet whose rules a script has edited
  clearing     \* the element whose children set_inner_html is detaching

links == <<parent, first, last, prev, next>>
shadow == <<root, host>>
naming == <<ident, index>>
vars == <<kind, links, connected, shadow, contents, naming, cssom, clearing>>

NoLinks == [n \in Nodes |-> None]

Init ==
  /\ kind = [n \in Nodes |-> IF n = Document THEN "fragment" ELSE "unused"]
  /\ parent = NoLinks /\ first = NoLinks /\ last = NoLinks
  /\ prev = NoLinks /\ next = NoLinks
  /\ connected = [n \in Nodes |-> n = Document]
  /\ root = NoLinks /\ host = NoLinks
  /\ contents = NoLinks
  /\ ident = NoLinks /\ index = [i \in Ids |-> None]
  /\ cssom = {} /\ clearing = None

Used(n) == kind[n] # "unused"
IsElement(n) == kind[n] = "element"
IsShadowRoot(n) == host[n] # None

(* Walks.  What a walk from n reaches is the least set that holds n and is *)
(* closed under the walk's steps.                                          *)

\* set_subtree_connected: children by the sibling links, and shadow roots of hosts.
OwnedClosed(S, n) ==
  \A x \in S : /\ {first[x], root[x]} \subseteq S \cup {None}
               /\ x # n => next[x] \in S \cup {None}
Owned(n) == {x \in Nodes : \A S \in SUBSET Nodes : n \in S /\ OwnedClosed(S, n) => x \in S}

\* host_including_parent, followed to the top.
Up(n) == IF parent[n] # None THEN parent[n] ELSE host[n]
AboveClosed(S) == \A x \in S : Up(x) \in S \cup {None}
Above(n) == {x \in Nodes : \A S \in SUBSET Nodes : n \in S /\ AboveClosed(S) => x \in S}

\* A node and its ancestors() within its own tree.
ChainClosed(S) == \A x \in S : parent[x] \in S \cup {None}
Chain(n) == {x \in Nodes : \A S \in SUBSET Nodes : n \in S /\ ChainClosed(S) => x \in S}

\* children() and descendants().
Children(n) ==
  LET upTo[k \in 0 .. Cardinality(Nodes) + 1] ==
        [x \in Link |-> IF x = None \/ k = 0 THEN <<>> ELSE <<x>> \o upTo[k - 1][next[x]]]
  IN  upTo[Cardinality(Nodes) + 1][first[n]]
LightClosed(S, n) ==
  \A x \in S : first[x] \in S \cup {None} /\ (x # n => next[x] \in S \cup {None})
Light(n) ==
  {x \in Nodes : \A S \in SUBSET Nodes : n \in S /\ LightClosed(S, n) => x \in S} \ {n}

\* The shortcut for leaves: a node without children or shadow root is above none.
WouldCreateCycle(p, c) == (first[c] # None \/ root[c] # None) /\ c \in Above(p)

(* Unlinking: the links as detach_for_reparent leaves them.  The document  *)
(* and shadow roots are never unlinked.                                    *)

Fixed(n) == n = Document \/ IsShadowRoot(n)

ParentOff(n) == IF Fixed(n) THEN parent ELSE [parent EXCEPT ![n] = None]
PrevOff(n) ==
  IF Fixed(n) THEN prev
  ELSE [x \in Nodes |-> IF x = n THEN None ELSE IF x = next[n] THEN prev[n] ELSE prev[x]]
NextOff(n) ==
  IF Fixed(n) THEN next
  ELSE [x \in Nodes |-> IF x = n THEN None ELSE IF x = prev[n] THEN next[n] ELSE next[x]]
FirstOff(n) ==
  IF Fixed(n) THEN first
  ELSE [x \in Nodes |-> IF x = parent[n] /\ prev[n] = None THEN next[n] ELSE first[x]]
LastOff(n) ==
  IF Fixed(n) THEN last
  ELSE [x \in Nodes |-> IF x = parent[n] /\ next[n] = None THEN prev[n] ELSE last[x]]

\* Faulty: the bit of a moved node follows its parent, those below keep theirs.
FaultySetConnected(n, b) == connected' = [connected EXCEPT ![n] = b]

\* set_subtree_connected, where the bit of n is not yet b.
SetConnected(n, b) ==
  connected' = IF connected[n] = b THEN connected
               ELSE [x \in Nodes |-> IF x \in Owned(n) THEN b ELSE connected[x]]

\* Rules edited by scripts go when their owner is disconnected, and when the
\* children of the owner or of a node below it change (invalidate_cssom_source).
Disconnected(n, b) == IF connected[n] /\ ~b THEN Owned(n) ELSE {}

\* Faulty: the new parent's style sheet is not parsed again.
FaultyMoveTo(n, p) ==
  /\ cssom' = cssom \ (Chain(n) \cup Disconnected(n, connected[p]))
  /\ SetConnected(n, connected[p])

\* A node moves to a parent with bit b: what happens to bits and rules.
MoveTo(n, p) ==
  LET off == IF Fixed(n) THEN {} ELSE Chain(n) \cup Disconnected(n, connected[p])
  IN  /\ cssom' = cssom \ (off \cup Chain(p))
      /\ IF Fixed(n) /\ connected[n] THEN UNCHANGED connected
         ELSE SetConnected(n, connected[p])

(* Operations. *)

Idle == clearing = None

\* appendChild and insertBefore take fragments apart: only elements are moved.
Movable(c) == IsElement(c) \/ (DocumentMoves /\ c = Document)

\* Elements start with the id the parser or a clone gives them, or without.
NewNode(n, i) ==
  /\ Idle /\ ~Used(n)
  /\ kind' = [kind EXCEPT ![n] = "element"]
  /\ ident' = [ident EXCEPT ![n] = i]
  /\ index' = [j \in Ids |-> IF j = i /\ index[j] = None THEN n ELSE index[j]]
  /\ UNCHANGED <<links, connected, shadow, contents, cssom, clearing>>

NewFragment(n) ==
  /\ Idle /\ ~Used(n)
  /\ kind' = [kind EXCEPT ![n] = "fragment"]
  /\ UNCHANGED <<links, connected, shadow, contents, naming, cssom, clearing>>

AppendChild(p, c) ==
  /\ Idle /\ p # c /\ Used(p) /\ Movable(c)
  /\ ~IsShadowRoot(c) /\ ~WouldCreateCycle(p, c)
  /\ LET old == LastOff(c)[p]
     IN  /\ parent' = [ParentOff(c) EXCEPT ![c] = p]
         /\ prev' = [PrevOff(c) EXCEPT ![c] = old]
         /\ next' = [x \in Nodes |->
                       IF x = old THEN c ELSE IF x = c THEN None ELSE NextOff(c)[x]]
         /\ first' = [FirstOff(c) EXCEPT ![p] = IF @ = None THEN c ELSE @]
         /\ last' = [LastOff(c) EXCEPT ![p] = c]
  /\ MoveTo(c, p)
  /\ UNCHANGED <<kind, shadow, contents, naming, clearing>>

\* Faulty: the previous sibling of e is read first, and may be n itself.
FaultyInsertBefore(e, n) ==
  /\ Idle /\ e # n /\ Movable(n) /\ parent[e] # None
  /\ ~IsShadowRoot(n) /\ ~WouldCreateCycle(parent[e], n)
  /\ LET p == parent[e]
         before == prev[e]
     IN  /\ parent' = [ParentOff(n) EXCEPT ![n] = p]
         /\ prev' = [PrevOff(n) EXCEPT ![n] = before, ![e] = n]
         /\ next' = [x \in Nodes |->
                       IF x = before THEN n ELSE IF x = n THEN e ELSE NextOff(n)[x]]
         /\ first' = IF before = None THEN [FirstOff(n) EXCEPT ![p] = n] ELSE FirstOff(n)
         /\ last' = LastOff(n)
         /\ MoveTo(n, p)
  /\ UNCHANGED <<kind, shadow, contents, naming, clearing>>

\* The previous sibling of e is read after n has been unlinked.  There is no shortcut
\* for leaves here, and none is needed: the parent of e has a child.
InsertBefore(e, n) ==
  /\ Idle /\ e # n /\ Movable(n) /\ parent[e] # None
  /\ ~IsShadowRoot(n) /\ ~WouldCreateCycle(parent[e], n)
  /\ LET p == parent[e]
         before == PrevOff(n)[e]
     IN  /\ parent' = [ParentOff(n) EXCEPT ![n] = p]
         /\ prev' = [PrevOff(n) EXCEPT ![n] = before, ![e] = n]
         /\ next' = [x \in Nodes |->
                       IF x = before THEN n ELSE IF x = n THEN e ELSE NextOff(n)[x]]
         /\ first' = IF before = None THEN [FirstOff(n) EXCEPT ![p] = n] ELSE FirstOff(n)
         /\ last' = LastOff(n)
         /\ MoveTo(n, p)
  /\ UNCHANGED <<kind, shadow, contents, naming, clearing>>

Detach(n) ==
  /\ Used(n) /\ ~Fixed(n)
  /\ parent' = ParentOff(n) /\ prev' = PrevOff(n) /\ next' = NextOff(n)
  /\ first' = FirstOff(n) /\ last' = LastOff(n)
  /\ cssom' = cssom \ (Chain(n) \cup Disconnected(n, FALSE))
  /\ SetConnected(n, FALSE)
  /\ UNCHANGED <<kind, shadow, contents, ident>>

\* remove_child: the ids below the node are forgotten, whoever has them and whether
\* or not there was anything to detach.
RemoveChild(n) ==
  /\ Idle /\ Used(n)
  /\ \/ Detach(n)
     \/ Fixed(n) /\ UNCHANGED <<kind, links, connected, shadow, contents, ident, cssom>>
  /\ index' = [i \in Ids |-> IF i \in {ident[x] : x \in Light(n) \cup {n}} THEN None
                             ELSE index[i]]
  /\ UNCHANGED clearing

\* set_inner_html detaches the children it found, one after the other; what it
\* then imports are new nodes.
SetInnerHtml(p) ==
  /\ Idle /\ Used(p) /\ p # Document
  /\ clearing' = p
  /\ UNCHANGED <<kind, links, connected, shadow, contents, naming, cssom>>

DetachNext ==
  /\ clearing # None /\ first[clearing] # None
  /\ Detach(first[clearing])
  /\ UNCHANGED <<index, clearing>>

Cleared ==
  /\ clearing # None /\ first[clearing] = None
  /\ clearing' = None
  /\ UNCHANGED <<kind, links, connected, shadow, contents, naming, cssom>>

AttachShadow(h, r) ==
  /\ root' = [root EXCEPT ![h] = r]
  /\ host' = [host EXCEPT ![r] = h]
  /\ SetConnected(r, connected[h])
  /\ UNCHANGED <<links, contents, clearing>>

\* attach_shadow_root allocates the root it attaches.
AttachShadowRoot(h, r) ==
  /\ Idle /\ IsElement(h) /\ root[h] = None /\ ~Used(r)
  /\ kind' = [kind EXCEPT ![r] = "fragment"]
  /\ AttachShadow(h, r)
  /\ UNCHANGED <<naming, cssom>>

\* The parser gives the contents of a template it never inserts to the host, and
\* takes the template's id from the index.
AttachDeclarativeShadow(h, t) ==
  LET r == contents[t] IN
  /\ Idle /\ IsElement(h) /\ root[h] = None
  /\ t # h /\ parent[t] = None /\ first[t] = None
  /\ r # None /\ parent[r] = None /\ first[r] = None /\ ~Fixed(r)
  /\ AttachShadow(h, r)
  /\ index' = [i \in Ids |-> IF i = ident[t] THEN None ELSE index[i]]
  /\ cssom' = cssom \ {t}
  /\ UNCHANGED <<kind, ident>>

TemplateContents(t, n) ==
  /\ Idle /\ IsElement(t) /\ contents[t] = None /\ ~Used(n)
  /\ kind' = [kind EXCEPT ![n] = "fragment"]
  /\ contents' = [contents EXCEPT ![t] = n]
  /\ UNCHANGED <<links, connected, shadow, naming, cssom, clearing>>

\* Faulty: the index keeps the old id.
FaultyUpdateIdIndex(n, old, new) == [i \in Ids |-> IF i = new THEN n ELSE index[i]]

UpdateIdIndex(n, old, new) ==
  [i \in Ids |-> IF i = new THEN n ELSE IF i = old THEN None ELSE index[i]]

\* set_attribute and remove_attribute of the id, in either form; setting the id a
\* node has makes it the indexed one.
SetId(n, i) ==
  /\ Idle /\ IsElement(n)
  /\ ident' = [ident EXCEPT ![n] = i]
  /\ index' = UpdateIdIndex(n, ident[n], i)
  /\ UNCHANGED <<kind, links, connected, shadow, contents, cssom, clearing>>

UpdateCssom(n) ==
  /\ Idle /\ IsElement(n) /\ n \notin cssom
  /\ cssom' = cssom \cup {n}
  /\ UNCHANGED <<kind, links, connected, shadow, contents, naming, clearing>>

Next ==
  \/ \E n \in Nodes :
       \/ \E i \in Ids \cup {None} : NewNode(n, i) \/ SetId(n, i)
       \/ NewFragment(n)
       \/ RemoveChild(n) \/ SetInnerHtml(n) \/ UpdateCssom(n)
       \/ \E m \in Nodes : \/ AppendChild(n, m) \/ InsertBefore(n, m)
                           \/ AttachShadowRoot(n, m) \/ AttachDeclarativeShadow(n, m)
                           \/ TemplateContents(n, m)
  \/ DetachNext \/ Cleared

Spec == Init /\ [][Next]_vars

(* Reading the tree. *)

\* Faulty: the climb does not stop at the root of the walk.
FaultyClimb(r, n) ==
  LET up[x \in Nodes] == IF next[x] # None THEN next[x]
                         ELSE IF parent[x] = None THEN None ELSE up[parent[x]]
  IN  up[n]

\* climb_to_next_sibling and next_in_subtree.
Climb(r, n) ==
  LET up[x \in Nodes] == IF x = r THEN None
                         ELSE IF next[x] # None THEN next[x]
                         ELSE IF parent[x] = None THEN None ELSE up[parent[x]]
  IN  up[n]
NextInSubtree(r, n) == IF first[n] # None THEN first[n] ELSE Climb(r, n)

\* prev_in_subtree.
PrevInSubtree(r, n) ==
  LET deepest[x \in Nodes] == IF last[x] = None THEN x ELSE deepest[last[x]]
  IN  IF n = r THEN None
      ELSE IF prev[n] = None THEN parent[n] ELSE deepest[prev[n]]

\* get_element_by_id: the indexed node if the document is above it, or the first one
\* with the id in document order.
ScanForId(i) ==
  LET scan[x \in Link] == IF x = None \/ ident[x] = i THEN x
                          ELSE scan[NextInSubtree(Document, x)]
  IN  scan[NextInSubtree(Document, Document)]
GetElementById(i) ==
  IF index[i] # None /\ Document \in Chain(index[i]) THEN index[i] ELSE ScanForId(i)

(* Properties. *)

TypeOK ==
  /\ kind \in [Nodes -> {"unused", "element", "fragment"}]
  /\ parent \in [Nodes -> Link] /\ first \in [Nodes -> Link] /\ last \in [Nodes -> Link]
  /\ prev \in [Nodes -> Link] /\ next \in [Nodes -> Link]
  /\ connected \in [Nodes -> BOOLEAN]
  /\ root \in [Nodes -> Link] /\ host \in [Nodes -> Link]
  /\ contents \in [Nodes -> Link]
  /\ ident \in [Nodes -> Ids \cup {None}] /\ index \in [Ids -> Link]
  /\ cssom \subseteq Nodes /\ clearing \in Link

\* Every list of children is well formed: neighbours point at each other and
\* have one parent, the ends are the parent's first and last child.
LinksAgree ==
  \A n \in Nodes :
    /\ parent[n] = None => prev[n] = None /\ next[n] = None
    /\ next[n] # None => prev[next[n]] = n /\ parent[next[n]] = parent[n]
    /\ prev[n] # None => next[prev[n]] = n /\ parent[prev[n]] = parent[n]
    /\ first[n] # None => parent[first[n]] = n /\ prev[first[n]] = None
    /\ last[n] # None => parent[last[n]] = n /\ next[last[n]] = None
    /\ first[n] = None <=> last[n] = None
    /\ parent[n] # None => /\ prev[n] = None => first[parent[n]] = n
                           /\ next[n] = None => last[parent[n]] = n

\* Hosts and shadow roots belong to each other; fragments, the document and shadow
\* roots among them, are nobody's children; a slot not in use is linked to nothing.
ShadowsAgree ==
  \A n \in Nodes :
    /\ root[n] # None => host[root[n]] = n /\ IsElement(n)
    /\ host[n] # None => root[host[n]] = n /\ kind[n] = "fragment"
    /\ contents[n] # None => kind[contents[n]] = "fragment"
    /\ parent[n] # None => IsElement(n)
    /\ ~Used(n) => first[n] = None /\ last[n] = None
    /\ host[Document] = None /\ kind[Document] = "fragment"

\* No walk along the siblings or up through parents and hosts goes in a circle.
NoCycles ==
  \A S \in (SUBSET Nodes) \ {{}} : /\ \E n \in S : prev[n] \notin S
                                 /\ \E n \in S : Up(n) \notin S

\* The bit of a node is that of the parent or host above it.
ConnectedAgree ==
  \A n \in Nodes : connected[n] = IF Up(n) = None THEN n = Document ELSE connected[Up(n)]

\* What the index names is an element with that id, if not one in the document.
IndexAgree == \A i \in Ids : index[i] # None => ident[index[i]] = i /\ IsElement(index[i])

TreeShape == TypeOK /\ LinksAgree /\ ShadowsAgree /\ NoCycles /\ ConnectedAgree
TreeInv == TreeShape /\ IndexAgree

\* The tree is the one the DOM standard describes, with lists of children instead
\* of links, and the connected nodes are those below the document.
Promise ==
  INSTANCE DomPromise WITH children <- [n \in Nodes |-> Children(n)],
                           connected <- {n \in Nodes : connected[n]}
IsPromisedTree == Promise!Spec

\* Walking forward and backward over a subtree are inverse, and the walk forward
\* passes all descendants: no TreeWalker or NodeIterator skips or repeats a node.
WalksAgree ==
  \A r \in Nodes :
    /\ \A n \in Light(r) \cup {r} :
         NextInSubtree(r, n) # None => PrevInSubtree(r, NextInSubtree(r, n)) = n
    /\ Light(r) = {NextInSubtree(r, n) : n \in Light(r) \cup {r}} \ {None}

\* getElementById finds an element with the id if the document has one, and never
\* one that has been detached, lies in a shadow tree or has another id by now.
LookupIsLive ==
  \A i \in Ids : LET found == {n \in Light(Document) : ident[n] = i}
                 IN  IF found = {} THEN GetElementById(i) = None
                     ELSE GetElementById(i) \in found

\* Rules a script edited are only kept while the owner stays in the document and
\* the list of its children, from which they were parsed, stays as it was.
EditedRulesAreCurrent ==
  [][\A n \in cssom \cap cssom' :
       /\ connected[n] => connected'[n]
       /\ \A m \in Light(n) \cup {n} : Children(m)' = Children(m)]_vars
=============================================================================
