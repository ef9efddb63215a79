----------------------------- MODULE FileBrowser -----------------------------
(***************************************************************************)
(* The file browser of the job dialog: a lazily loaded tree of one node in *)
(* which the user checks directories and files, and the list of paths of   *)
(* the job that it reads and rewrites.  Listings are fetched one directory *)
(* at a time; the node may be changed while answers are on their way.      *)
(***************************************************************************)
EXTENDS Naturals, FiniteSets

CONSTANTS
  Nodes, NoNode,
  Items, Root,     \* the paths, the root among them
  Parent, Above,   \* the directory of a path; all directories above it
  Tree,            \* per node, its directories with their children
  OpenedWith,      \* [node, selected]: the dialog is opened for these
  Typed,           \* paths the user may type
  MaxSwitches      \* bound on changes of the node

VARIABLES
  node, turn,      \* the node browsed; how often it was changed
  dirs,            \* per path: none, loading, error, or the node whose listing it has
  expanded,        \* directories shown open
  inFlight,        \* directories a request is believed to be under way for
  requests,        \* requests under way
  dirsOnly,        \* the operation is sync: only directories are offered
  selected,        \* the job's paths: [path, slash]
  meant,           \* the leaves the user chose, by what the rows said
  plain            \* node never changed under a choice, the paths given are proper

vars == <<node, turn, dirs, expanded, inFlight, requests, dirsOnly, selected,
          meant, plain>>

ASSUME TreeAssumption ==
  /\ NoNode \notin Nodes
  /\ Root \in Items
  /\ {"none", "loading", "error"} \cap Nodes = {}
  /\ MaxSwitches \in Nat

\* The directories above a path lie in one another; on the way from one of them to the
\* path is one of its entries.
ASSUME PathsAssumption ==
  /\ IsFiniteSet(Items) /\ Parent \in [Items -> Items] /\ Above \in [Items -> SUBSET Items]
  /\ Above[Root] = {}
  /\ \A p \in Items \ {Root} : Above[p] = Above[Parent[p]] \cup {Parent[p]}
  /\ \A p \in Items :
       /\ p \notin Above[p]
       /\ \A a \in Above[p] : /\ Above[a] \subseteq Above[p]
                              /\ \E c \in Above[p] \cup {p} : c # Root /\ Parent[c] = a
       /\ \A D \in SUBSET Above[p] : D # {} => \E d \in D : D \subseteq Above[d] \cup {d}

OnNode(n, p) == p \in DOMAIN Tree[n] \cup UNION {Tree[n][d] : d \in DOMAIN Tree[n]}

\* What is on a node is an entry of its directory, up to the root.
ASSUME NodesAssumption ==
  \A n \in Nodes :
    /\ Root \in DOMAIN Tree[n] /\ DOMAIN Tree[n] \subseteq Items
    /\ \A d \in DOMAIN Tree[n] : Tree[n][d] \subseteq {c \in Items \ {Root} : Parent[c] = d}
    /\ \A p \in Items \ {Root} : OnNode(n, p) => /\ p \in Tree[n][Parent[p]]
                                                 /\ Above[p] \subseteq DOMAIN Tree[n]

Path == [path : Items, slash : BOOLEAN]
Ids(S) == {s.path : s \in S}

ASSUME OpenedAssumption ==
  \A o \in OpenedWith : o.node \in Nodes \cup {NoNode} /\ o.selected \subseteq Path

-----------------------------------------------------------------------------
(* The tree the user browses, and what is known of it. *)

IsDirOn(n, p) == p \in DOMAIN Tree[n]
Offered(n, S) == {p \in S : dirsOnly => IsDirOn(n, p)}

isDescendantOf(p, a) == a \in Above[p]

Entries(p) == IF dirs[p] \in Nodes THEN Tree[dirs[p]][p] ELSE {}
Known(p) == p \in {Root} \cup Entries(Parent[p])
KnownDir(p) == Known(p) /\ (p # Root => IsDirOn(dirs[Parent[p]], p))
Children(p) == IF KnownDir(p) THEN Offered(dirs[p], Entries(p)) ELSE {}

\* The rows of the list: an entry whose directories are all listed and open.
Visible(p) == /\ \A a \in Above[p] \cup {p} : Known(a) /\ (dirsOnly => KnownDir(a))
              /\ Above[p] \subseteq expanded

Checked(p) == \E s \in Ids(selected) : s = p \/ (isDescendantOf(p, s) /\ KnownDir(s))
Indeterminate(p) ==
  /\ KnownDir(p) /\ ~Checked(p)
  /\ \E d \in Items : /\ isDescendantOf(d, p) /\ Checked(d)
                      /\ \A a \in Above[d] \cup {d} : Known(a) /\ (dirsOnly => KnownDir(a))

-----------------------------------------------------------------------------
(* The selection, as a set of paths none of which lies in another. *)

\* Mutant: an empty directory is full.
MutPromoteOne(S) ==
  LET full == {d \in Items \ S : KnownDir(d) /\ dirs[d] \in Nodes /\ Children(d) \subseteq S}
      d == CHOOSE d \in full : TRUE
  IN IF full = {} THEN S ELSE (S \cup {d}) \ Children(d)

PromoteOne(S) ==
  LET full == {d \in Items \ S : /\ KnownDir(d) /\ Children(d) # {}
                                 /\ Children(d) \subseteq S}
      d == CHOOSE d \in full : TRUE
  IN IF full = {} THEN S ELSE (S \cup {d}) \ Children(d)

\* A directory replaces its children when all of them are selected.
promote(S) ==
  LET rounds[k \in 0 .. 2 * Cardinality(Items)] ==
        IF k = 0 THEN S ELSE PromoteOne(rounds[k - 1])
  IN rounds[2 * Cardinality(Items)]

\* Mutant: only the directory that was selected is broken up.
MutExplode(a, item) == Children(a) \ (Above[item] \cup {item})

\* The entries that keep selected what lies under a, but not the item.
explodeExcept(a, item) ==
  LET chain == {d \in Above[item] : d = a \/ isDescendantOf(d, a)}
  IN (UNION {Children(d) : d \in chain}) \ (Above[item] \cup {item})

AddToSelection(S, item) ==
  IF \E a \in S : isDescendantOf(item, a)
  THEN S \ {c \in S : c = item \/ isDescendantOf(c, item)}
  ELSE {c \in S : ~isDescendantOf(c, item)} \cup {item}

DropFromSelection(S, item) ==
  LET above == {a \in S : isDescendantOf(item, a)}
      a == CHOOSE a \in above : TRUE
  IN IF item \in S \/ above = {}
     THEN S \ {item}
     ELSE (S \ {a}) \cup (IF Known(a) THEN explodeExcept(a, item) ELSE {})

\* A path is written back with a slash if it is known to be a directory.
Written(S) == {[path |-> p, slash |-> KnownDir(p)] : p \in S}

-----------------------------------------------------------------------------
(* What the user means: leaves of the tree that is offered. *)

Leaf(n, p, only) == IF IsDirOn(n, p)
                    THEN ~\E c \in Tree[n][p] : only => IsDirOn(n, c)
                    ELSE ~only
LeavesOf(n, S, only) ==
  IF n = NoNode THEN {}
  ELSE {p \in Items : /\ OnNode(n, p) /\ Leaf(n, p, only)
                      /\ (Above[p] \cup {p}) \cap S # {}}
LeavesUnder(p) == LeavesOf(node, {p}, dirsOnly)
Covered == LeavesOf(node, Ids(selected), dirsOnly)

\* The choice is followed as long as it is plain.
Meant(followed, S) == IF followed THEN S ELSE {}

\* No path lies in another or is listed twice, and no file is listed as a directory.
Proper(n, S) ==
  /\ \A s, t \in S : ~isDescendantOf(s.path, t.path) /\ (s.path = t.path => s = t)
  /\ n # NoNode => \A s \in S : s.slash /\ OnNode(n, s.path) => IsDirOn(n, s.path)

-----------------------------------------------------------------------------
Blank(n) == [p \in Items |-> IF p = Root /\ n # NoNode THEN "loading" ELSE "none"]
\* Mutant: asks without a node.
MutRootRequest(n, t) == {[turn |-> t, node |-> n, dir |-> Root]}

RootRequest(n, t) == IF n = NoNode THEN {} ELSE {[turn |-> t, node |-> n, dir |-> Root]}
RootInFlight(n) == IF n = NoNode THEN {} ELSE {Root}

\* The dialog was opened and the root asked for.
Init == \E o \in OpenedWith :
  /\ node = o.node /\ turn = 0
  /\ dirs = Blank(o.node)
  /\ expanded = {Root}
  /\ inFlight = RootInFlight(o.node)
  /\ requests = RootRequest(o.node, 0)
  /\ dirsOnly \in BOOLEAN
  /\ selected = o.selected
  /\ dirsOnly => \A s \in selected : s.slash
  /\ plain = Proper(o.node, o.selected)
  /\ meant = Meant(plain, LeavesOf(o.node, Ids(o.selected), dirsOnly))

\* Mutant: a change of node leaves the marks of requests under way.
MutSelectNode(n) ==
  /\ turn < MaxSwitches /\ n # node
  /\ node' = n /\ turn' = turn + 1
  /\ expanded' = {Root}
  /\ IF n = NoNode \/ Root \in inFlight
     THEN dirs' = Blank(NoNode) /\ UNCHANGED <<inFlight, requests>>
     ELSE /\ dirs' = Blank(n) /\ inFlight' = inFlight \cup {Root}
          /\ requests' = requests \cup RootRequest(n, turn + 1)
  /\ plain' = (plain /\ node = NoNode /\ selected = {})
  /\ meant' = {}
  /\ UNCHANGED <<dirsOnly, selected>>

\* Another node: the effect drops every listing and asks for the new root.
SelectNode(n) ==
  /\ turn < MaxSwitches /\ n # node
  /\ node' = n /\ turn' = turn + 1
  /\ dirs' = Blank(n)
  /\ expanded' = {Root}
  /\ inFlight' = RootInFlight(n)
  /\ requests' = requests \cup RootRequest(n, turn + 1)
  /\ plain' = (plain /\ node = NoNode /\ selected = {})
  /\ meant' = {}
  /\ UNCHANGED <<dirsOnly, selected>>

loadDir(p) ==
  IF node = NoNode \/ p \in inFlight
  THEN UNCHANGED <<dirs, inFlight, requests>>
  ELSE /\ inFlight' = inFlight \cup {p}
       /\ dirs' = [dirs EXCEPT ![p] = "loading"]
       /\ requests' = requests \cup {[turn |-> turn, node |-> node, dir |-> p]}

\* An answer is stored under its path, whichever node is shown by now.
Answer(r, ok) ==
  /\ r \in requests
  /\ requests' = requests \ {r}
  /\ dirs' = [dirs EXCEPT ![r.dir] = IF ok /\ IsDirOn(r.node, r.dir) THEN r.node ELSE "error"]
  /\ inFlight' = inFlight \ {r.dir}
  /\ UNCHANGED <<node, turn, expanded, dirsOnly, selected, meant, plain>>

toggleExpand(p) ==
  /\ node # NoNode /\ p # Root /\ Visible(p) /\ KnownDir(p)
  /\ expanded' = IF p \in expanded THEN expanded \ {p} ELSE expanded \cup {p}
  /\ IF dirs[p] = "none" THEN loadDir(p) ELSE UNCHANGED <<dirs, inFlight, requests>>
  /\ UNCHANGED <<node, turn, dirsOnly, selected, meant, plain>>

\* A click on the box of a row, which asks for the opposite of what it shows.
handleToggle(p) ==
  /\ node # NoNode /\ Visible(p)
  /\ LET S == Ids(selected)
         chk == ~Checked(p)
     IN /\ selected' = Written(promote(IF chk THEN AddToSelection(S, p)
                                              ELSE DropFromSelection(S, p)))
        /\ meant' = Meant(plain, IF chk THEN meant \cup LeavesUnder(p) ELSE meant \ LeavesUnder(p))
  /\ UNCHANGED <<node, turn, dirs, expanded, inFlight, requests, dirsOnly, plain>>

-----------------------------------------------------------------------------
(* What the dialog around the browser does with the same list. *)

addPath(p) ==
  /\ p \in Typed \ Ids(selected)
  /\ selected' = selected \cup {[path |-> p, slash |-> dirsOnly]}
  /\ plain' = (plain /\ Proper(node, selected'))
  /\ meant' = Meant(plain', meant \cup LeavesUnder(p))
  /\ UNCHANGED <<node, turn, dirs, expanded, inFlight, requests, dirsOnly>>

removePath(s) ==
  /\ s \in selected
  /\ selected' = selected \ {s}
  /\ meant' = Meant(plain, meant \ LeavesUnder(s.path))
  /\ UNCHANGED <<node, turn, dirs, expanded, inFlight, requests, dirsOnly, plain>>

\* Sync drops what does not look like a directory; rows mean something else then.
ChooseOperation ==
  /\ dirsOnly' = ~dirsOnly
  /\ selected' = IF dirsOnly' THEN {s \in selected : s.slash} ELSE selected
  /\ meant' = Meant(plain, LeavesOf(node, Ids(selected'), dirsOnly'))
  /\ UNCHANGED <<node, turn, dirs, expanded, inFlight, requests, plain>>

Next == \/ \E n \in Nodes \cup {NoNode} : SelectNode(n)
        \/ \E r \in requests, ok \in BOOLEAN : Answer(r, ok)
        \/ \E p \in Items : toggleExpand(p) \/ handleToggle(p) \/ addPath(p)
        \/ \E s \in selected : removePath(s)
        \/ ChooseOperation

Spec == Init /\ [][Next]_vars

-----------------------------------------------------------------------------
LoadingTypeOK ==
  /\ node \in Nodes \cup {NoNode} /\ turn \in 0 .. MaxSwitches
  /\ dirs \in [Items -> {"none", "loading", "error"} \cup Nodes]
  /\ expanded \subseteq Items /\ inFlight \subseteq Items
  /\ requests \subseteq [turn : 0 .. MaxSwitches, node : Nodes, dir : Items]

TypeOK ==
  /\ LoadingTypeOK
  /\ dirsOnly \in BOOLEAN /\ plain \in BOOLEAN
  /\ selected \subseteq Path /\ meant \subseteq Items

\* A row that waits for a listing is waited for: a directory that shows
\* placeholders has a request under way to the node that is browsed now, also
\* after answers to an earlier choice of node came in and cleared its mark.
SkeletonsAwaited ==
  node # NoNode =>
    \A p \in expanded : dirs[p] \in {"none", "loading"} =>
      [turn |-> turn, node |-> node, dir |-> p] \in requests

\* The paths of the job stand for exactly the leaves the user checked, however
\* much of the tree was loaded when a box was clicked, and however the list was
\* promoted to directories or broken up again.
SelectionMeant == plain => Covered = meant

\* The rows say so: a leaf is shown checked iff it was chosen; a directory shown
\* checked is chosen as a whole, one shown clear has nothing chosen in what is
\* loaded of it.
RowsTellTruth ==
  plain /\ node # NoNode =>
    \A p \in Items : Visible(p) =>
      /\ Checked(p) => LeavesUnder(p) \subseteq meant
      /\ p \in LeavesUnder(p) /\ ~Checked(p) => p \notin meant
      /\ ~Checked(p) /\ ~Indeterminate(p) =>
           \A l \in LeavesUnder(p) : (\A a \in Above[l] \cup {l} : Known(a)) => l \notin meant
=============================================================================
