-------------------------- MODULE FileBrowserProofs --------------------------
(***************************************************************************)
(* The file browser, for every tree, every set of nodes and every order of *)
(* clicks and answers: a directory that shows placeholders is waited for,  *)
(* and the list of paths stands for what the user checked.                 *)
(***************************************************************************)
EXTENDS FileBrowser, FiniteSetTheorems, WellFoundedInduction, TLAPS

Asked(p) == [turn |-> turn, node |-> node, dir |-> p] \in requests

\* A mark is only set with a state; a loading directory is asked for; an open
\* directory was asked for when it was opened.
LoadInv ==
  /\ LoadingTypeOK
  /\ \A p \in inFlight : dirs[p] # "none"
  /\ \A p \in Items : dirs[p] = "loading" => Asked(p)
  /\ node # NoNode => \A p \in expanded : dirs[p] # "none"

loading == <<node, turn, dirs, expanded, inFlight, requests>>

LEMMA InitLoads == Init => LoadInv
<1> SUFFICES ASSUME Init PROVE LoadInv
  OBVIOUS
<1>1. PICK o \in OpenedWith :
        /\ node = o.node /\ turn = 0 /\ dirs = Blank(o.node) /\ expanded = {Root}
        /\ inFlight = RootInFlight(o.node) /\ requests = RootRequest(o.node, 0)
  BY DEF Init
<1>2. node \in Nodes \cup {NoNode} /\ Root \in Items /\ 0 \in 0 .. MaxSwitches
  BY <1>1, OpenedAssumption, TreeAssumption
<1> QED
  BY <1>1, <1>2 DEF LoadInv, LoadingTypeOK, Asked, Blank, RootInFlight, RootRequest

\* A change of node starts over with the root.
LEMMA SwitchLoads ==
  ASSUME LoadInv, NEW n \in Nodes \cup {NoNode}, SelectNode(n)
  PROVE  LoadInv'
<1>1. /\ node' = n /\ turn' = turn + 1 /\ turn + 1 \in 0 .. MaxSwitches
      /\ dirs' = Blank(n) /\ expanded' = {Root} /\ inFlight' = RootInFlight(n)
      /\ requests' = requests \cup RootRequest(n, turn + 1) /\ Root \in Items
  BY TreeAssumption DEF SelectNode, LoadInv, LoadingTypeOK
<1>2. LoadingTypeOK'
  BY <1>1 DEF LoadInv, LoadingTypeOK, Blank, RootInFlight, RootRequest
<1> QED
  BY <1>1, <1>2 DEF LoadInv, Asked, Blank, RootInFlight, RootRequest

\* An answer leaves its directory listed or failed, and takes back no other's
\* request of this turn.
LEMMA AnswerLoads ==
  ASSUME LoadInv, NEW r \in requests, NEW ok \in BOOLEAN, Answer(r, ok)
  PROVE  LoadInv'
<1>1. r \in [turn : 0 .. MaxSwitches, node : Nodes, dir : Items]
  BY DEF LoadInv, LoadingTypeOK
<1>2. PICK v \in {"error"} \cup Nodes : dirs' = [dirs EXCEPT ![r.dir] = v]
  BY <1>1 DEF Answer
<1>3. v # "none" /\ v # "loading"
  BY TreeAssumption
<1>4. /\ UNCHANGED <<node, turn, expanded>>
      /\ requests' = requests \ {r} /\ inFlight' = inFlight \ {r.dir}
  BY DEF Answer
<1>5. LoadingTypeOK'
  BY <1>1, <1>2, <1>4 DEF LoadInv, LoadingTypeOK
<1>6. \A p \in inFlight' : dirs'[p] # "none"
  BY <1>1, <1>2, <1>3, <1>4 DEF LoadInv, LoadingTypeOK
<1>7. ASSUME NEW p \in Items, dirs'[p] = "loading" PROVE Asked(p)'
  <2>1. p # r.dir /\ dirs[p] = "loading"
    BY <1>1, <1>2, <1>3, <1>7 DEF LoadInv, LoadingTypeOK
  <2> QED
    BY <2>1, <1>4 DEF LoadInv, Asked
<1>8. node' # NoNode => \A p \in expanded' : dirs'[p] # "none"
  BY <1>1, <1>2, <1>3, <1>4 DEF LoadInv, LoadingTypeOK
<1> QED
  BY <1>5, <1>6, <1>7, <1>8 DEF LoadInv

\* A directory that is opened without a listing is not marked, so it is asked for.
LEMMA ExpandLoads ==
  ASSUME LoadInv, NEW p \in Items, toggleExpand(p)
  PROVE  LoadInv'
<1>1. /\ UNCHANGED <<node, turn>> /\ node # NoNode
      /\ expanded' = IF p \in expanded THEN expanded \ {p} ELSE expanded \cup {p}
  BY DEF toggleExpand
<1>2. CASE dirs[p] # "none"
  BY <1>1, <1>2 DEF toggleExpand, LoadInv, LoadingTypeOK, Asked
<1>3. CASE dirs[p] = "none"
  <2>1. /\ inFlight' = inFlight \cup {p} /\ dirs' = [dirs EXCEPT ![p] = "loading"]
        /\ requests' = requests \cup {[turn |-> turn, node |-> node, dir |-> p]}
    BY <1>1, <1>3 DEF toggleExpand, loadDir, LoadInv
  <2>2. LoadingTypeOK'
    BY <1>1, <2>1 DEF LoadInv, LoadingTypeOK
  <2> QED
    BY <1>1, <2>1, <2>2 DEF LoadInv, LoadingTypeOK, Asked
<1> QED
  BY <1>2, <1>3

\* The invariant of the loading: every step that is not one of these three leaves
\* the loading alone.
THEOREM Loads == Spec => []LoadInv
<1>1. Init => LoadInv
  BY InitLoads
<1>2. LoadInv /\ [Next]_vars => LoadInv'
  <2> SUFFICES ASSUME LoadInv, [Next]_vars PROVE LoadInv'
    OBVIOUS
  <2>1. ASSUME UNCHANGED loading PROVE LoadInv'
    BY <2>1 DEF loading, LoadInv, LoadingTypeOK, Asked
  <2>2. CASE UNCHANGED vars
    BY <2>1, <2>2 DEF vars, loading
  <2>3. CASE \E n \in Nodes \cup {NoNode} : SelectNode(n)
    BY <2>3, SwitchLoads
  <2>4. CASE \E r \in requests, ok \in BOOLEAN : Answer(r, ok)
    BY <2>4, AnswerLoads
  <2>5. CASE \E p \in Items : toggleExpand(p)
    BY <2>5, ExpandLoads
  <2>6. CASE \E p \in Items : handleToggle(p) \/ addPath(p)
    BY <2>1, <2>6 DEF handleToggle, addPath, loading
  <2>7. CASE ChooseOperation \/ \E s \in selected : removePath(s)
    BY <2>1, <2>7 DEF ChooseOperation, removePath, loading
  <2> QED
    BY <2>2, <2>3, <2>4, <2>5, <2>6, <2>7 DEF Next
<1> QED
  BY <1>1, <1>2, PTL DEF Spec

\* No row shows placeholders that nothing will replace: the request it waits for
\* is under way to the node shown, whatever was chosen and answered before.
THEOREM NoDeadSkeleton == Spec => []SkeletonsAwaited
<1>1. LoadInv => SkeletonsAwaited
  <2> SUFFICES ASSUME LoadInv, node # NoNode, NEW p \in expanded,
                      dirs[p] \in {"none", "loading"}
               PROVE  Asked(p)
    BY DEF SkeletonsAwaited, Asked
  <2> QED
    BY DEF LoadInv, LoadingTypeOK
<1> QED
  BY <1>1, Loads, PTL

-----------------------------------------------------------------------------
(* The rounds of promote, counted: what every round keeps, promote keeps. *)

Less == {ss \in Nat \X Nat : ss[1] < ss[2]}

LEMMA LessIsWellFounded == IsWellFoundedOn(Less, Nat)
  BY NatLessThanWellFounded DEF OpToRel, Less

\* A set of numbers that has zero and, with a number, the next one has them all.
LEMMA Counting ==
  ASSUME NEW T, 0 \in T, \A n \in Nat : n \in T => n + 1 \in T
  PROVE  Nat \subseteq T
<1> SUFFICES ASSUME Nat \ T # {} PROVE FALSE
  OBVIOUS
<1>1. PICK n \in Nat \ T : \A m \in Nat \ T : ~(<<m, n>> \in Less)
  BY LessIsWellFounded, WFMin
<1>2. \A m \in Nat \ T : ~(m < n)
  BY <1>1 DEF Less
<1>3. n # 0 /\ n - 1 \in Nat /\ n - 1 < n /\ (n - 1) + 1 = n
  BY <1>1
<1> QED
  BY <1>2, <1>3

LEMMA Promoted ==
  ASSUME NEW C, NEW S \in C, \A X \in C : PromoteOne(X) \in C
  PROVE  promote(S) \in C
<1> DEFINE N == 2 * Cardinality(Items)
           Round(f, k) == IF k = 0 THEN S ELSE PromoteOne(f[k - 1])
           Upto(m) == \E g \in [0 .. m -> C] : \A k \in 0 .. m : g[k] = Round(g, k)
           T == {m \in Nat : Upto(m)}
<1>1. N \in Nat
  BY PathsAssumption, FS_CardinalityType
<1>2. 0 \in T
  <2> DEFINE h == [k \in 0 .. 0 |-> S]
  <2>1. h \in [0 .. 0 -> C] /\ \A k \in 0 .. 0 : h[k] = Round(h, k)
    OBVIOUS
  <2> HIDE DEF h, Round
  <2> QED
    BY <2>1
<1>3. ASSUME NEW n \in Nat, n \in T PROVE n + 1 \in T
  <2>1. PICK g \in [0 .. n -> C] : \A k \in 0 .. n : g[k] = Round(g, k)
    BY <1>3
  <2> DEFINE h == [k \in 0 .. n + 1 |-> IF k <= n THEN g[k] ELSE PromoteOne(g[n])]
  <2>2. h \in [0 .. n + 1 -> C]
    OBVIOUS
  <2>3. ASSUME NEW k \in 0 .. n + 1 PROVE h[k] = Round(h, k)
    <3>1. CASE k <= n
      <4>1. k = 0 \/ (k - 1 \in 0 .. n /\ h[k - 1] = g[k - 1])
        BY <3>1
      <4>2. k \in 0 .. n /\ h[k] = g[k] /\ g[k] = Round(g, k)
        BY <3>1, <2>1
      <4> HIDE DEF h
      <4> QED
        BY <4>1, <4>2
    <3>2. CASE k = n + 1
      <4>1. k # 0 /\ k - 1 = n /\ h[n] = g[n] /\ h[k] = PromoteOne(g[n])
        BY <3>2
      <4> HIDE DEF h
      <4> QED
        BY <4>1
    <3> QED
      BY <3>1, <3>2
  <2> HIDE DEF h
  <2> QED
    BY <2>2, <2>3
<1>4. Upto(N)
  <2> HIDE DEF Upto, N
  <2> QED
    BY <1>1, <1>2, <1>3, Counting
<1> DEFINE Rounds(f) == f = [k \in 0 .. N |-> Round(f, k)]
           rounds == CHOOSE f : Rounds(f)
<1>5. PICK g \in [0 .. N -> C] : \A k \in 0 .. N : g[k] = Round(g, k)
  BY <1>4
<1>6. Rounds(g)
  <2> HIDE DEF Round, N
  <2> QED
    BY <1>5
<1>7. Rounds(rounds)
  <2> HIDE DEF Rounds
  <2> QED
    BY <1>6
<1>8. \A k \in 0 .. N : rounds[k] = Round(rounds, k)
  <2> HIDE DEF Round, N, rounds
  <2> QED
    BY <1>7
<1> DEFINE U == {m \in Nat : m <= N => rounds[m] \in C}
<1>9. 0 \in U
  <2> HIDE DEF rounds, N
  <2> QED
    BY <1>1, <1>8
<1>10. ASSUME NEW n \in Nat, n \in U PROVE n + 1 \in U
  <2> HIDE DEF rounds, N
  <2> SUFFICES ASSUME n + 1 <= N PROVE rounds[n + 1] \in C
    OBVIOUS
  <2>1. n <= N /\ n + 1 \in 0 .. N /\ n + 1 # 0 /\ (n + 1) - 1 = n
    BY <1>1
  <2>2. rounds[n + 1] = PromoteOne(rounds[n])
    BY <2>1, <1>8
  <2> QED
    BY <2>1, <2>2, <1>10
<1>11. rounds[N] \in C
  <2>1. Nat \subseteq U
    <3> HIDE DEF U
    <3> QED
      BY <1>9, <1>10, Counting
  <2> HIDE DEF rounds, N
  <2> QED
    BY <1>1, <2>1
<1>12. promote(S) = rounds[N]
  BY DEF promote
<1> QED
  BY <1>11, <1>12

-----------------------------------------------------------------------------
(* The selection.  What keeps it right while the choice is plain: all that is *)
(* listed is listed from the node browsed, every selected path once, no file  *)
(* under sync, and of the paths that are on the node none lies in another.    *)

ListedHere ==
  /\ \A r \in requests : r.node = node
  /\ \A p \in Items : dirs[p] \in Nodes => dirs[p] = node

Once == \A s, t \in selected : s.path = t.path => s = t
SlashIsDir == node # NoNode =>
  \A s \in selected : s.slash /\ OnNode(node, s.path) => IsDirOn(node, s.path)

\* What promote and the two steps of a click are given and give back.
Tidy(S) ==
  /\ \A a, b \in S : OnNode(node, a) /\ OnNode(node, b) => ~isDescendantOf(b, a)
  /\ dirsOnly => \A a \in S : OnNode(node, a) => IsDirOn(node, a)

ChoiceInv ==
  /\ LoadInv
  /\ \A p \in Items : dirs[p] \in Nodes => IsDirOn(dirs[p], p)
  /\ dirsOnly \in BOOLEAN /\ plain \in BOOLEAN
  /\ selected \subseteq Path /\ meant \subseteq Items
  /\ plain => /\ ListedHere /\ Once /\ SlashIsDir
              /\ node # NoNode => Tidy(Ids(selected))
              /\ Covered = meant

-----------------------------------------------------------------------------
(* Paths and the tree of a node. *)

\* An entry of a directory lies in it and in what that lies in.
LEMMA EntryLies ==
  ASSUME NEW n \in Nodes, NEW d \in DOMAIN Tree[n], NEW c \in Tree[n][d]
  PROVE  /\ c \in Items /\ c # Root /\ Parent[c] = d /\ OnNode(n, c)
         /\ Above[c] = Above[d] \cup {d}
<1>1. c \in Items \ {Root} /\ Parent[c] = d
  BY NodesAssumption
<1>2. Above[c] = Above[d] \cup {d}
  BY <1>1, PathsAssumption
<1> QED
  BY <1>1, <1>2 DEF OnNode

\* What is above a path of the node is a directory of the node.
LEMMA AboveIsDir ==
  ASSUME NEW n \in Nodes, NEW l \in Items, OnNode(n, l), NEW a \in Above[l]
  PROVE  /\ a \in Items /\ IsDirOn(n, a) /\ OnNode(n, a)
         /\ l # Root /\ a # l /\ l \notin Above[a] /\ Above[a] \subseteq Above[l]
<1>1. l # Root /\ a \in Items
  BY PathsAssumption
<1>2. Above[l] \subseteq DOMAIN Tree[n]
  BY <1>1, NodesAssumption
<1>3. a # l /\ Above[a] \subseteq Above[l] /\ l \notin Above[l]
  BY PathsAssumption
<1> QED
  BY <1>1, <1>2, <1>3 DEF IsDirOn, OnNode

\* A directory above a path of the node lists the next step on the way to it.
LEMMA OnTheWay ==
  ASSUME NEW n \in Nodes, NEW l \in Items, OnNode(n, l), NEW d \in Above[l]
  PROVE  /\ d \in DOMAIN Tree[n]
         /\ \E c \in Tree[n][d] : c = l \/ (c \in Above[l] /\ IsDirOn(n, c))
<1>1. PICK c \in Above[l] \cup {l} : c # Root /\ Parent[c] = d
  BY PathsAssumption
<1>2. c \in Items /\ OnNode(n, c) /\ (c = l \/ (c \in Above[l] /\ IsDirOn(n, c)))
  BY <1>1, AboveIsDir
<1>3. c \in Tree[n][d]
  BY <1>1, <1>2, NodesAssumption
<1>4. d \in DOMAIN Tree[n]
  BY AboveIsDir DEF IsDirOn
<1> QED
  BY <1>2, <1>3, <1>4

\* Of two paths on the way to a third one lies in the other.
LEMMA InOneAnother ==
  ASSUME NEW l \in Items, NEW a \in Above[l] \cup {l}, NEW b \in Above[l] \cup {l}, a # b
  PROVE  a \in Above[b] \/ b \in Above[a]
<1>1. CASE a = l \/ b = l
  BY <1>1
<1>2. CASE {a, b} \subseteq Above[l]
  <2>1. \A D \in SUBSET Above[l] : D # {} => \E d \in D : D \subseteq Above[d] \cup {d}
    BY PathsAssumption
  <2>2. {a, b} \in SUBSET Above[l] /\ {a, b} # {}
    BY <1>2
  <2>3. \E d \in {a, b} : {a, b} \subseteq Above[d] \cup {d}
    BY <2>1, <2>2
  <2> QED
    BY <2>3
<1> QED
  BY <1>1, <1>2

-----------------------------------------------------------------------------
(* What is known while everything listed is listed from the node. *)

Here ==
  /\ node \in Nodes /\ dirsOnly \in BOOLEAN
  /\ \A p \in Items : dirs[p] \in Nodes => dirs[p] = node /\ IsDirOn(node, p)

LEMMA KnownIsThere ==
  ASSUME Here, NEW p \in Items, Known(p)
  PROVE  /\ OnNode(node, p)
         /\ p # Root => dirs[Parent[p]] = node
         /\ KnownDir(p) <=> IsDirOn(node, p)
<1>1. CASE p = Root
  <2>1. IsDirOn(node, Root)
    BY NodesAssumption DEF Here, IsDirOn
  <2> QED
    BY <1>1, <2>1 DEF OnNode, IsDirOn, KnownDir
<1>2. CASE p # Root
  <2>1. p \in Entries(Parent[p]) /\ Parent[p] \in Items
    BY <1>2, PathsAssumption DEF Known
  <2>2. dirs[Parent[p]] = node /\ Parent[p] \in DOMAIN Tree[node] /\ p \in Tree[node][Parent[p]]
    BY <2>1 DEF Entries, Here, IsDirOn
  <2> QED
    BY <1>2, <2>2 DEF OnNode, KnownDir, Here
<1> QED
  BY <1>1, <1>2

\* The children of a directory are entries of it on the node.
LEMMA ChildIsEntry ==
  ASSUME Here, NEW d \in Items, NEW c \in Children(d)
  PROVE  /\ KnownDir(d) /\ dirs[d] = node /\ d \in DOMAIN Tree[node] /\ c \in Tree[node][d]
         /\ c \in Items /\ OnNode(node, c) /\ Above[c] = Above[d] \cup {d}
         /\ dirsOnly => IsDirOn(node, c)
<1>1. KnownDir(d) /\ c \in Entries(d) /\ (dirsOnly => IsDirOn(dirs[d], c))
  BY DEF Children, Offered
<1>2. dirs[d] = node /\ d \in DOMAIN Tree[node] /\ c \in Tree[node][d]
  BY <1>1 DEF Entries, Here, IsDirOn
<1> QED
  BY <1>1, <1>2, EntryLies DEF Here

\* A listed directory offers the next step on the way to a path that is offered.
LEMMA WayIsOffered ==
  ASSUME Here, NEW d \in Items, KnownDir(d), dirs[d] = node,
         NEW l \in Items, OnNode(node, l), d \in Above[l], dirsOnly => IsDirOn(node, l)
  PROVE  \E c \in Children(d) : c = l \/ c \in Above[l]
<1>1. PICK c \in Tree[node][d] : c = l \/ (c \in Above[l] /\ IsDirOn(node, c))
  BY OnTheWay DEF Here
<1>2. c \in Children(d)
  BY <1>1 DEF Here, Children, Entries, Offered
<1> QED
  BY <1>1, <1>2

\* A directory with something offered below it is no leaf.
LEMMA LeafIsLast ==
  ASSUME Here, NEW l \in Items, OnNode(node, l), NEW d \in Above[l],
         dirsOnly => IsDirOn(node, l)
  PROVE  ~Leaf(node, d, dirsOnly)
<1>1. PICK c \in Tree[node][d] : c = l \/ (c \in Above[l] /\ IsDirOn(node, c))
  BY OnTheWay DEF Here
<1>2. IsDirOn(node, d)
  BY AboveIsDir DEF Here
<1> QED
  BY <1>1, <1>2 DEF Leaf

\* The directories above a row are known as such, and listed.
LEMMA RowsAbove ==
  ASSUME Here, NEW p \in Items, Visible(p)
  PROVE  /\ Known(p) /\ OnNode(node, p) /\ (dirsOnly => IsDirOn(node, p))
         /\ \A a \in Above[p] : a \in Items /\ KnownDir(a) /\ dirs[a] = node
<1>1. Known(p) /\ OnNode(node, p) /\ (dirsOnly => IsDirOn(node, p))
  BY KnownIsThere DEF Visible
<1>2. ASSUME NEW a \in Above[p] PROVE a \in Items /\ KnownDir(a) /\ dirs[a] = node
  <2>1. a \in Items /\ IsDirOn(node, a) /\ Known(a)
    BY <1>1, AboveIsDir DEF Here, Visible
  <2>2. PICK c \in Tree[node][a] : c = p \/ c \in Above[p]
    BY <1>1, OnTheWay DEF Here
  <2>3. a \in DOMAIN Tree[node]
    BY <2>1 DEF IsDirOn
  <2>4. c \in Items /\ c # Root /\ Parent[c] = a /\ Known(c)
    BY <2>2, <2>3, EntryLies DEF Here, Visible
  <2> QED
    BY <2>1, <2>4, KnownIsThere
<1> QED
  BY <1>1, <1>2

-----------------------------------------------------------------------------
(* What the operators do to a tidy selection. *)

Leaves(S) == LeavesOf(node, S, dirsOnly)

LEMMA LeafBelow ==
  ASSUME Here, NEW S, NEW l
  PROVE  l \in Leaves(S) <=> /\ l \in Items /\ OnNode(node, l) /\ Leaf(node, l, dirsOnly)
                             /\ \E s \in S : s = l \/ s \in Above[l]
  BY TreeAssumption DEF Here, Leaves, LeavesOf

\* A leaf under sync is a directory.
LEMMA LeafIsOffered ==
  ASSUME Here, NEW l, Leaf(node, l, dirsOnly)
  PROVE  dirsOnly => IsDirOn(node, l)
  BY DEF Leaf

\* Of a tidy selection one path at most covers a leaf.
LEMMA CoveredOnce ==
  ASSUME Here, NEW S, S \subseteq Items, Tidy(S), NEW l \in Items, OnNode(node, l),
         NEW s \in S \cap (Above[l] \cup {l}), NEW t \in S \cap (Above[l] \cup {l})
  PROVE  s = t
<1>1. OnNode(node, s) /\ OnNode(node, t)
  BY AboveIsDir DEF Here
<1>2. s # t => s \in Above[t] \/ t \in Above[s]
  BY InOneAnother
<1> QED
  BY <1>1, <1>2 DEF Tidy, isDescendantOf

\* Promotion to the parent keeps the selection tidy and its leaves the same.
LEMMA OnePromoted ==
  ASSUME Here, NEW S, S \subseteq Items, Tidy(S)
  PROVE  /\ PromoteOne(S) \subseteq Items /\ Tidy(PromoteOne(S))
         /\ Leaves(PromoteOne(S)) = Leaves(S)
<1> DEFINE full == {d \in Items \ S : /\ KnownDir(d) /\ Children(d) # {}
                                      /\ Children(d) \subseteq S}
<1>1. CASE full = {}
  BY <1>1 DEF PromoteOne
<1>2. CASE full # {}
  <2>1. PICK d \in full : PromoteOne(S) = (S \cup {d}) \ Children(d)
    <3> DEFINE e == CHOOSE d \in full : TRUE
    <3>1. e \in full
      BY <1>2
    <3>2. PromoteOne(S) = (S \cup {e}) \ Children(e)
      BY <1>2 DEF PromoteOne
    <3> HIDE DEF e, full
    <3> QED
      BY <3>1, <3>2
  <2>2. d \in Items /\ d \notin S /\ KnownDir(d) /\ Children(d) # {} /\ Children(d) \subseteq S
    BY <2>1
  <2> HIDE DEF full
  <2>3. PICK k \in Children(d) : TRUE
    BY <2>2
  <2>4. dirs[d] = node /\ k \in S /\ OnNode(node, k) /\ Above[k] = Above[d] \cup {d}
    BY <2>2, <2>3, ChildIsEntry
  <2>5. IsDirOn(node, d) /\ OnNode(node, d) /\ d \notin Children(d)
    BY <2>2, <2>3, ChildIsEntry, KnownIsThere DEF KnownDir
  <2>6. ASSUME NEW l \in Items, OnNode(node, l), d \in Above[l], dirsOnly => IsDirOn(node, l)
        PROVE  \E c \in Children(d) : c = l \/ c \in Above[l]
    BY <2>2, <2>4, <2>6, WayIsOffered
  <2>7. Tidy((S \cup {d}) \ Children(d))
    <3>1. dirsOnly => \A a \in S \cup {d} : OnNode(node, a) => IsDirOn(node, a)
      BY <2>5 DEF Tidy
    <3>2. ASSUME NEW a \in S \ Children(d), NEW b \in S \ Children(d),
                 OnNode(node, a), OnNode(node, b)
          PROVE  a \notin Above[b]
      BY <3>2 DEF Tidy, isDescendantOf
    <3>3. ASSUME NEW b \in S \ Children(d), OnNode(node, b) PROVE d \notin Above[b]
      <4> SUFFICES ASSUME d \in Above[b] PROVE FALSE
        OBVIOUS
      <4>1. PICK c \in Children(d) : c = b \/ c \in Above[b]
        BY <2>6, <3>1, <3>3
      <4>2. c \in S /\ OnNode(node, c)
        BY <2>2, ChildIsEntry
      <4> QED
        BY <3>3, <4>1, <4>2 DEF Tidy, isDescendantOf
    <3>4. ASSUME NEW a \in S \ Children(d), OnNode(node, a) PROVE a \notin Above[d]
      BY <2>4, <3>4 DEF Tidy, isDescendantOf
    <3>5. d \notin Above[d]
      BY <2>2, PathsAssumption
    <3> QED
      BY <3>1, <3>2, <3>3, <3>4, <3>5 DEF Tidy, isDescendantOf
  <2>8. ASSUME NEW l \in Items, OnNode(node, l), Leaf(node, l, dirsOnly)
        PROVE  (\E s \in (S \cup {d}) \ Children(d) : s = l \/ s \in Above[l])
                 <=> \E s \in S : s = l \/ s \in Above[l]
    <3>1. dirsOnly => IsDirOn(node, l)
      BY <2>8, LeafIsOffered
    <3>2. d # l
      <4>1. \A c \in Children(d) : c \in Tree[node][d] /\ (dirsOnly => IsDirOn(node, c))
        BY <2>2, ChildIsEntry
      <4> QED
        BY <2>3, <2>5, <2>8, <4>1 DEF Leaf
    <3>3. d \in Above[l] => \E s \in S : s = l \/ s \in Above[l]
      BY <2>2, <2>6, <2>8, <3>1
    <3>4. ASSUME NEW c \in Children(d), c = l \/ c \in Above[l] PROVE d \in Above[l]
      <4>1. d \in Above[c] /\ c \in Items
        BY <2>2, ChildIsEntry
      <4> QED
        BY <3>4, <4>1, PathsAssumption
    <3> QED
      BY <2>5, <3>2, <3>3, <3>4
  <2>9. Leaves((S \cup {d}) \ Children(d)) = Leaves(S)
    <3> DEFINE P == (S \cup {d}) \ Children(d)
    <3>1. ASSUME NEW l PROVE l \in Leaves(P) <=> l \in Leaves(S)
      BY <2>8, LeafBelow
    <3>2. Leaves(P) \subseteq Leaves(S) /\ Leaves(S) \subseteq Leaves(P)
      BY <3>1
    <3> QED
      BY <3>2, Zenon
  <2> QED
    BY <2>1, <2>2, <2>7, <2>9
<1> QED
  BY <1>1, <1>2

\* So does promote.
LEMMA PromotedTidy ==
  ASSUME Here, NEW S, S \subseteq Items, Tidy(S)
  PROVE  /\ promote(S) \subseteq Items /\ Tidy(promote(S))
         /\ Leaves(promote(S)) = Leaves(S)
<1> DEFINE C == {X \in SUBSET Items : Tidy(X) /\ Leaves(X) = Leaves(S)}
<1>1. S \in C
  OBVIOUS
<1>2. \A X \in C : PromoteOne(X) \in C
  BY OnePromoted
<1>3. promote(S) \in C
  <2> HIDE DEF C
  <2> QED
    BY <1>1, <1>2, Promoted
<1> QED
  BY <1>3

\* A path taken out of a tidy selection takes its own leaves with it, no others.
LEMMA TakenOut ==
  ASSUME Here, NEW S, S \subseteq Items, Tidy(S), NEW p \in S
  PROVE  Tidy(S \ {p}) /\ Leaves(S \ {p}) = Leaves(S) \ Leaves({p})
<1>1. Tidy(S \ {p})
  BY DEF Tidy
<1>2. ASSUME NEW l PROVE l \in Leaves(S \ {p}) <=> l \in Leaves(S) \ Leaves({p})
  <2>1. l \in Items /\ OnNode(node, l) =>
          ~ /\ \E s \in S \ {p} : s = l \/ s \in Above[l]
            /\ p = l \/ p \in Above[l]
    BY CoveredOnce
  <2>2. l \in Leaves(S) <=> l \in Leaves(S \ {p}) \/ l \in Leaves({p})
    BY LeafBelow
  <2> QED
    BY <2>1, <2>2, LeafBelow
<1>3. Leaves(S \ {p}) = Leaves(S) \ Leaves({p})
  <2>1. /\ Leaves(S \ {p}) \subseteq Leaves(S) \ Leaves({p})
        /\ Leaves(S) \ Leaves({p}) \subseteq Leaves(S \ {p})
    BY <1>2
  <2> QED
    BY <2>1, Zenon
<1> QED
  BY <1>1, <1>3

\* A row that is not shown checked lies in no selected path.
LEMMA UncheckedIsFree ==
  ASSUME Here, NEW p \in Items, Visible(p), ~Checked(p)
  PROVE  p \notin Ids(selected) /\ \A a \in Ids(selected) : a \notin Above[p]
  BY RowsAbove DEF Checked, isDescendantOf

\* A click that checks a row adds the leaves below it.
LEMMA Added ==
  ASSUME Here, NEW S, S \subseteq Items, Tidy(S),
         NEW p \in Items, Visible(p), p \notin S, \A a \in S : a \notin Above[p]
  PROVE  /\ AddToSelection(S, p) \subseteq Items /\ Tidy(AddToSelection(S, p))
         /\ Leaves(AddToSelection(S, p)) = Leaves(S) \cup Leaves({p})
<1> DEFINE A == {c \in S : p \notin Above[c]} \cup {p}
<1>1. AddToSelection(S, p) = A
  BY DEF AddToSelection, isDescendantOf
<1>2. Tidy(A)
  <2>1. dirsOnly => IsDirOn(node, p)
    BY RowsAbove
  <2>2. p \notin Above[p]
    BY PathsAssumption
  <2> QED
    BY <2>1, <2>2 DEF Tidy, isDescendantOf
<1>3. ASSUME NEW l PROVE l \in Leaves(A) <=> l \in Leaves(S) \cup Leaves({p})
  <2>1. ASSUME l \in Items, NEW c \in S, p \in Above[c], c = l \/ c \in Above[l]
        PROVE  p \in Above[l]
    BY <2>1, PathsAssumption
  <2>2. l \in Leaves(S) \cup Leaves({p}) <=>
          /\ l \in Items /\ OnNode(node, l) /\ Leaf(node, l, dirsOnly)
          /\ \E s \in S \cup {p} : s = l \/ s \in Above[l]
    BY LeafBelow
  <2>3. l \in Leaves(A) <=>
          /\ l \in Items /\ OnNode(node, l) /\ Leaf(node, l, dirsOnly)
          /\ \E s \in A : s = l \/ s \in Above[l]
    <3> HIDE DEF A
    <3> QED
      BY LeafBelow
  <2> QED
    BY <2>1, <2>2, <2>3
<1>4. Leaves(A) = Leaves(S) \cup Leaves({p})
  <2>1. /\ Leaves(A) \subseteq Leaves(S) \cup Leaves({p})
        /\ Leaves(S) \cup Leaves({p}) \subseteq Leaves(A)
    BY <1>3
  <2> HIDE DEF A
  <2> QED
    BY <2>1, Zenon
<1> QED
  BY <1>1, <1>2, <1>4

LEMMA Exploded ==
  ASSUME NEW a, NEW p, NEW x
  PROVE  x \in explodeExcept(a, p) <=>
           /\ \E d \in Above[p] : (d = a \/ a \in Above[d]) /\ x \in Children(d)
           /\ x \notin Above[p] /\ x # p
  BY Zenon DEF explodeExcept, isDescendantOf

\* A selected directory that is broken up keeps everything below it but the row.
LEMMA BrokenUp ==
  ASSUME Here, NEW S, S \subseteq Items, Tidy(S),
         NEW p \in Items, Visible(p), p \notin S, NEW a \in S, a \in Above[p]
  PROVE  /\ (S \ {a}) \cup explodeExcept(a, p) \subseteq Items
         /\ Tidy((S \ {a}) \cup explodeExcept(a, p))
         /\ Leaves((S \ {a}) \cup explodeExcept(a, p)) = Leaves(S) \ Leaves({p})
<1> DEFINE chain == {d \in Above[p] : d = a \/ isDescendantOf(d, a)}
           X == explodeExcept(a, p)
           E == (S \ {a}) \cup X
\* What is in X.
<1>1. OnNode(node, p) /\ (dirsOnly => IsDirOn(node, p))
  BY RowsAbove
<1>2. ASSUME NEW x PROVE x \in X <=> /\ \E d \in chain : x \in Children(d)
                                     /\ x \notin Above[p] /\ x # p
  BY Exploded DEF isDescendantOf
<1>3. ASSUME NEW x \in X
      PROVE  /\ x \in Items /\ OnNode(node, x) /\ (dirsOnly => IsDirOn(node, x))
             /\ x # p /\ x \notin Above[p] /\ p \notin Above[x] /\ a \in Above[x]
             /\ Above[x] \subseteq Above[p]
  <2>1. PICK d \in chain : x \in Children(d)
    BY <1>2
  <2>2. d \in Items /\ d \in Above[p] /\ (d = a \/ a \in Above[d])
    BY RowsAbove DEF isDescendantOf
  <2>3. /\ x \in Items /\ OnNode(node, x) /\ (dirsOnly => IsDirOn(node, x))
        /\ Above[x] = Above[d] \cup {d}
    BY <2>1, <2>2, ChildIsEntry
  <2>4. Above[d] \subseteq Above[p] /\ p \notin Above[p]
    BY <2>2, PathsAssumption
  <2>5. x # p /\ x \notin Above[p]
    BY <1>2
  <2> QED
    BY <2>2, <2>3, <2>4, <2>5
<1> HIDE DEF X
<1>4. E \subseteq Items
  BY <1>3
<1>5. IsDirOn(node, a) /\ OnNode(node, a)
  BY <1>1, AboveIsDir DEF Here
<1>6. Tidy(E)
  <2>1. dirsOnly => \A b \in E : OnNode(node, b) => IsDirOn(node, b)
    BY <1>3 DEF Tidy
  <2>2. ASSUME NEW s \in S \ {a}, NEW t \in S \ {a}, OnNode(node, s), OnNode(node, t)
        PROVE  s \notin Above[t]
    BY <2>2 DEF Tidy, isDescendantOf
  <2>3. ASSUME NEW x \in X, NEW y \in X PROVE x \notin Above[y]
    BY <1>3
  <2>4. ASSUME NEW x \in X, NEW s \in S \ {a}, OnNode(node, s) PROVE x \notin Above[s]
    <3> SUFFICES ASSUME x \in Above[s] PROVE FALSE
      OBVIOUS
    <3>1. a \in Above[s]
      BY <1>3, AboveIsDir, <2>4 DEF Here
    <3> QED
      BY <3>1, <1>5, <2>4 DEF Tidy, isDescendantOf
  <2>5. ASSUME NEW x \in X, NEW s \in S \ {a}, OnNode(node, s) PROVE s \notin Above[x]
    <3> SUFFICES ASSUME s \in Above[x] PROVE FALSE
      OBVIOUS
    <3>1. s \in Above[a] \/ a \in Above[s]
      BY <1>3, InOneAnother
    <3> QED
      BY <3>1, <1>5, <2>5 DEF Tidy, isDescendantOf
  <2> QED
    BY <2>1, <2>2, <2>3, <2>4, <2>5 DEF Tidy, isDescendantOf
\* Its leaves.
<1>7. ASSUME NEW l \in Items, OnNode(node, l), Leaf(node, l, dirsOnly),
             NEW s \in E, s = l \/ s \in Above[l]
      PROVE  /\ \E t \in S : t = l \/ t \in Above[l]
             /\ ~(p = l \/ p \in Above[l])
  <2>1. CASE s \in S \ {a}
    <3>1. p = l \/ p \in Above[l] => a \in Above[l]
      BY PathsAssumption
    <3>2. a \notin Above[l]
      BY <1>7, <2>1, CoveredOnce
    <3> QED
      BY <1>7, <2>1, <3>1, <3>2
  <2>2. CASE s \in X
    <3>1. a \in Above[l]
      BY <1>3, <1>7, <2>2, PathsAssumption
    <3>2. ~(p = l \/ p \in Above[l])
      <4>1. s # p /\ s \notin Above[p] /\ p \notin Above[s]
        BY <1>3, <2>2
      <4> QED
        BY <1>7, <4>1, InOneAnother
    <3> QED
      BY <3>1, <3>2
  <2> QED
    BY <2>1, <2>2
<1>8. ASSUME NEW l \in Items, OnNode(node, l), Leaf(node, l, dirsOnly),
             a = l \/ a \in Above[l], ~(p = l \/ p \in Above[l])
      PROVE  \E x \in X : x = l \/ x \in Above[l]
  <2>1. dirsOnly => IsDirOn(node, l)
    BY <1>8, LeafIsOffered
  <2>2. l \notin Above[p]
    BY <1>1, <1>8, LeafIsLast
  <2>3. a \in Above[l]
    BY <1>8, <2>2
  <2> DEFINE D == chain \cap Above[l]
  <2>4. PICK d \in D : D \subseteq Above[d] \cup {d}
    <3>1. \A Y \in SUBSET Above[l] : Y # {} => \E y \in Y : Y \subseteq Above[y] \cup {y}
      BY PathsAssumption
    <3>2. D \in SUBSET Above[l] /\ a \in D
      BY <2>3
    <3> HIDE DEF D
    <3> QED
      BY <3>1, <3>2
  <2>5. d \in Above[p] /\ d \in Items /\ KnownDir(d) /\ dirs[d] = node /\ d \in Above[l]
    BY RowsAbove
  <2>6. PICK c \in Children(d) : c = l \/ c \in Above[l]
    BY <1>8, <2>1, <2>5, WayIsOffered
  <2>7. Above[c] = Above[d] \cup {d} /\ c \in Items
    BY <2>5, <2>6, ChildIsEntry
  <2>8. c \notin Above[p]
    <3> SUFFICES ASSUME c \in Above[p] PROVE FALSE
      OBVIOUS
    <3>1. c \in Above[l]
      BY <2>2, <2>6
    <3>2. c \in D
      BY <3>1, <2>7 DEF isDescendantOf
    <3>3. c \in Above[c]
      BY <2>4, <2>7, <3>2
    <3> QED
      BY <2>7, <3>3, PathsAssumption
  <2>9. c # p
    BY <1>8, <2>6
  <2>10. c \in X
    BY <1>2, <2>6, <2>8, <2>9
  <2> QED
    BY <2>6, <2>10
<1>9. ASSUME NEW l PROVE l \in Leaves(E) <=> l \in Leaves(S) \ Leaves({p})
  <2> HIDE DEF E
  <2>1. l \in Leaves(E) <=> /\ l \in Items /\ OnNode(node, l) /\ Leaf(node, l, dirsOnly)
                            /\ \E s \in E : s = l \/ s \in Above[l]
    BY LeafBelow
  <2>2. l \in Leaves(S) \ Leaves({p}) <=>
          /\ l \in Items /\ OnNode(node, l) /\ Leaf(node, l, dirsOnly)
          /\ \E s \in S : s = l \/ s \in Above[l]
          /\ ~(p = l \/ p \in Above[l])
    BY LeafBelow
  <2>3. ASSUME NEW s \in S, s # a PROVE s \in E
    BY <2>3 DEF E
  <2>4. X \subseteq E
    BY DEF E
  <2>5. l \in Leaves(S) \ Leaves({p}) => l \in Leaves(E)
    BY <1>8, <2>1, <2>2, <2>3, <2>4
  <2>6. l \in Leaves(E) => l \in Leaves(S) \ Leaves({p})
    BY <1>7, <2>1, <2>2
  <2> QED
    BY <2>5, <2>6
<1>10. Leaves(E) = Leaves(S) \ Leaves({p})
  <2>1. Leaves(E) \subseteq Leaves(S) \ Leaves({p}) /\ Leaves(S) \ Leaves({p}) \subseteq Leaves(E)
    BY <1>9
  <2> HIDE DEF E
  <2> QED
    BY <2>1, Zenon
<1> QED
  BY <1>4, <1>6, <1>10 DEF X

\* A click that clears a row takes exactly the leaves below it out.
LEMMA Dropped ==
  ASSUME Here, NEW S, S \subseteq Items, Tidy(S),
         NEW p \in Items, Visible(p), p \in S \/ \E a \in S : a \in Above[p]
  PROVE  /\ DropFromSelection(S, p) \subseteq Items /\ Tidy(DropFromSelection(S, p))
         /\ Leaves(DropFromSelection(S, p)) = Leaves(S) \ Leaves({p})
<1>1. CASE p \in S
  <2>1. DropFromSelection(S, p) = S \ {p}
    BY <1>1 DEF DropFromSelection
  <2> QED
    BY <1>1, <2>1, TakenOut
<1>2. CASE p \notin S
  <2> DEFINE above == {a \in S : isDescendantOf(p, a)}
             a == CHOOSE a \in above : TRUE
  <2>1. above # {}
    BY <1>2 DEF isDescendantOf
  <2>2. a \in above
    BY <2>1
  <2>3. a \in S /\ a \in Above[p]
    BY <2>2 DEF isDescendantOf
  <2>4. Known(a)
    BY <2>3, RowsAbove DEF KnownDir
  <2>5. DropFromSelection(S, p) = (S \ {a}) \cup explodeExcept(a, p)
    BY <1>2, <2>1, <2>4 DEF DropFromSelection
  <2> HIDE DEF a
  <2> QED
    BY <1>2, <2>3, <2>5, BrokenUp
<1> QED
  BY <1>1, <1>2

-----------------------------------------------------------------------------
(* The steps. *)

LEMMA PathsOf ==
  ASSUME NEW S, S \subseteq Path
  PROVE  /\ Ids(S) \subseteq Items
         /\ \A p : p \in Ids(S) <=> \E s \in S : s.path = p
  BY DEF Ids, Path

\* What is written back has the paths it was given, each once.
LEMMA WrittenPaths ==
  ASSUME NEW S, S \subseteq Items
  PROVE  /\ Written(S) \subseteq Path /\ Ids(Written(S)) = S
         /\ \A s, t \in Written(S) : s.path = t.path => s = t
         /\ \A s \in Written(S) : s.slash => KnownDir(s.path)
<1>1. \A p \in S : KnownDir(p) \in BOOLEAN
  BY DEF KnownDir
<1>2. \A s \in Written(S) : \E p \in S : s = [path |-> p, slash |-> KnownDir(p)]
  BY DEF Written
<1>3. \A p \in S : [path |-> p, slash |-> KnownDir(p)] \in Written(S)
  BY DEF Written
<1>4. Written(S) \subseteq Path
  BY <1>1, <1>2 DEF Path
<1>5. ASSUME NEW p PROVE p \in Ids(Written(S)) <=> p \in S
  <2>1. p \in Ids(Written(S)) <=> \E s \in Written(S) : s.path = p
    BY <1>4, PathsOf
  <2>2. ASSUME p \in S PROVE \E s \in Written(S) : s.path = p
    <3>1. [path |-> p, slash |-> KnownDir(p)].path = p
      OBVIOUS
    <3> QED
      BY <1>3, <2>2, <3>1
  <2> QED
    BY <1>2, <2>1, <2>2
<1>6. Ids(Written(S)) = S
  <2>1. Ids(Written(S)) \subseteq S /\ S \subseteq Ids(Written(S))
    BY <1>5
  <2> QED
    BY <2>1, Zenon
<1>7. \A s, t \in Written(S) : s.path = t.path => s = t
  BY <1>2
<1>8. \A s \in Written(S) : s.slash => KnownDir(s.path)
  BY <1>2
<1> QED
  BY <1>4, <1>6, <1>7, <1>8

\* The leaves of two selections together, and of none.
LEMMA LeavesAdd ==
  ASSUME NEW n, NEW S, NEW T, NEW only
  PROVE  /\ LeavesOf(n, S \cup T, only) = LeavesOf(n, S, only) \cup LeavesOf(n, T, only)
         /\ LeavesOf(n, {}, only) = {}
         /\ LeavesOf(n, S, only) \subseteq Items
  BY DEF LeavesOf

LEMMA InitChooses == Init => ChoiceInv
<1> SUFFICES ASSUME Init PROVE ChoiceInv
  OBVIOUS
<1>1. PICK o \in OpenedWith :
        /\ node = o.node /\ dirs = Blank(o.node) /\ requests = RootRequest(o.node, 0)
        /\ dirsOnly \in BOOLEAN /\ selected = o.selected
        /\ dirsOnly => \A s \in selected : s.slash
        /\ plain = Proper(o.node, o.selected)
        /\ meant = Meant(plain, LeavesOf(o.node, Ids(o.selected), dirsOnly))
  BY DEF Init
<1>2. node \in Nodes \cup {NoNode} /\ selected \subseteq Path
  BY <1>1, OpenedAssumption
<1>3. \A p \in Items : dirs[p] \notin Nodes
  BY <1>1, TreeAssumption DEF Blank
<1>4. meant \subseteq Items /\ plain \in BOOLEAN
  BY <1>1, LeavesAdd DEF Meant, Proper
<1>5. ASSUME plain
      PROVE  /\ ListedHere /\ Once /\ SlashIsDir /\ Covered = meant
             /\ node # NoNode => Tidy(Ids(selected))
  <2>1. ListedHere
    BY <1>1, <1>3 DEF ListedHere, RootRequest
  <2>2. Once /\ SlashIsDir
    BY <1>1, <1>5 DEF Proper, Once, SlashIsDir
  <2>3. Covered = meant
    BY <1>1, <1>5 DEF Covered, Meant
  <2>4. node # NoNode => Tidy(Ids(selected))
    <3>1. \A s, t \in selected : ~isDescendantOf(s.path, t.path)
      BY <1>1, <1>5 DEF Proper
    <3>2. node # NoNode /\ dirsOnly =>
            \A s \in selected : OnNode(node, s.path) => IsDirOn(node, s.path)
      BY <1>1, <2>2 DEF SlashIsDir
    <3> QED
      BY <1>2, <3>1, <3>2, PathsOf DEF Tidy
  <2> QED
    BY <2>1, <2>2, <2>3, <2>4
<1> QED
  BY <1>1, <1>2, <1>3, <1>4, <1>5, InitLoads DEF ChoiceInv

LEMMA SwitchChooses ==
  ASSUME ChoiceInv, NEW n \in Nodes \cup {NoNode}, SelectNode(n)
  PROVE  ChoiceInv'
<1>1. /\ node' = n /\ dirs' = Blank(n) /\ requests' = requests \cup RootRequest(n, turn + 1)
      /\ plain' = (plain /\ node = NoNode /\ selected = {}) /\ meant' = {}
      /\ dirsOnly' = dirsOnly /\ selected' = selected
  BY DEF SelectNode
<1>2. LoadInv'
  BY SwitchLoads DEF ChoiceInv
<1>3. \A p \in Items : dirs'[p] \notin Nodes
  BY <1>1, TreeAssumption DEF Blank
<1>4. ASSUME plain'
      PROVE  /\ ListedHere' /\ Once' /\ SlashIsDir' /\ Covered' = meant'
             /\ node' # NoNode => Tidy(Ids(selected))'
  <2>1. plain /\ node = NoNode /\ selected' = {} /\ meant' = {}
    BY <1>1, <1>4
  <2>2. requests = {}
    BY <2>1, TreeAssumption DEF ChoiceInv, ListedHere, LoadInv, LoadingTypeOK
  <2>3. ListedHere'
    BY <1>1, <1>3, <2>2 DEF ListedHere, RootRequest
  <2>4. Ids(selected)' = {}
    BY <2>1 DEF Ids
  <2>5. Covered' = meant'
    BY <2>1, <2>4, LeavesAdd DEF Covered
  <2> QED
    BY <2>1, <2>3, <2>4, <2>5 DEF Once, SlashIsDir, Tidy
<1> QED
  BY <1>1, <1>2, <1>3, <1>4 DEF ChoiceInv

\* While the choice is plain an answer is one of the node browsed.
LEMMA AnswerChooses ==
  ASSUME ChoiceInv, NEW r \in requests, NEW ok \in BOOLEAN, Answer(r, ok)
  PROVE  ChoiceInv'
<1>1. /\ requests' = requests \ {r}
      /\ dirs' = [dirs EXCEPT ![r.dir] = IF ok /\ IsDirOn(r.node, r.dir) THEN r.node ELSE "error"]
      /\ UNCHANGED <<node, dirsOnly, selected, meant, plain>>
  BY DEF Answer
<1>2. LoadInv'
  BY AnswerLoads DEF ChoiceInv
<1>3. r.dir \in Items /\ r.node \in Nodes /\ dirs \in [Items -> {"none", "loading", "error"} \cup Nodes]
  BY DEF ChoiceInv, LoadInv, LoadingTypeOK
<1>4. ASSUME NEW p \in Items, dirs'[p] \in Nodes
      PROVE  dirs'[p] = dirs[p] \/ (dirs'[p] = r.node /\ p = r.dir /\ IsDirOn(r.node, p))
  BY <1>1, <1>3, <1>4, TreeAssumption
<1>5. \A p \in Items : dirs'[p] \in Nodes => IsDirOn(dirs'[p], p)
  BY <1>4 DEF ChoiceInv
<1>6. ListedHere => ListedHere'
  BY <1>1, <1>4 DEF ListedHere
<1>7. /\ Once' <=> Once
      /\ SlashIsDir' <=> SlashIsDir
      /\ Tidy(Ids(selected))' <=> Tidy(Ids(selected))
      /\ Covered' = Covered
  BY <1>1 DEF Once, SlashIsDir, Tidy, Covered
<1> QED
  BY <1>1, <1>2, <1>5, <1>6, <1>7 DEF ChoiceInv

LEMMA ExpandChooses ==
  ASSUME ChoiceInv, NEW p \in Items, toggleExpand(p)
  PROVE  ChoiceInv'
<1>1. UNCHANGED <<node, dirsOnly, selected, meant, plain>> /\ node # NoNode
  BY DEF toggleExpand
<1>2. LoadInv'
  BY ExpandLoads DEF ChoiceInv
<1>3. dirs \in [Items -> {"none", "loading", "error"} \cup Nodes]
  BY DEF ChoiceInv, LoadInv, LoadingTypeOK
<1>4. /\ dirs' = dirs \/ dirs' = [dirs EXCEPT ![p] = "loading"]
      /\ \A r \in requests' : r \in requests \/ r.node = node
  BY DEF toggleExpand, loadDir
<1>5. \A q \in Items : dirs'[q] \in Nodes => dirs'[q] = dirs[q]
  BY <1>3, <1>4, TreeAssumption
<1>6. ListedHere => ListedHere'
  BY <1>1, <1>4, <1>5 DEF ListedHere
<1>7. \A q \in Items : dirs'[q] \in Nodes => IsDirOn(dirs'[q], q)
  BY <1>5 DEF ChoiceInv
<1>8. /\ Once' <=> Once
      /\ SlashIsDir' <=> SlashIsDir
      /\ Tidy(Ids(selected))' <=> Tidy(Ids(selected))
      /\ Covered' = Covered
  BY <1>1 DEF Once, SlashIsDir, Tidy, Covered
<1> QED
  BY <1>1, <1>2, <1>6, <1>7, <1>8 DEF ChoiceInv

\* Steps that leave the tree alone keep what is known of it.
LEMMA TreeKept ==
  ASSUME ChoiceInv, UNCHANGED loading
  PROVE  /\ LoadInv' /\ \A p \in Items : dirs'[p] \in Nodes => IsDirOn(dirs'[p], p)
         /\ ListedHere' <=> ListedHere
  BY DEF loading, ChoiceInv, LoadInv, LoadingTypeOK, Asked, ListedHere

\* A click: what is written back is tidy again and covers the leaves that were
\* meant with, or without, those below the row.
LEMMA ToggleChooses ==
  ASSUME ChoiceInv, NEW p \in Items, handleToggle(p)
  PROVE  ChoiceInv'
<1> DEFINE S == Ids(selected)
           N == IF ~Checked(p) THEN AddToSelection(S, p) ELSE DropFromSelection(S, p)
           P == promote(N)
<1>1. /\ node \in Nodes /\ Visible(p)
      /\ selected' = Written(P)
      /\ meant' = Meant(plain, IF ~Checked(p) THEN meant \cup LeavesUnder(p)
                                              ELSE meant \ LeavesUnder(p))
      /\ UNCHANGED loading /\ UNCHANGED <<dirsOnly, plain>>
  BY DEF handleToggle, loading, ChoiceInv, LoadInv, LoadingTypeOK
<1>2. S \subseteq Items
  BY PathsOf DEF ChoiceInv
<1>3. meant' \subseteq Items
  BY <1>1, LeavesAdd DEF ChoiceInv, Meant, LeavesUnder
<1>4. P \subseteq Items
  <2>1. \A d \in Items : Children(d) \subseteq Items
    BY NodesAssumption DEF ChoiceInv, Children, Offered, Entries, IsDirOn
  <2>2. N \subseteq Items
    <3>1. AddToSelection(S, p) \subseteq Items
      BY <1>2 DEF AddToSelection
    <3>2. ASSUME NEW a PROVE explodeExcept(a, p) \subseteq Items
      BY <2>1, Exploded, PathsAssumption
    <3>3. DropFromSelection(S, p) \subseteq Items
      <4> DEFINE a == CHOOSE a \in {a \in S : isDescendantOf(p, a)} : TRUE
      <4>1. explodeExcept(a, p) \subseteq Items
        BY <3>2
      <4> HIDE DEF S
      <4> QED
        BY <1>2, <4>1 DEF DropFromSelection
    <3> QED
      BY <3>1, <3>3
  <2>3. \A X \in SUBSET Items : PromoteOne(X) \in SUBSET Items
    BY DEF PromoteOne
  <2> HIDE DEF N
  <2> QED
    BY <2>2, <2>3, Promoted
<1>5. /\ selected' \subseteq Path /\ Ids(selected') = P
      /\ \A s, t \in selected' : s.path = t.path => s = t
      /\ \A s \in selected' : s.slash => KnownDir(s.path)
  <2> HIDE DEF P
  <2> QED
    BY <1>1, <1>4, WrittenPaths
<1>6. ASSUME plain'
      PROVE  /\ ListedHere' /\ Once' /\ SlashIsDir' /\ Covered' = meant'
             /\ node' # NoNode => Tidy(Ids(selected))'
  <2>1. plain /\ ListedHere /\ Once /\ Tidy(S) /\ Leaves(S) = meant
    BY <1>1, <1>6, TreeAssumption DEF ChoiceInv, Covered, Leaves
  <2>2. Here
    BY <1>1, <2>1 DEF ChoiceInv, Here, ListedHere
  <2>3. N \subseteq Items /\ Tidy(N) /\ Leaves(N) = meant'
    <3>1. CASE ~Checked(p)
      <4>1. p \notin S /\ \A a \in S : a \notin Above[p]
        BY <1>1, <2>2, <3>1, UncheckedIsFree
      <4>2. /\ AddToSelection(S, p) \subseteq Items /\ Tidy(AddToSelection(S, p))
            /\ Leaves(AddToSelection(S, p)) = Leaves(S) \cup Leaves({p})
        <5> HIDE DEF S
        <5> QED
          BY <1>1, <1>2, <2>1, <2>2, <4>1, Added
      <4>3. meant' = meant \cup Leaves({p})
        BY <1>1, <2>1, <3>1 DEF Meant, LeavesUnder, Leaves
      <4> HIDE DEF S
      <4> QED
        BY <2>1, <3>1, <4>2, <4>3
    <3>2. CASE Checked(p)
      <4>1. p \in S \/ \E a \in S : a \in Above[p]
        BY <3>2 DEF Checked, isDescendantOf
      <4>2. /\ DropFromSelection(S, p) \subseteq Items /\ Tidy(DropFromSelection(S, p))
            /\ Leaves(DropFromSelection(S, p)) = Leaves(S) \ Leaves({p})
        <5> HIDE DEF S
        <5> QED
          BY <1>1, <1>2, <2>1, <2>2, <4>1, Dropped
      <4>3. meant' = meant \ Leaves({p})
        BY <1>1, <2>1, <3>2 DEF Meant, LeavesUnder, Leaves
      <4> HIDE DEF S
      <4> QED
        BY <2>1, <3>2, <4>2, <4>3
    <3> QED
      BY <3>1, <3>2
  <2>4. Tidy(P) /\ Leaves(P) = meant'
    <3> HIDE DEF N
    <3> QED
      BY <2>2, <2>3, PromotedTidy
  <2> HIDE DEF P
  <2>5. ListedHere'
    BY <1>1, <2>1, TreeKept
  <2>6. Once'
    BY <1>5 DEF Once
  <2>7. SlashIsDir'
    <3>1. node' = node
      BY <1>1 DEF loading
    <3>2. \A s \in selected' : s.path \in Items
      BY <1>5 DEF Path
    <3>3. \A s \in selected' : s.slash => IsDirOn(node, s.path)
      BY <1>5, <2>2, <3>2, KnownIsThere DEF KnownDir
    <3> QED
      BY <3>1, <3>3 DEF SlashIsDir
  <2>8. Ids(selected)' = P
    BY <1>5
  <2>9. Covered' = meant'
    BY <1>1, <2>4, <2>8 DEF loading, Covered, Leaves
  <2>10. Tidy(Ids(selected))'
    BY <1>1, <2>4, <2>8 DEF loading, Tidy
  <2> QED
    BY <2>5, <2>6, <2>7, <2>9, <2>10
<1> QED
  BY <1>1, <1>3, <1>5, <1>6, TreeKept DEF ChoiceInv

\* A path that is typed is followed if it lies in no other and holds no other.
LEMMA TypingChooses ==
  ASSUME ChoiceInv, NEW p \in Items, addPath(p)
  PROVE  ChoiceInv'
<1> DEFINE new == [path |-> p, slash |-> dirsOnly]
<1>1. /\ selected' = selected \cup {new} /\ p \notin Ids(selected)
      /\ plain' = (plain /\ Proper(node, selected'))
      /\ meant' = Meant(plain', meant \cup LeavesUnder(p))
      /\ UNCHANGED loading /\ dirsOnly' = dirsOnly
  BY DEF addPath, loading
<1>2. new \in Path /\ selected' \subseteq Path /\ selected \subseteq Path
  BY <1>1 DEF ChoiceInv, Path
<1>3. meant' \subseteq Items /\ plain' \in BOOLEAN
  BY <1>1, LeavesAdd DEF ChoiceInv, Meant, LeavesUnder, Proper
<1>4. Ids(selected') = Ids(selected) \cup {p}
  <2>1. new.path = p
    OBVIOUS
  <2>2. ASSUME NEW q PROVE q \in Ids(selected') <=> q \in Ids(selected) \cup {p}
    <3>1. q \in Ids(selected') <=> \E t \in selected' : t.path = q
      BY <1>2, PathsOf
    <3>2. q \in Ids(selected) <=> \E t \in selected : t.path = q
      BY <1>2, PathsOf
    <3> HIDE DEF new
    <3> QED
      BY <1>1, <2>1, <3>1, <3>2
  <2>3. Ids(selected') \subseteq Ids(selected) \cup {p} /\ Ids(selected) \cup {p} \subseteq Ids(selected')
    BY <2>2
  <2> QED
    BY <2>3, Zenon
<1>5. ASSUME plain'
      PROVE  /\ ListedHere' /\ Once' /\ SlashIsDir' /\ Covered' = meant'
             /\ node' # NoNode => Tidy(Ids(selected))'
  <2>1. plain /\ ListedHere /\ Once /\ SlashIsDir /\ Covered = meant /\ Proper(node, selected')
        /\ (node # NoNode => Tidy(Ids(selected)))
    BY <1>1, <1>5 DEF ChoiceInv
  <2>2. ListedHere' /\ node' = node
    BY <1>1, <2>1, TreeKept DEF loading
  <2>3. Once' /\ SlashIsDir'
    BY <2>1, <2>2 DEF Proper, Once, SlashIsDir
  <2>4. Covered' = Covered \cup LeavesUnder(p)
    <3>1. Covered' = LeavesOf(node, Ids(selected) \cup {p}, dirsOnly)
      BY <1>1, <1>4, <2>2 DEF Covered
    <3> QED
      BY <3>1, LeavesAdd DEF Covered, LeavesUnder
  <2>5. meant' = meant \cup LeavesUnder(p)
    BY <1>1, <1>5 DEF Meant
  <2>6. ASSUME node' # NoNode PROVE Tidy(Ids(selected))'
    <3>1. \A s, t \in selected' : ~isDescendantOf(s.path, t.path)
      BY <2>1 DEF Proper
    <3>2. dirsOnly => \A s \in selected' : OnNode(node, s.path) => IsDirOn(node, s.path)
      <4>1. dirsOnly => new.slash
        OBVIOUS
      <4>2. \A s \in selected : s.path \in Ids(selected)
        BY <1>2, PathsOf
      <4>3. dirsOnly => \A s \in selected : OnNode(node, s.path) => IsDirOn(node, s.path)
        BY <2>1, <2>2, <2>6, <4>2 DEF Tidy
      <4>4. dirsOnly => (OnNode(node, new.path) => IsDirOn(node, new.path))
        BY <1>1, <2>1, <2>2, <2>6, <4>1 DEF Proper
      <4> HIDE DEF new
      <4> QED
        BY <1>1, <4>3, <4>4
    <3>3. \A q : q \in Ids(selected') <=> \E s \in selected' : s.path = q
      BY <1>2, PathsOf
    <3> QED
      BY <1>1, <2>2, <3>1, <3>2, <3>3 DEF Tidy
  <2> QED
    BY <2>1, <2>2, <2>3, <2>4, <2>5, <2>6
<1> QED
  BY <1>1, <1>2, <1>3, <1>5, TreeKept DEF ChoiceInv

LEMMA RemovalChooses ==
  ASSUME ChoiceInv, NEW s \in selected, removePath(s)
  PROVE  ChoiceInv'
<1> DEFINE p == s.path
<1>1. /\ selected' = selected \ {s} /\ meant' = Meant(plain, meant \ LeavesUnder(p))
      /\ UNCHANGED loading /\ UNCHANGED <<dirsOnly, plain>>
  BY DEF removePath, loading
<1>2. selected \subseteq Path /\ selected' \subseteq Path /\ Ids(selected) \subseteq Items
      /\ p \in Ids(selected)
  BY <1>1, PathsOf DEF ChoiceInv
<1>3. meant' \subseteq Items
  BY <1>1 DEF ChoiceInv, Meant
<1>4. ASSUME plain'
      PROVE  /\ ListedHere' /\ Once' /\ SlashIsDir' /\ Covered' = meant'
             /\ node' # NoNode => Tidy(Ids(selected))'
  <2>1. plain /\ ListedHere /\ Once /\ SlashIsDir /\ Covered = meant
        /\ (node # NoNode => Tidy(Ids(selected)))
    BY <1>1, <1>4 DEF ChoiceInv
  <2>2. ListedHere' /\ node' = node /\ dirsOnly' = dirsOnly
    BY <1>1, <2>1, TreeKept DEF loading
  <2>3. Once' /\ SlashIsDir'
    BY <1>1, <2>1, <2>2 DEF Once, SlashIsDir
  <2>4. Ids(selected') = Ids(selected) \ {p}
    <3>1. ASSUME NEW q PROVE q \in Ids(selected') <=> q \in Ids(selected) \ {p}
      <4>1. q \in Ids(selected') <=> \E t \in selected' : t.path = q
        BY <1>2, PathsOf
      <4>2. q \in Ids(selected) <=> \E t \in selected : t.path = q
        BY <1>2, PathsOf
      <4> QED
        BY <1>1, <2>1, <4>1, <4>2 DEF Once
    <3>2. Ids(selected') \subseteq Ids(selected) \ {p} /\ Ids(selected) \ {p} \subseteq Ids(selected')
      BY <3>1
    <3> QED
      BY <3>2, Zenon
  <2>5. meant' = meant \ LeavesUnder(p)
    BY <1>1, <2>1 DEF Meant
  <2>6. CASE node = NoNode
    <3>1. Covered' = {} /\ meant = {}
      BY <2>1, <2>2, <2>6 DEF Covered, LeavesOf
    <3> QED
      BY <2>2, <2>3, <2>5, <2>6, <3>1
  <2>7. CASE node # NoNode
    <3>1. Here
      BY <2>1, <2>7 DEF ChoiceInv, Here, ListedHere, LoadInv, LoadingTypeOK
    <3>2. /\ Tidy(Ids(selected) \ {p})
          /\ Leaves(Ids(selected) \ {p}) = Leaves(Ids(selected)) \ Leaves({p})
      <4> HIDE DEF p
      <4> QED
        BY <1>2, <2>1, <2>7, <3>1, TakenOut
    <3>3. Covered' = meant'
      BY <2>1, <2>2, <2>4, <2>5, <3>2 DEF Covered, Leaves, LeavesUnder
    <3>4. Tidy(Ids(selected))'
      BY <2>2, <2>4, <3>2 DEF Tidy
    <3> QED
      BY <2>2, <2>3, <3>3, <3>4
  <2> QED
    BY <2>6, <2>7
<1> QED
  BY <1>1, <1>2, <1>3, <1>4, TreeKept DEF ChoiceInv

\* Another operation: what stays under sync has slashes, and those are directories.
LEMMA OperationChooses ==
  ASSUME ChoiceInv, ChooseOperation
  PROVE  ChoiceInv'
<1>1. /\ dirsOnly' = ~dirsOnly
      /\ selected' = IF dirsOnly' THEN {s \in selected : s.slash} ELSE selected
      /\ meant' = Meant(plain, LeavesOf(node, Ids(selected'), dirsOnly'))
      /\ UNCHANGED loading /\ plain' = plain
  BY DEF ChooseOperation, loading
<1>2. selected' \subseteq selected /\ selected \subseteq Path
  BY <1>1 DEF ChoiceInv
<1>3. meant' \subseteq Items /\ dirsOnly' \in BOOLEAN
  BY <1>1, LeavesAdd DEF ChoiceInv, Meant
<1>4. ASSUME plain'
      PROVE  /\ ListedHere' /\ Once' /\ SlashIsDir' /\ Covered' = meant'
             /\ node' # NoNode => Tidy(Ids(selected))'
  <2>1. plain /\ ListedHere /\ Once /\ SlashIsDir /\ (node # NoNode => Tidy(Ids(selected)))
    BY <1>1, <1>4 DEF ChoiceInv
  <2>2. ListedHere' /\ node' = node
    BY <1>1, <2>1, TreeKept DEF loading
  <2>3. Once' /\ SlashIsDir'
    BY <1>2, <2>1, <2>2 DEF Once, SlashIsDir
  <2>4. Covered' = meant'
    BY <1>1, <2>1, <2>2 DEF Covered, Meant
  <2>5. ASSUME node' # NoNode PROVE Tidy(Ids(selected))'
    <3>1. \A q : q \in Ids(selected') <=> \E s \in selected' : s.path = q
      BY <1>2, PathsOf
    <3>2. \A s \in selected' : s.path \in Ids(selected)
      BY <1>2, PathsOf
    <3>3. dirsOnly' => \A s \in selected' : s.slash
      BY <1>1
    <3>4. dirsOnly' => \A a \in Ids(selected') : OnNode(node, a) => IsDirOn(node, a)
      BY <2>2, <2>3, <2>5, <3>1, <3>3 DEF SlashIsDir
    <3>5. \A a, b \in Ids(selected') :
            OnNode(node, a) /\ OnNode(node, b) => ~isDescendantOf(b, a)
      BY <2>1, <2>2, <2>5, <3>1, <3>2 DEF Tidy
    <3> QED
      BY <2>2, <3>4, <3>5 DEF Tidy
  <2> QED
    BY <2>2, <2>3, <2>4, <2>5
<1> QED
  BY <1>1, <1>2, <1>3, <1>4, TreeKept DEF ChoiceInv

\* The invariant of the selection.
THEOREM Chooses == Spec => []ChoiceInv
<1>1. Init => ChoiceInv
  BY InitChooses
<1>2. ChoiceInv /\ [Next]_vars => ChoiceInv'
  <2> SUFFICES ASSUME ChoiceInv, [Next]_vars PROVE ChoiceInv'
    OBVIOUS
  <2>1. CASE UNCHANGED vars
    BY <2>1 DEF vars, ChoiceInv, LoadInv, LoadingTypeOK, Asked, ListedHere, Once,
                SlashIsDir, Tidy, Covered
  <2>2. CASE \E n \in Nodes \cup {NoNode} : SelectNode(n)
    BY <2>2, SwitchChooses
  <2>3. CASE \E r \in requests, ok \in BOOLEAN : Answer(r, ok)
    BY <2>3, AnswerChooses
  <2>4. CASE \E p \in Items : toggleExpand(p) \/ handleToggle(p) \/ addPath(p)
    BY <2>4, ExpandChooses, ToggleChooses, TypingChooses
  <2>5. CASE \E s \in selected : removePath(s)
    BY <2>5, RemovalChooses
  <2>6. CASE ChooseOperation
    BY <2>6, OperationChooses
  <2> QED
    BY <2>1, <2>2, <2>3, <2>4, <2>5, <2>6 DEF Next
<1> QED
  BY <1>1, <1>2, PTL DEF Spec

-----------------------------------------------------------------------------
(* What follows for the user. *)

\* The browser's variables keep their types: what is selected are paths of the
\* tree, what is listed came from a node, a request names the node it was sent to.
THEOREM BrowserTypes == Spec => []TypeOK
<1>1. ChoiceInv => TypeOK
  BY DEF ChoiceInv, LoadInv, TypeOK
<1> QED
  BY <1>1, Chooses, PTL

\* The list that the dialog saves stands for what the user checked: neither
\* promotion to a directory, nor breaking one up, nor a path typed or removed, nor
\* the order in which listings come in changes the leaves that are meant.
THEOREM ChoiceKept == Spec => []SelectionMeant
<1>1. ChoiceInv => SelectionMeant
  BY DEF ChoiceInv, SelectionMeant
<1> QED
  BY <1>1, Chooses, PTL

\* The box of every row, of a file, a directory or the root, in every tree: what is
\* shown checked is chosen as a whole, what is shown clear is not chosen, as far
\* as it is loaded.
THEOREM RowsAreTrue == Spec => []RowsTellTruth
<1>1. ChoiceInv => RowsTellTruth
  <2> SUFFICES ASSUME ChoiceInv, plain, node # NoNode, NEW p \in Items, Visible(p)
               PROVE  /\ Checked(p) => LeavesUnder(p) \subseteq meant
                      /\ p \in LeavesUnder(p) /\ ~Checked(p) => p \notin meant
                      /\ ~Checked(p) /\ ~Indeterminate(p) =>
                           \A l \in LeavesUnder(p) :
                             (\A a \in Above[l] \cup {l} : Known(a)) => l \notin meant
    BY DEF RowsTellTruth
  <2> DEFINE S == Ids(selected)
  <2>1. Here /\ S \subseteq Items /\ Tidy(S) /\ meant = Leaves(S)
    BY PathsOf DEF ChoiceInv, ListedHere, Here, LoadInv, LoadingTypeOK, Covered, Leaves
  <2>2. \A l : l \in meant <=> /\ l \in Items /\ OnNode(node, l) /\ Leaf(node, l, dirsOnly)
                              /\ \E s \in S : s = l \/ s \in Above[l]
    BY <2>1, LeafBelow
  <2>3. \A l : l \in LeavesUnder(p) <=>
          /\ l \in Items /\ OnNode(node, l) /\ Leaf(node, l, dirsOnly)
          /\ p = l \/ p \in Above[l]
    BY <2>1, LeafBelow DEF Leaves, LeavesUnder
  <2>4. Checked(p) <=> \E s \in S : s = p \/ s \in Above[p]
    BY <2>1, RowsAbove DEF Checked, isDescendantOf
  <2>5. ASSUME Checked(p) PROVE LeavesUnder(p) \subseteq meant
    BY <2>1, <2>2, <2>3, <2>4, <2>5, PathsAssumption
  <2>6. p \in LeavesUnder(p) /\ ~Checked(p) => p \notin meant
    BY <2>2, <2>4
  <2>7. ASSUME ~Checked(p), ~Indeterminate(p), NEW l \in LeavesUnder(p),
               \A a \in Above[l] \cup {l} : Known(a), l \in meant
        PROVE  FALSE
    <3>1. /\ l \in Items /\ OnNode(node, l) /\ (p = l \/ p \in Above[l])
          /\ dirsOnly => IsDirOn(node, l)
      BY <2>1, <2>3, LeafIsOffered
    <3>2. PICK s \in S : s = l \/ s \in Above[l]
      BY <2>2, <2>7
    <3>3. s # p /\ s \notin Above[p]
      BY <2>4, <2>7
    <3>4. p \in Above[s]
      BY <3>1, <3>2, <3>3, InOneAnother
    <3>5. s \in Items /\ OnNode(node, s) /\ (dirsOnly => IsDirOn(node, s)) /\ Above[s] \subseteq Above[l]
      BY <2>1, <3>1, <3>2, AboveIsDir DEF Here
    <3>6. Checked(s)
      BY DEF Checked
    <3>7. \A a \in Above[s] \cup {s} : a \in Items /\ Known(a) /\ (dirsOnly => KnownDir(a))
      <4>1. \A a \in Above[s] : IsDirOn(node, a) /\ a \in Items
        BY <2>1, <3>5, AboveIsDir DEF Here
      <4>2. \A a \in Above[s] \cup {s} : Known(a)
        BY <2>7, <3>2, <3>5
      <4> QED
        BY <2>1, <3>5, <4>1, <4>2, KnownIsThere
    <3>8. KnownDir(p)
      <4>1. IsDirOn(node, p)
        BY <2>1, <3>4, <3>5, AboveIsDir DEF Here
      <4> QED
        BY <2>1, <3>4, <3>7, <4>1, KnownIsThere
    <3> QED
      BY <2>7, <3>4, <3>5, <3>6, <3>7, <3>8 DEF Indeterminate, isDescendantOf
  <2> QED
    BY <2>5, <2>6, <2>7
<1> QED
  BY <1>1, Chooses, PTL
=============================================================================
