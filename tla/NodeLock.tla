------------------------------ MODULE NodeLock ------------------------------
(***************************************************************************)
(* What the table node_locks promises to the runs: a lock per node that    *)
(* one client holds at a time.  A client is inside its critical section    *)
(* only while it holds a lock; it may die inside, or with the lock just    *)
(* given to it, and then the lock stays taken.                             *)
(***************************************************************************)
EXTENDS Naturals, FiniteSets

CONSTANTS Clients, Nodes, Nobody

VARIABLES
  holder,  \* the client a node's lock was given to
  inside   \* the clients that work under their lock

vars == <<holder, inside>>

Init == holder = [n \in Nodes |-> Nobody] /\ inside = {}

Holds(c) == {n \in Nodes : holder[n] = c}

\* A free lock is given to a client that holds none; the client goes to work
\* unless it dies at that moment.
Acquire(c, n) ==
  /\ c \notin inside /\ Holds(c) = {}
  /\ holder[n] = Nobody
  /\ holder' = [holder EXCEPT ![n] = c]
  /\ inside' \in {inside, inside \cup {c}}

\* Clients stop working: one that is done or cancelled, all in a crash.
Leave(S) ==
  /\ S # {} /\ S \subseteq inside
  /\ inside' = inside \ S
  /\ UNCHANGED holder

\* The holder itself gives the lock back.
Release(c, n) ==
  /\ c \notin inside
  /\ holder[n] = c
  /\ holder' = [holder EXCEPT ![n] = Nobody]
  /\ UNCHANGED inside

Next == \/ \E c \in Clients, n \in Nodes : Acquire(c, n) \/ Release(c, n)
        \/ \E S \in SUBSET inside : Leave(S)

Spec == Init /\ [][Next]_vars

TypeOK == /\ holder \in [Nodes -> Clients \cup {Nobody}]
          /\ inside \subseteq Clients

\* A client works only under exactly one lock, so two clients that work hold
\* the locks of different nodes.
Exclusive == \A c \in inside : \E n \in Nodes : Holds(c) = {n}

\* No lock leaves a client that is still inside: what it works on is not given
\* to anyone else before it stopped.
NeverTaken == [][\A c \in inside : Holds(c)' = Holds(c)]_vars
=============================================================================
