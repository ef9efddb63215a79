--------------------------- MODULE NodeLockProofs ---------------------------
(***************************************************************************)
(* The abstract lock service is one: what its clients can rely on.         *)
(***************************************************************************)
EXTENDS NodeLock, TLAPS

\* A client holds at most one lock, and holds one while it works.
OneLock ==
  /\ TypeOK
  /\ \A c \in Clients, m, n \in Nodes : holder[m] = c /\ holder[n] = c => m = n
  /\ \A c \in inside : Holds(c) # {}

LEMMA OneLockStep ==
  ASSUME Nobody \notin Clients, OneLock, [Next]_vars
  PROVE  OneLock' /\ \A c \in inside : Holds(c)' = Holds(c)
<1> USE DEF OneLock, TypeOK, Holds
<1>1. ASSUME NEW c \in Clients, NEW n \in Nodes, Acquire(c, n)
      PROVE  OneLock' /\ \A d \in inside : Holds(d)' = Holds(d)
  <2>1. \A m \in Nodes : holder[m] # c
    BY <1>1 DEF Acquire
  <2>2. \A m \in Nodes : holder'[m] = IF m = n THEN c ELSE holder[m]
    BY <1>1 DEF Acquire
  <2>3. holder' \in [Nodes -> Clients \cup {Nobody}]
    BY <1>1 DEF Acquire
  <2>4. \A d \in inside : d # c /\ \A m \in Nodes : holder'[m] = d <=> holder[m] = d
    BY <1>1, <2>2 DEF Acquire
  <2>5. inside' \in {inside, inside \cup {c}}
    BY <1>1 DEF Acquire
  <2>6. \A d \in inside : Holds(d)' = Holds(d)
    BY <2>4
  <2>7. n \in Holds(c)'
    BY <2>2
  <2> QED
    BY <2>1, <2>2, <2>3, <2>5, <2>6, <2>7
<1>2. ASSUME NEW c \in Clients, NEW n \in Nodes, Release(c, n)
      PROVE  OneLock' /\ \A d \in inside : Holds(d)' = Holds(d)
  <2>1. \A m \in Nodes : holder'[m] = IF m = n THEN Nobody ELSE holder[m]
    BY <1>2 DEF Release
  <2>2. \A d \in inside : d # c /\ \A m \in Nodes : holder'[m] = d <=> holder[m] = d
    BY <1>2, <2>1 DEF Release
  <2> QED
    BY <1>2, <2>1, <2>2 DEF Release
<1>3. ASSUME NEW S \in SUBSET inside, Leave(S)
      PROVE  OneLock' /\ \A d \in inside : Holds(d)' = Holds(d)
  BY <1>3 DEF Leave
<1>4. CASE UNCHANGED vars
  BY <1>4 DEF vars
<1> QED
  BY <1>1, <1>2, <1>3, <1>4 DEF Next

(***************************************************************************)
(* A client of the service works under exactly one lock, and that lock is  *)
(* not taken from it while it works.                                       *)
(***************************************************************************)
THEOREM ServiceExcludes == Nobody \notin Clients => (Spec => []Exclusive /\ NeverTaken)
<1> SUFFICES ASSUME Nobody \notin Clients PROVE Spec => []Exclusive /\ NeverTaken
  OBVIOUS
<1>1. Init => OneLock
  BY DEF Init, OneLock, TypeOK
<1>2. OneLock /\ [Next]_vars => OneLock'
  BY OneLockStep
<1>3. OneLock => Exclusive
  <2> SUFFICES ASSUME OneLock, NEW c \in inside PROVE \E n \in Nodes : Holds(c) = {n}
    BY DEF Exclusive
  <2>1. PICK n \in Nodes : holder[n] = c
    BY DEF OneLock, Holds
  <2>2. Holds(c) = {n}
    BY <2>1 DEF OneLock, TypeOK, Holds
  <2> QED
    BY <2>2
<1>4. OneLock /\ [Next]_vars => [\A c \in inside : Holds(c)' = Holds(c)]_vars
  BY OneLockStep
<1> QED
  BY <1>1, <1>2, <1>3, <1>4, PTL DEF Spec, NeverTaken
=============================================================================
