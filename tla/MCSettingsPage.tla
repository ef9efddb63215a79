--------------------------- MODULE MCSettingsPage ---------------------------
(* A small instance of SettingsPage for TLC.  The fields, and what is typed in them,
   are interchangeable. *)
EXTENDS SettingsPage, FiniteSets, TLC

Symmetry == Permutations(Fields) \cup Permutations(Values)

\* One of the settings has a row and the other has none, so that a save of both
\* updates the one and inserts the other.
OneRow == Init /\ Cardinality({k \in Fields : stored[k] # Absent}) = 1
OneRowSpec == OneRow /\ [][Next]_vars
=============================================================================
