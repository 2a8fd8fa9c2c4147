----------------------------- MODULE MCPassKit ------------------------------
(***************************************************************************)
(* Instances of PassKit for TLC.                                           *)
(***************************************************************************)
EXTENDS PassKit, TLC

CONSTANTS d1, d2, c1, c2

Twice == [c \in Cards |-> 2]
FirstOnce == [c \in Cards |-> IF c = c1 THEN 1 ELSE 0]
FirstTwice == [c \in Cards |-> IF c = c1 THEN 2 ELSE 0]

Symmetry == Permutations(Devices) \cup Permutations(Cards)
=============================================================================
