---------------------------- MODULE SettingsBook ----------------------------
(***************************************************************************)
(* What a save of the programme's rules promises: the map it was sent      *)
(* replaces those keys of the stored map, all at once.  PutSettings of     *)
(* Ledger takes this for granted.                                          *)
(***************************************************************************)
CONSTANTS Keys, Saves, InitialMaps

VARIABLE stored

Init == stored \in InitialMaps

Replaced(q) == [k \in Keys |-> IF k \in q.sent THEN q.kv[k] ELSE stored[k]]

Save(q) == stored' = Replaced(q)

Next == \E q \in Saves : Save(q)

Spec == Init /\ [][Next]_stored
=============================================================================
