-------------------------- MODULE MCStaffSessions --------------------------
(***************************************************************************)
(* Instances of StaffSessions for TLC.  The boss administers, others are   *)
(* hired, log in, work, are changed, and are deleted.                      *)
(***************************************************************************)
EXTENDS StaffSessions, TLC

CONSTANTS h1, h2, boss, ann, eve, j1, j2, j3, plain, edited

Row(act, p) == [active |-> act, role |-> "cashier", profile |-> p, status |-> "present"]

Patch(s, sent, row) == [op |-> "patch", who |-> s, sent |-> sent, row |-> row]

BossLogsIn == [op |-> "login", who |-> boss, kind |-> "admin"]
AnnLogsIn  == [op |-> "login", who |-> ann, kind |-> "cashier"]
Hiring     == [op |-> "create", row |-> Row(TRUE, plain)]
Deactivate == Patch(ann, {"active"}, Row(FALSE, plain))
Reactivate == Patch(ann, {"active"}, Row(TRUE, plain))
Rename     == Patch(ann, {"profile"}, Row(TRUE, edited))
Delete(s)  == [op |-> "delete", who |-> s]
Work(kind) == [op |-> "use", kind |-> kind]
LogOut(kind) == [op |-> "logout", kind |-> kind]

AllRequests ==
  {BossLogsIn, AnnLogsIn, Hiring, Deactivate, Rename, Delete(ann), Delete(boss),
   Work("cashier"), LogOut("cashier"), LogOut("admin")}
Deactivations == {BossLogsIn, AnnLogsIn, Hiring, Deactivate}
TwoPatches == {BossLogsIn, Hiring, Deactivate, Reactivate, Rename}

EveLogsIn == [op |-> "login", who |-> eve, kind |-> "admin"]
TwoDeletions == {BossLogsIn, EveLogsIn, Delete(boss), Delete(eve)}

HandlerSymmetry == Permutations(Handlers) \cup Permutations(Sessions)
=============================================================================
