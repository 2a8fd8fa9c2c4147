---------------------------- MODULE StaffSessions ----------------------------
(***************************************************************************)
(* Employees and sessions: login and logout (internal/httpapi/cashier.go), *)
(* the authentication of every other request (middleware.go), the staff    *)
(* endpoints of the administrator (admin.go), over the tables staff and    *)
(* staff_sessions (internal/store/staff.go).                               *)
(*                                                                         *)
(* Every statement runs on its own, there is no transaction here: a step   *)
(* is one statement, and any other handler may run between two.  The       *)
(* columns an administrator edits and nothing here looks at (login, name,  *)
(* store, password, pin) are one field, profile; logins are with the right *)
(* password, the others change nothing.  An id that is not used yet and a  *)
(* row with deleted_at are treated alike by every handler but the UPDATEs. *)
(*                                                                         *)
(* An operator named Slip... is wrong on purpose: a plausible slip in the  *)
(* operator below it, kept to show which property would notice.            *)
(***************************************************************************)
EXTENDS Naturals, FiniteSets

CONSTANTS
  Handlers,  \* goroutines serving requests
  Staff,     \* ids of employees
  Founders,  \* those with a row at the start, administrators
  Sessions,  \* jti values, drawn at random and never twice
  Profiles,
  Requests,  \* requests that may be sent, any number of times
  RevokeMayFail,
  NoStaff, NoSession, NoRequest

Roles  == {"cashier", "admin"}
Kinds  == {"cashier", "admin"}
Fields == {"active", "role", "profile"}

Statuses == {"absent", "present", "deleted"}

StaffRow == [active : BOOLEAN, role : Roles, profile : Profiles, status : Statuses]

LoginRequest == [op : {"login"}, who : Staff, kind : Kinds]
UseRequest   == [op : {"use", "logout"}, kind : Kinds]
PatchRequest == [op : {"patch"}, who : Staff, sent : SUBSET Fields, row : StaffRow]
DropRequest  == [op : {"delete"}, who : Staff]
HireRequest  == [op : {"create"}, row : StaffRow]

ASSUME StaffAssumption ==
  /\ Founders \subseteq Staff /\ Profiles # {}
  /\ NoStaff \notin Staff /\ NoSession \notin Sessions
  /\ Requests \subseteq LoginRequest \cup UseRequest \cup PatchRequest
                    \cup DropRequest \cup HireRequest
  /\ NoRequest \notin Requests /\ RevokeMayFail \in BOOLEAN

VARIABLES
  staff,      \* rows of staff
  sessions,   \* rows of staff_sessions, staff = NoStaff before they exist
  pc, req,    \* where a handler is, and what it serves
  token,      \* the session a request came with
  copy,       \* the row of staff the handler read
  late        \* history, nothing reads it: the request came from somebody
              \* whose row was deleted already

tables == <<staff, sessions>>
vars   == <<tables, pc, req, token, copy, late>>

Labels == {"idle", "row", "session", "check", "staff", "serve", "insert", "read",
           "find", "remove", "revoke", "update"}

Session == [staff : Staff \cup {NoStaff}, kind : Kinds,
            revoked : BOOLEAN, expired : BOOLEAN]

NoRow == [active |-> FALSE, role |-> "cashier",
          profile |-> CHOOSE p \in Profiles : TRUE, status |-> "absent"]

Founder == [NoRow EXCEPT !.active = TRUE, !.role = "admin", !.status = "present"]

Unissued == [staff |-> NoStaff, kind |-> "cashier", revoked |-> FALSE, expired |-> FALSE]

Init ==
  /\ staff = [s \in Staff |-> IF s \in Founders THEN Founder ELSE NoRow]
  /\ sessions = [j \in Sessions |-> Unissued]
  /\ pc = [h \in Handlers |-> "idle"]
  /\ req = [h \in Handlers |-> NoRequest]
  /\ token = [h \in Handlers |-> NoSession]
  /\ copy = [h \in Handlers |-> NoRow]
  /\ late = [h \in Handlers |-> FALSE]

Issued(j) == sessions[j].staff # NoStaff
Present(s) == staff[s].status = "present"
Deleted(s) == staff[s].status = "deleted"

Goto(h, label) == pc' = [pc EXCEPT ![h] = label]

\* The handler answers, whatever it answers.
End(h) ==
  /\ Goto(h, "idle")
  /\ req' = [req EXCEPT ![h] = NoRequest]
  /\ token' = [token EXCEPT ![h] = NoSession]
  /\ copy' = [copy EXCEPT ![h] = NoRow]
  /\ late' = [late EXCEPT ![h] = FALSE]

Stay(h) == UNCHANGED <<req, token, copy, late>>

-----------------------------------------------------------------------------
(* A request arrives; all but a login carry the token of a session, signed *)
(* for the kind of endpoint it is sent to.                                 *)
KindOf(q) == IF q.op \in {"use", "logout"} THEN q.kind ELSE "admin"

Accept(h) ==
  /\ pc[h] = "idle"
  /\ \E q \in Requests :
       /\ req' = [req EXCEPT ![h] = q]
       /\ \/ /\ q.op = "login"
             /\ Goto(h, "row")
             /\ late' = [late EXCEPT ![h] = Deleted(q.who)]
             /\ UNCHANGED token
          \/ /\ q.op # "login"
             /\ Goto(h, "check")
             /\ \E j \in Sessions : /\ Issued(j) /\ sessions[j].kind = KindOf(q)
                                    /\ token' = [token EXCEPT ![h] = j]
                                    /\ late' = [late EXCEPT ![h] = Deleted(sessions[j].staff)]
  /\ UNCHANGED <<tables, copy>>

(* login reads the row, checks it and the password, and makes a session.   *)
SlipNoRowsIgnored(row, kind) == kind = "admin" => row.role = "admin"
MayLogIn(row, kind) == /\ row.status = "present" /\ row.active
                       /\ kind = "admin" => row.role = "admin"

ReadLogin(h) ==
  /\ pc[h] = "row"
  /\ \/ /\ MayLogIn(staff[req[h].who], req[h].kind)
        /\ Goto(h, "session") /\ Stay(h)
     \/ /\ ~MayLogIn(staff[req[h].who], req[h].kind)
        /\ End(h)
  /\ UNCHANGED tables

CreateSession(h) ==
  /\ pc[h] = "session"
  /\ \E j \in Sessions :
       /\ ~Issued(j)
       /\ sessions' = [sessions EXCEPT ![j] =
            [Unissued EXCEPT !.staff = req[h].who, !.kind = req[h].kind]]
  /\ End(h)
  /\ UNCHANGED staff

-----------------------------------------------------------------------------
(* authenticateStaff: the session, then the row of staff.                  *)
SessionValid(j) == ~sessions[j].revoked /\ ~sessions[j].expired

CheckSession(h) ==
  /\ pc[h] = "check"
  /\ \/ /\ SessionValid(token[h]) \/ (req[h].op = "logout" /\ ~sessions[token[h]].expired)
        /\ Goto(h, "staff") /\ Stay(h)
     \/ /\ ~SessionValid(token[h])
        /\ req[h].op = "logout" => sessions[token[h]].expired
        /\ End(h)
  /\ UNCHANGED tables

Actor(h) == sessions[token[h]].staff

FirstStep == [use |-> "serve", logout |-> "serve", patch |-> "read",
              delete |-> "find", create |-> "insert"]

CheckStaff(h) ==
  /\ pc[h] = "staff"
  /\ \/ Present(Actor(h)) /\ staff[Actor(h)].active
        /\ Goto(h, FirstStep[req[h].op]) /\ Stay(h)
     \/ ~(Present(Actor(h)) /\ staff[Actor(h)].active) /\ End(h)
  /\ UNCHANGED tables

Serve(h) ==
  /\ pc[h] = "serve" /\ req[h].op = "use"
  /\ End(h)
  /\ UNCHANGED tables

(* postLogout revokes the session the request came with.                   *)
Logout(h) ==
  /\ pc[h] = "serve" /\ req[h].op = "logout"
  /\ sessions' = [sessions EXCEPT ![token[h]].revoked = TRUE]
  /\ End(h)
  /\ UNCHANGED staff

-----------------------------------------------------------------------------
(* createStaff: a fresh id.                                                *)
Hire(h) ==
  /\ pc[h] = "insert"
  /\ \E s \in Staff : /\ staff[s].status = "absent"
                      /\ staff' = [staff EXCEPT ![s] = [req[h].row EXCEPT !.status = "present"]]
  /\ End(h)
  /\ UNCHANGED sessions

(* patchStaff: the whole row is read, edited, and written back.            *)
Edited(row, q) == [f \in DOMAIN row |-> IF f \in q.sent THEN q.row[f] ELSE row[f]]

Deactivates(q) == q.op = "patch" /\ "active" \in q.sent /\ ~q.row.active

ReadPatch(h) ==
  /\ pc[h] = "read"
  /\ \/ /\ ~Present(req[h].who)
        /\ End(h)
     \/ /\ Present(req[h].who)
        /\ copy' = [copy EXCEPT ![h] = Edited(staff[req[h].who], req[h])]
        /\ Goto(h, IF Deactivates(req[h]) THEN "revoke" ELSE "update")
        /\ UNCHANGED <<req, token, late>>
  /\ UNCHANGED tables

(* RevokeStaffSessions, for patchStaff and deleteStaff, which both drop its*)
(* error.                                                                  *)
AllRevoked(s) ==
  [j \in Sessions |-> IF sessions[j].staff = s
                      THEN [sessions[j] EXCEPT !.revoked = TRUE] ELSE sessions[j]]

Revoke(h) ==
  /\ pc[h] = "revoke"
  /\ \/ sessions' = AllRevoked(req[h].who)
     \/ RevokeMayFail /\ UNCHANGED sessions
  /\ \/ req[h].op = "patch" /\ Goto(h, "update") /\ Stay(h)
     \/ req[h].op = "delete" /\ End(h)
  /\ UNCHANGED staff

SlipWholeRow(old, new) == new
Written(old, new) == [new EXCEPT !.status = old.status]

Update(h) ==
  /\ pc[h] = "update"
  /\ staff' = [staff EXCEPT ![req[h].who] = Written(@, copy[h])]
  /\ End(h)
  /\ UNCHANGED sessions

(* deleteStaff: not oneself, and once.                                     *)
Find(h) ==
  /\ pc[h] = "find"
  /\ \/ Actor(h) # req[h].who /\ Present(req[h].who) /\ Goto(h, "remove") /\ Stay(h)
     \/ (Actor(h) = req[h].who \/ ~Present(req[h].who)) /\ End(h)
  /\ UNCHANGED tables

Remove(h) ==
  /\ pc[h] = "remove"
  /\ \/ /\ Present(req[h].who)
        /\ staff' = [staff EXCEPT ![req[h].who].status = "deleted"]
        /\ Goto(h, "revoke") /\ Stay(h)
     \/ /\ ~Present(req[h].who)
        /\ End(h)
        /\ UNCHANGED staff
  /\ UNCHANGED sessions

-----------------------------------------------------------------------------
(* A token reaches its exp.                                                *)
Expire(j) ==
  /\ Issued(j) /\ ~sessions[j].expired
  /\ sessions' = [sessions EXCEPT ![j].expired = TRUE]
  /\ UNCHANGED <<staff, pc, req, token, copy, late>>

(* The deadline, a client gone, a database error (a login that is taken,   *)
(* say) or a crash ends a handler half way; what it wrote stays.           *)
Drop(h) == pc[h] # "idle" /\ End(h) /\ UNCHANGED tables

Step(h) == ReadLogin(h) \/ CreateSession(h) \/ CheckSession(h) \/ CheckStaff(h)
           \/ Serve(h) \/ Logout(h) \/ Hire(h) \/ ReadPatch(h) \/ Revoke(h) \/ Update(h)
           \/ Find(h) \/ Remove(h)

Next == (\E h \in Handlers : Accept(h) \/ Step(h) \/ Drop(h))
        \/ \E j \in Sessions : Expire(j)

Spec == Init /\ [][Next]_vars

-----------------------------------------------------------------------------
(* Properties.                                                             *)

(* Every column and variable keeps its type, and the foreign key of the    *)
(* sessions holds: they are sessions of employees that were created.       *)
TypeOK ==
  /\ \A j \in Sessions : Issued(j) => staff[sessions[j].staff].status # "absent"
  /\ staff \in [Staff -> StaffRow]
  /\ sessions \in [Sessions -> Session]
  /\ pc \in [Handlers -> Labels]
  /\ req \in [Handlers -> Requests \cup {NoRequest}]
  /\ token \in [Handlers -> Sessions \cup {NoSession}]
  /\ copy \in [Handlers -> StaffRow]
  /\ late \in [Handlers -> BOOLEAN]

(* A deleted employee stays deleted (docs/api.md:383), although patchStaff *)
(* writes back a row it may have read before the deletion.                 *)
DeletedForGood ==
  [][\A s \in Staff : staff[s].status = "deleted" => staff'[s].status = "deleted"]_vars

(* A deleted employee is kept out (docs/api.md:383): who comes with a token *)
(* or a password after the deletion gets no session and no work done, be it*)
(* with a session whose revocation failed, or while a patch that read the  *)
(* row before is about to write it back.                                   *)
LateIsRefused ==
  \A h \in Handlers : late[h] => pc[h] \in {"row", "check", "staff"}

(* Somebody can administer.  deleteStaff does not let administrators delete*)
(* themselves (admin.go:227).                                              *)
SomebodyAdministers ==
  \E s \in Staff : Present(s) /\ staff[s].active /\ staff[s].role = "admin"

(* When an employee is deactivated every session of theirs is revoked      *)
(* (docs/api.md:381, internal/config/config.go:21): none is left that a    *)
(* later reactivation would bring back to life.                            *)
DeactivationRevokes ==
  [][\A h \in Handlers :
       pc[h] = "update" /\ Deactivates(req[h]) /\ ~staff'[req[h].who].active =>
         \A j \in Sessions : sessions'[j].staff = req[h].who => sessions'[j].revoked]_vars

(* PATCH changes the fields it was sent and no others (docs/api.md:381).   *)
PartialUpdate ==
  [][\A h \in Handlers : pc[h] = "update" /\ pc'[h] = "idle" =>
       \A f \in Fields \ req[h].sent :
         staff'[req[h].who][f] = staff[req[h].who][f]]_vars

=============================================================================
