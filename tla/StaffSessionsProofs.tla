------------------------- MODULE StaffSessionsProofs -------------------------
(***************************************************************************)
(* Proofs about StaffSessions: for any number of employees, sessions and   *)
(* handlers and any set of requests, a deleted employee stays deleted and  *)
(* is kept out, whatever was under way when they were deleted.             *)
(***************************************************************************)
EXTENDS StaffSessions, TLAPS

USE DEF Labels, Roles, Kinds, Statuses

(* Whose request a handler serves.                                         *)
Asker(h) == IF req[h].op = "login" THEN req[h].who ELSE Actor(h)

(* What a handler's label says of its request and its token.               *)
Serving(h) ==
  /\ pc[h] # "idle" => req[h] \in Requests
  /\ pc[h] \in {"row", "session"} => req[h].op = "login"
  /\ pc[h] \in {"check", "staff", "serve", "find"} =>
       req[h].op # "login" /\ token[h] \in Sessions /\ Issued(token[h])
  /\ pc[h] \in {"read", "update"} => req[h].op = "patch"
  /\ pc[h] \in {"find", "remove"} => req[h].op = "delete"
  /\ pc[h] = "insert" => req[h].op = "create"
  /\ pc[h] = "revoke" => req[h].op \in {"patch", "delete"}
  /\ pc[h] = "session" => staff[req[h].who].status # "absent"

(* A late request is one of somebody deleted, and has not got far.         *)
Barred(h) == late[h] => pc[h] \in {"row", "check", "staff"} /\ Deleted(Asker(h))

Inv == TypeOK /\ (\A h \in Handlers : Serving(h)) /\ (\A h \in Handlers : Barred(h))

LEMMA RequestShape ==
  ASSUME NEW q \in Requests
  PROVE  /\ q.op \in {"login", "use", "logout", "patch", "delete", "create"}
         /\ q.op \in {"login", "patch", "delete"} => q.who \in Staff
         /\ q.op = "login" => q.kind \in Kinds
         /\ q.op = "patch" => q.sent \in SUBSET Fields /\ q.row \in StaffRow
         /\ q.op = "create" => q.row \in StaffRow
  BY StaffAssumption DEF LoginRequest, UseRequest, PatchRequest, DropRequest, HireRequest

LEMMA NoRowTyped == NoRow \in StaffRow /\ Founder \in StaffRow
<1>1. (CHOOSE p \in Profiles : TRUE) \in Profiles
  BY StaffAssumption
<1>. QED BY <1>1 DEF NoRow, Founder, StaffRow

LEMMA InitInv == Init => Inv
<1>. SUFFICES ASSUME Init PROVE Inv
  OBVIOUS
<1>1. staff \in [Staff -> StaffRow]
  BY NoRowTyped DEF Init
<1>2. sessions \in [Sessions -> Session] /\ \A j \in Sessions : ~Issued(j)
  BY DEF Init, Session, Unissued, Issued
<1>3. /\ pc \in [Handlers -> Labels] /\ token \in [Handlers -> Sessions \cup {NoSession}]
      /\ req \in [Handlers -> Requests \cup {NoRequest}] /\ late \in [Handlers -> BOOLEAN]
      /\ copy \in [Handlers -> StaffRow]
  BY NoRowTyped DEF Init
<1>4. TypeOK
  BY <1>1, <1>2, <1>3 DEF TypeOK
<1>5. ASSUME NEW h \in Handlers PROVE Serving(h) /\ Barred(h)
  BY <1>5 DEF Init, Serving, Barred
<1>. QED BY <1>4, <1>5 DEF Inv

-----------------------------------------------------------------------------
(* Rows and sessions only grow older: this is what other handlers may rely *)
(* on between two of their statements.                                     *)
Older ==
  /\ \A s \in Staff : /\ Deleted(s) => Deleted(s)'
                      /\ staff[s].status # "absent" => staff'[s].status # "absent"
  /\ \A j \in Sessions : Issued(j) => Issued(j)' /\ sessions'[j].staff = sessions[j].staff

(* A handler that takes no step keeps what its label says.                 *)
LEMMA OthersKeep ==
  ASSUME Inv, Older, NEW h \in Handlers,
         pc'[h] = pc[h], req'[h] = req[h], token'[h] = token[h], late'[h] = late[h]
  PROVE  Serving(h)' /\ Barred(h)'
<1>1. Serving(h) /\ Barred(h) /\ TypeOK
  BY DEF Inv
<1>2. req[h] \in Requests => (req[h].op = "login" => req[h].who \in Staff)
  BY RequestShape
<1>3. token[h] \in Sessions /\ Issued(token[h]) =>
        /\ Issued(token[h])' /\ sessions'[token[h]].staff = sessions[token[h]].staff
        /\ sessions[token[h]].staff \in Staff
  BY <1>1 DEF Older, TypeOK, Issued, Session
<1>4. Serving(h)'
  BY <1>1, <1>2, <1>3 DEF Serving, Older, Issued
<1>5. Barred(h)'
  <2>1. CASE late[h] /\ pc[h] = "row"
    BY <1>1, <1>2, <2>1 DEF Serving, Barred, Asker, Older, Deleted
  <2>2. CASE late[h] /\ pc[h] \in {"check", "staff"}
    BY <1>1, <1>3, <2>2 DEF Serving, Barred, Asker, Actor, Older, Deleted
  <2>3. CASE ~late[h]
    BY <2>3 DEF Barred
  <2>. QED BY <1>1, <2>1, <2>2, <2>3 DEF Barred
<1>. QED BY <1>4, <1>5

(* Rows that do not change are not younger.                                *)
LEMMA SameTables == ASSUME UNCHANGED tables PROVE Older
  BY DEF Older, tables, Deleted, Issued

(* A handler that has answered serves nobody.                              *)
LEMMA Ended ==
  ASSUME Inv, NEW h \in Handlers, End(h)
  PROVE  /\ pc' \in [Handlers -> Labels] /\ req' \in [Handlers -> Requests \cup {NoRequest}]
         /\ token' \in [Handlers -> Sessions \cup {NoSession}]
         /\ copy' \in [Handlers -> StaffRow] /\ late' \in [Handlers -> BOOLEAN]
         /\ Serving(h)' /\ Barred(h)'
         /\ \A o \in Handlers \ {h} : /\ pc'[o] = pc[o] /\ req'[o] = req[o]
                                      /\ token'[o] = token[o] /\ late'[o] = late[o]
  BY NoRowTyped DEF Inv, TypeOK, End, Goto, Serving, Barred

(* A handler that goes on moves its own label only.                        *)
LEMMA Moved ==
  ASSUME Inv, NEW h \in Handlers, NEW label \in Labels, Goto(h, label), Stay(h)
  PROVE  /\ pc' \in [Handlers -> Labels] /\ pc'[h] = label
         /\ req' = req /\ token' = token /\ copy' = copy /\ late' = late
         /\ \A o \in Handlers \ {h} : pc'[o] = pc[o]
  BY DEF Inv, TypeOK, Goto, Stay

(* The state the tables must be in for the invariant to go on.             *)
TablesOK == /\ \A j \in Sessions : Issued(j) => staff[sessions[j].staff].status # "absent"
            /\ staff \in [Staff -> StaffRow] /\ sessions \in [Sessions -> Session]

(* From one handler's step to the whole invariant.                         *)
LEMMA EndKeeps ==
  ASSUME Inv, NEW h \in Handlers, End(h), Older, TablesOK'
  PROVE  Inv'
<1>1. ASSUME NEW o \in Handlers PROVE Serving(o)' /\ Barred(o)'
  BY <1>1, Ended, OthersKeep
<1>2. TypeOK'
  BY Ended DEF TypeOK, TablesOK
<1>. QED BY <1>1, <1>2 DEF Inv

LEMMA MoveKeeps ==
  ASSUME Inv, NEW h \in Handlers, NEW label \in Labels, Goto(h, label), Stay(h),
         Older, TablesOK', Serving(h)', Barred(h)'
  PROVE  Inv'
<1>1. ASSUME NEW o \in Handlers PROVE Serving(o)' /\ Barred(o)'
  BY <1>1, Moved, OthersKeep
<1>2. TypeOK'
  BY Moved DEF TypeOK, TablesOK, Inv
<1>. QED BY <1>1, <1>2 DEF Inv

LEMMA SameTablesOK == ASSUME Inv, UNCHANGED tables PROVE TablesOK'
  BY DEF Inv, TypeOK, TablesOK, tables, Issued

-----------------------------------------------------------------------------
(* The steps.                                                              *)
LEMMA AcceptInv == ASSUME Inv, NEW h \in Handlers, Accept(h) PROVE Inv'
<1>1. Older /\ TablesOK'
  BY SameTables, SameTablesOK DEF Accept
<1>2. PICK q \in Requests :
        /\ req' = [req EXCEPT ![h] = q]
        /\ \/ /\ q.op = "login"
              /\ Goto(h, "row")
              /\ late' = [late EXCEPT ![h] = Deleted(q.who)]
              /\ UNCHANGED token
           \/ /\ q.op # "login"
              /\ Goto(h, "check")
              /\ \E j \in Sessions :
                   /\ Issued(j)
                   /\ token' = [token EXCEPT ![h] = j]
                   /\ late' = [late EXCEPT ![h] = Deleted(sessions[j].staff)]
  BY DEF Accept
<1>3. UNCHANGED <<staff, sessions, copy>>
  BY DEF Accept, tables
<1>4. TypeOK
  BY DEF Inv
<1>5. req' \in [Handlers -> Requests \cup {NoRequest}] /\ req'[h] = q
  BY <1>2, <1>4 DEF TypeOK
<1>6. CASE q.op = "login"
  <2>1. /\ Goto(h, "row") /\ token' = token
        /\ late' = [late EXCEPT ![h] = Deleted(q.who)]
    BY <1>2, <1>6
  <2>2. pc' \in [Handlers -> Labels] /\ pc'[h] = "row"
    BY <2>1, <1>4 DEF Goto, TypeOK
  <2>3. late' \in [Handlers -> BOOLEAN] /\ late'[h] = Deleted(q.who)
    BY <2>1, <1>4, Zenon DEF TypeOK, Deleted
  <2>4. Serving(h)'
    BY <1>5, <1>6, <2>2 DEF Serving
  <2>5. Barred(h)'
    BY <1>3, <1>5, <1>6, <2>2, <2>3 DEF Barred, Asker, Deleted
  <2>6. ASSUME NEW o \in Handlers, o # h PROVE Serving(o)' /\ Barred(o)'
    <3>1. pc'[o] = pc[o] /\ req'[o] = req[o] /\ token'[o] = token[o] /\ late'[o] = late[o]
      BY <1>2, <1>4, <2>1, <2>6 DEF Goto, TypeOK
    <3>. QED BY <3>1, <1>1, OthersKeep
  <2>7. TypeOK'
    BY <1>1, <1>3, <1>4, <1>5, <2>1, <2>2, <2>3 DEF TypeOK, TablesOK
  <2>. QED BY <2>4, <2>5, <2>6, <2>7 DEF Inv
<1>7. CASE q.op # "login"
  <2>0. Goto(h, "check")
    BY <1>2, <1>7
  <2>1. PICK j \in Sessions :
          /\ Issued(j)
          /\ token' = [token EXCEPT ![h] = j]
          /\ late' = [late EXCEPT ![h] = Deleted(sessions[j].staff)]
    BY <1>2, <1>7
  <2>2. pc' \in [Handlers -> Labels] /\ pc'[h] = "check"
    BY <2>0, <1>4 DEF Goto, TypeOK
  <2>3. late' \in [Handlers -> BOOLEAN] /\ late'[h] = Deleted(sessions[j].staff)
    BY <2>1, <1>4, Zenon DEF TypeOK, Deleted
  <2>8. token' \in [Handlers -> Sessions \cup {NoSession}] /\ token'[h] = j
    BY <2>1, <1>4 DEF TypeOK
  <2>4. Serving(h)'
    BY <1>3, <1>5, <1>7, <2>1, <2>2, <2>8 DEF Serving, Issued
  <2>5. Barred(h)'
    BY <1>3, <1>5, <1>7, <2>2, <2>3, <2>8 DEF Barred, Asker, Actor, Deleted
  <2>6. ASSUME NEW o \in Handlers, o # h PROVE Serving(o)' /\ Barred(o)'
    <3>1. pc'[o] = pc[o] /\ req'[o] = req[o] /\ token'[o] = token[o] /\ late'[o] = late[o]
      BY <1>2, <1>4, <2>0, <2>1, <2>6 DEF Goto, TypeOK
    <3>. QED BY <3>1, <1>1, OthersKeep
  <2>7. TypeOK'
    BY <1>1, <1>3, <1>4, <1>5, <2>2, <2>3, <2>8 DEF TypeOK, TablesOK
  <2>. QED BY <2>4, <2>5, <2>6, <2>7 DEF Inv
<1>. QED BY <1>6, <1>7

(* The statements that read: what they find decides the next label.        *)
LEMMA ReadingInv ==
  ASSUME Inv, NEW h \in Handlers,
         ReadLogin(h) \/ CheckSession(h) \/ CheckStaff(h) \/ Serve(h) \/ Find(h) \/ Drop(h)
  PROVE  Inv'
<1>1. UNCHANGED tables /\ Older /\ TablesOK'
  BY SameTables, SameTablesOK DEF ReadLogin, CheckSession, CheckStaff, Serve, Find, Drop
<1>2. CASE End(h)
  BY <1>1, <1>2, EndKeeps
<1>3. CASE ~End(h)
  <2>1. PICK label \in Labels : Goto(h, label) /\ Stay(h) /\ label \in
          {"session", "staff", "serve", "read", "find", "insert", "remove"}
    BY <1>3, RequestShape DEF ReadLogin, CheckSession, CheckStaff, Serve, Find, Drop, FirstStep,
                              Inv, Serving
  <2>2. /\ Serving(h) /\ Barred(h) /\ TypeOK
        /\ pc'[h] = label /\ req' = req /\ token' = token /\ late' = late
    BY <2>1, Moved DEF Inv
  <2>3. UNCHANGED <<staff, sessions>>
    BY <1>1 DEF tables
  <2>4. req[h] \in Requests
    BY <2>2 DEF Serving, ReadLogin, CheckSession, CheckStaff, Serve, Find, Drop
  <2>5. CASE ReadLogin(h)
    <3>1. label = "session" /\ MayLogIn(staff[req[h].who], req[h].kind) /\ pc[h] = "row"
      BY <1>3, <2>2, <2>5 DEF ReadLogin, Goto, TypeOK
    <3>2. req[h].op = "login" /\ staff[req[h].who].status = "present"
      BY <2>2, <3>1 DEF Serving, MayLogIn
    <3>3. ~late[h]
      BY <2>2, <3>1, <3>2 DEF Barred, Asker, Deleted
    <3>4. Serving(h)' /\ Barred(h)'
      BY <2>2, <2>3, <2>4, <3>1, <3>2, <3>3 DEF Serving, Barred
    <3>. QED BY <1>1, <2>1, <3>4, MoveKeeps
  <2>6. CASE CheckSession(h)
    <3>1. label = "staff" /\ pc[h] = "check"
      BY <1>3, <2>2, <2>6 DEF CheckSession, Goto, TypeOK
    <3>2. Serving(h)' /\ Barred(h)'
      BY <2>2, <2>3, <2>4, <3>1 DEF Serving, Barred, Asker, Actor, Deleted, Issued
    <3>. QED BY <1>1, <2>1, <3>2, MoveKeeps
  <2>7. CASE CheckStaff(h)
    <3>1. label = FirstStep[req[h].op] /\ pc[h] = "staff" /\ Present(Actor(h))
      BY <1>3, <2>2, <2>7 DEF CheckStaff, Goto, TypeOK
    <3>2. req[h].op # "login" /\ token[h] \in Sessions /\ Issued(token[h])
      BY <2>2, <3>1 DEF Serving
    <3>3. ~late[h]
      BY <2>2, <3>1, <3>2 DEF Barred, Asker, Deleted, Present
    <3>4. /\ label \in {"serve", "read", "find", "insert"}
          /\ label = "read" => req[h].op = "patch"
          /\ label = "find" => req[h].op = "delete"
          /\ label = "insert" => req[h].op = "create"
      BY <2>4, <3>1, <3>2, RequestShape DEF FirstStep
    <3>5. Serving(h)' /\ Barred(h)'
      BY <2>2, <2>3, <2>4, <3>2, <3>3, <3>4 DEF Serving, Barred, Issued
    <3>. QED BY <1>1, <2>1, <3>5, MoveKeeps
  <2>8. CASE Find(h)
    <3>1. label = "remove" /\ pc[h] = "find"
      BY <1>3, <2>2, <2>8 DEF Find, Goto, TypeOK
    <3>2. Serving(h)' /\ Barred(h)'
      BY <2>2, <2>3, <2>4, <3>1 DEF Serving, Barred
    <3>. QED BY <1>1, <2>1, <3>2, MoveKeeps
  <2>. QED BY <1>3, <2>5, <2>6, <2>7, <2>8 DEF Serve, Drop
<1>. QED BY <1>2, <1>3

(* A new session is one of an employee that has a row.                     *)
LEMMA CreateSessionInv == ASSUME Inv, NEW h \in Handlers, CreateSession(h) PROVE Inv'
<1>1. PICK j \in Sessions :
        /\ ~Issued(j)
        /\ sessions' = [sessions EXCEPT ![j] =
             [Unissued EXCEPT !.staff = req[h].who, !.kind = req[h].kind]]
  BY DEF CreateSession
<1>2. req[h].who \in Staff /\ req[h].kind \in Kinds /\ staff[req[h].who].status # "absent"
  BY RequestShape DEF Inv, Serving, CreateSession
<1>3. [Unissued EXCEPT !.staff = req[h].who, !.kind = req[h].kind] \in Session
  BY <1>2 DEF Unissued, Session
<1>4. TablesOK'
  BY <1>1, <1>2, <1>3, StaffAssumption DEF Inv, TypeOK, TablesOK, CreateSession, Issued, Unissued
<1>5. Older
  BY <1>1, <1>2, <1>3, StaffAssumption DEF Older, Inv, TypeOK, CreateSession, Issued, Deleted
<1>. QED BY <1>4, <1>5, EndKeeps DEF CreateSession

(* Revoking touches no owner.                                              *)
LEMMA RevokingInv ==
  ASSUME Inv, NEW h \in Handlers, Logout(h) \/ Revoke(h)
  PROVE  Inv'
<1>1. sessions' \in [Sessions -> Session] /\ staff' = staff
      /\ \A j \in Sessions : sessions'[j].staff = sessions[j].staff
  <2>1. CASE Logout(h)
    BY <2>1 DEF Logout, Inv, TypeOK, Session
  <2>2. CASE Revoke(h)
    <3>1. \A j \in Sessions : /\ [sessions[j] EXCEPT !.revoked = TRUE] \in Session
                              /\ [sessions[j] EXCEPT !.revoked = TRUE].staff = sessions[j].staff
      BY DEF Inv, TypeOK, Session
    <3>2. sessions' = AllRevoked(req[h].who) \/ sessions' = sessions
      BY <2>2 DEF Revoke
    <3>3. sessions \in [Sessions -> Session] /\ staff' = staff
      BY <2>2 DEF Revoke, Inv, TypeOK
    <3>. QED BY <3>1, <3>2, <3>3 DEF AllRevoked
  <2>. QED BY <2>1, <2>2
<1>2. Older
  BY <1>1 DEF Older, Issued, Deleted
<1>3. TablesOK'
  BY <1>1 DEF TablesOK, Inv, TypeOK, Issued
<1>4. CASE End(h)
  BY <1>2, <1>3, <1>4, EndKeeps
<1>5. CASE ~End(h)
  <2>1. pc[h] = "revoke" /\ req[h].op = "patch" /\ Goto(h, "update") /\ Stay(h)
    BY <1>5 DEF Logout, Revoke
  <2>2. pc'[h] = "update" /\ req' = req /\ token' = token /\ late' = late
    BY <2>1, Moved
  <2>3. Serving(h)' /\ Barred(h)'
    BY <2>1, <2>2 DEF Inv, Serving, Barred
  <2>. QED BY <1>2, <1>3, <2>1, <2>3, MoveKeeps
<1>. QED BY <1>4, <1>5

LEMMA HireInv == ASSUME Inv, NEW h \in Handlers, Hire(h) PROVE Inv'
<1>1. PICK s \in Staff :
        /\ staff[s].status = "absent"
        /\ staff' = [staff EXCEPT ![s] = [req[h].row EXCEPT !.status = "present"]]
  BY DEF Hire
<1>2. req[h].row \in StaffRow
  BY RequestShape DEF Inv, Serving, Hire
<1>3. [req[h].row EXCEPT !.status = "present"] \in StaffRow
  BY <1>2 DEF StaffRow
<1>4. Older
  BY <1>1, <1>2 DEF Older, Inv, TypeOK, Hire, Issued, Deleted, StaffRow
<1>5. TablesOK'
  BY <1>1, <1>2, <1>3 DEF TablesOK, Inv, TypeOK, Hire, Issued, StaffRow
<1>. QED BY <1>4, <1>5, EndKeeps DEF Hire

(* The row a patch takes home, and the row it writes: all of it but the    *)
(* column deleted_at.                                                      *)
LEMMA ReadPatchInv == ASSUME Inv, NEW h \in Handlers, ReadPatch(h) PROVE Inv'
<1>1. UNCHANGED tables /\ Older /\ TablesOK'
  BY SameTables, SameTablesOK DEF ReadPatch
<1>2. CASE End(h)
  BY <1>1, <1>2, EndKeeps
<1>3. CASE ~End(h)
  <2>1. /\ copy' = [copy EXCEPT ![h] = Edited(staff[req[h].who], req[h])]
        /\ Goto(h, IF Deactivates(req[h]) THEN "revoke" ELSE "update")
        /\ UNCHANGED <<req, token, late>> /\ pc[h] = "read"
    BY <1>3 DEF ReadPatch
  <2>2. TypeOK /\ Serving(h) /\ Barred(h)
    BY DEF Inv
  <2>3. /\ req[h] \in Requests /\ req[h].op = "patch" /\ req[h].who \in Staff
        /\ req[h].row \in StaffRow
    BY <2>1, <2>2, RequestShape DEF Serving
  <2>4. Edited(staff[req[h].who], req[h]) \in StaffRow
    BY <2>2, <2>3 DEF Edited, StaffRow, TypeOK
  <2>5. copy' \in [Handlers -> StaffRow]
    BY <2>1, <2>2, <2>4 DEF TypeOK
  <2>6. pc' \in [Handlers -> Labels] /\ pc'[h] \in {"revoke", "update"}
        /\ \A o \in Handlers \ {h} : pc'[o] = pc[o]
    BY <2>1, <2>2 DEF TypeOK, Goto
  <2>7. Serving(h)' /\ Barred(h)'
    BY <2>1, <2>2, <2>3, <2>6 DEF Serving, Barred
  <2>8. ASSUME NEW o \in Handlers, o # h PROVE Serving(o)' /\ Barred(o)'
    BY <1>1, <2>1, <2>6, <2>8, OthersKeep
  <2>9. TypeOK'
    BY <1>1, <2>1, <2>2, <2>5, <2>6 DEF TypeOK, TablesOK, tables
  <2>. QED BY <2>7, <2>8, <2>9 DEF Inv
<1>. QED BY <1>2, <1>3

LEMMA UpdateInv == ASSUME Inv, NEW h \in Handlers, Update(h) PROVE Inv'
<1>1. req[h].who \in Staff /\ copy[h] \in StaffRow /\ staff \in [Staff -> StaffRow]
  BY RequestShape DEF Inv, TypeOK, Serving, Update
<1>2. Written(staff[req[h].who], copy[h]) \in StaffRow
      /\ Written(staff[req[h].who], copy[h]).status = staff[req[h].who].status
  BY <1>1 DEF Written, StaffRow
<1>3. staff' = [staff EXCEPT ![req[h].who] = Written(staff[req[h].who], copy[h])]
      /\ sessions' = sessions
  BY DEF Update
<1>4. Older
  BY <1>1, <1>2, <1>3 DEF Older, Issued, Deleted
<1>5. TablesOK'
  BY <1>1, <1>2, <1>3 DEF TablesOK, Inv, TypeOK, Issued
<1>. QED BY <1>4, <1>5, EndKeeps DEF Update

LEMMA RemoveInv == ASSUME Inv, NEW h \in Handlers, Remove(h) PROVE Inv'
<1>1. CASE End(h) /\ UNCHANGED staff
  BY <1>1, EndKeeps, SameTables, SameTablesOK DEF Remove, tables
<1>2. CASE ~(End(h) /\ UNCHANGED staff)
  <2>1. /\ staff' = [staff EXCEPT ![req[h].who].status = "deleted"]
        /\ Goto(h, "revoke") /\ Stay(h) /\ sessions' = sessions /\ pc[h] = "remove"
    BY <1>2 DEF Remove
  <2>2. req[h] \in Requests /\ req[h].op = "delete" /\ req[h].who \in Staff
    BY <2>1, RequestShape DEF Inv, Serving
  <2>3. Older
    BY <2>1, <2>2 DEF Older, Issued, Deleted, Inv, TypeOK, StaffRow
  <2>4. TablesOK'
    BY <2>1, <2>2 DEF TablesOK, Inv, TypeOK, Issued, StaffRow
  <2>5. pc'[h] = "revoke" /\ req' = req /\ token' = token /\ late' = late
    BY <2>1, Moved
  <2>6. Serving(h)' /\ Barred(h)'
    BY <2>1, <2>2, <2>5 DEF Inv, Serving, Barred
  <2>. QED BY <2>1, <2>3, <2>4, <2>6, MoveKeeps
<1>. QED BY <1>1, <1>2

LEMMA ExpireInv == ASSUME Inv, NEW j \in Sessions, Expire(j) PROVE Inv'
<1>1. Older /\ TablesOK'
  BY DEF Expire, Older, TablesOK, Inv, TypeOK, Issued, Deleted, Session
<1>2. ASSUME NEW h \in Handlers PROVE Serving(h)' /\ Barred(h)'
  BY <1>1, OthersKeep DEF Expire
<1>3. TypeOK'
  BY <1>1 DEF Expire, TypeOK, TablesOK, Inv
<1>. QED BY <1>2, <1>3 DEF Inv

LEMMA StutterInv == ASSUME Inv, UNCHANGED vars PROVE Inv'
  BY DEF Inv, TypeOK, Serving, Barred, Asker, Actor, Deleted, Issued, vars, tables

LEMMA StepInv == ASSUME Inv, [Next]_vars PROVE Inv'
<1>1. ASSUME NEW h \in Handlers, Accept(h) \/ Step(h) \/ Drop(h) PROVE Inv'
  BY <1>1, AcceptInv, ReadingInv, CreateSessionInv, RevokingInv, HireInv, ReadPatchInv,
     UpdateInv, RemoveInv DEF Step
<1>. QED BY <1>1, ExpireInv, StutterInv DEF Next

THEOREM Invariance == Spec => []Inv
  BY InitInv, StepInv, PTL DEF Spec

(* Every column keeps its type and every session is one of an employee     *)
(* that was created.                                                       *)
THEOREM TypeCorrect == Spec => []TypeOK
<1>1. Inv => TypeOK
  BY DEF Inv
<1>. QED BY Invariance, <1>1, PTL

(* Who comes after the deletion gets no session and no work done, for any  *)
(* number of employees, sessions, handlers and requests.                   *)
THEOREM DeletedAreOut == Spec => []LateIsRefused
<1>1. Inv => LateIsRefused
  BY DEF Inv, Barred, LateIsRefused
<1>. QED BY Invariance, <1>1, PTL

(* No step undeletes a row: a patch that read it before writes all columns *)
(* back but deleted_at, a hire takes a fresh id.                           *)
THEOREM DeletionStays == Spec => DeletedForGood
<1>1. ASSUME Inv, [Next]_vars, NEW s \in Staff, staff[s].status = "deleted"
      PROVE  staff'[s].status = "deleted"
  <2>1. ASSUME NEW h \in Handlers, Hire(h) PROVE staff'[s].status = "deleted"
    BY <1>1, <2>1 DEF Hire, Inv, TypeOK
  <2>2. ASSUME NEW h \in Handlers, Update(h) PROVE staff'[s].status = "deleted"
    BY <1>1, <2>2 DEF Update, Written, Inv, TypeOK, StaffRow
  <2>3. ASSUME NEW h \in Handlers, Remove(h) PROVE staff'[s].status = "deleted"
    BY <1>1, <2>3 DEF Remove, Inv, TypeOK, StaffRow
  <2>4. ASSUME NEW h \in Handlers,
               Accept(h) \/ ReadLogin(h) \/ CreateSession(h) \/ CheckSession(h) \/ CheckStaff(h)
               \/ Serve(h) \/ Logout(h) \/ ReadPatch(h) \/ Revoke(h) \/ Find(h) \/ Drop(h)
        PROVE  staff'[s].status = "deleted"
    BY <1>1, <2>4 DEF Accept, ReadLogin, CreateSession, CheckSession, CheckStaff, Serve, Logout,
                      ReadPatch, Revoke, Find, Drop, tables
  <2>5. ASSUME (\E j \in Sessions : Expire(j)) \/ UNCHANGED vars PROVE staff'[s].status = "deleted"
    BY <1>1, <2>5 DEF Expire, vars, tables
  <2>. QED BY <1>1, <2>1, <2>2, <2>3, <2>4, <2>5 DEF Next, Step
<1>2. Inv /\ [Next]_vars =>
        [\A s \in Staff : staff[s].status = "deleted" => staff'[s].status = "deleted"]_vars
  BY <1>1
<1>. QED BY Invariance, <1>2, PTL DEF Spec, DeletedForGood
=============================================================================
