-------------------------------- MODULE Shops --------------------------------
(***************************************************************************)
(* Stores, who works where, and what is shown of a store's sales: the      *)
(* store and staff endpoints of the administrator (admin.go), postCommit,  *)
(* postRefund and getShiftReceipts of the till (cashier.go), recordActivity*)
(* (activity.go), over the tables stores, staff, receipts and activity     *)
(* (internal/store).  "Shop" stands for a store of the chain here, "store" *)
(* in the code is also the database.                                       *)
(*                                                                         *)
(* A step is one statement, or one transaction of Ledger with the part of  *)
(* it that concerns shops; any other handler may run between two steps.    *)
(* The clock counts hours, in UTC.  What cards, points and refusals do to  *)
(* a sale is in Ledger, and what sessions do in StaffSessions.             *)
(*                                                                         *)
(* An operator named Slip... is wrong on purpose: a plausible slip in the  *)
(* operator below it, kept to show which property would notice.            *)
(***************************************************************************)
EXTENDS Integers, FiniteSets

CONSTANTS
  Handlers,  \* goroutines serving requests
  Shops,     \* ids of stores, fresh ones drawn at random
  Flagship,  \* the store of the first migration
  Staff,     \* ids of employees
  Founders,  \* those the bootstrap made, at the flagship
  Admins,
  Receipts,  \* receipt_id values, chosen by the tills
  Texts,     \* names and addresses
  Requests,  \* requests that may be sent, any number of times
  FirstHour, LastHour, \* of the clock
  NoShop, NoStaff, NoReceipt, NoText, NoRequest

Hours  == FirstHour .. LastHour
Fields == {"name", "address"}

SaleRequest   == [op : {"sale"}, shop : Shops \cup {NoShop}, receipt : Receipts]
RefundRequest == [op : {"refund"}, receipt : Receipts]
HireRequest   == [op : {"hire"}, shop : Shops]
MoveRequest   == [op : {"move"}, who : Staff, shop : Shops \cup {NoShop}]
PatchRequest  == [op : {"patch"}, shop : Shops, sent : [Fields -> Texts \cup {NoText}]]
CloseRequest  == [op : {"close"}, shop : Shops]

ASSUME ShopsAssumption ==
  /\ Flagship \in Shops /\ Founders \subseteq Staff /\ Admins \subseteq Staff
  /\ NoShop \notin Shops /\ NoStaff \notin Staff /\ NoReceipt \notin Receipts
  /\ NoText \in Texts
  /\ Requests \subseteq SaleRequest \cup RefundRequest \cup HireRequest
                    \cup MoveRequest \cup PatchRequest \cup CloseRequest
  /\ NoRequest \notin Requests
ASSUME HoursAssumption == FirstHour \in Nat /\ LastHour \in Nat /\ FirstHour <= LastHour

VARIABLES
  shops,     \* rows of stores
  home,      \* store_id of staff, NoShop before they are hired
  receipts,  \* rows of receipts
  feed,      \* how many rows of activity there are of each kind
  tokens,    \* the claims of the tokens that are out
  clock,
  pc, req,   \* where a handler is, and what it serves
  mem        \* what it holds: its token, what it read, what it will write

tables == <<shops, home, receipts, feed>>
vars   == <<tables, tokens, clock, pc, req, mem>>

Statuses == {"absent", "open", "deleted"}
ShopRow  == [status : Statuses, label : [Fields -> Texts]]
Sale     == [shop : Shops \cup {NoShop}, staff : Staff \cup {NoStaff}, at : Hours,
             status : {"absent", "committed", "refunded"}]
Token    == [staff : Staff, shop : Shops]
Event    == [kind : {"receipt_committed", "receipt_refunded"}, receipt : Receipts,
             staff : Staff, shop : Shops]

Memory == [staff : Staff \cup {NoStaff}, claim : Shops \cup {NoShop},
           home : Shops \cup {NoShop}, shop : Shops \cup {NoShop}, at : Hours,
           label : [Fields -> Texts]]

NoLabel == [f \in Fields |-> NoText]
NoSale  == [shop |-> NoShop, staff |-> NoStaff, at |-> FirstHour, status |-> "absent"]
Nothing == [staff |-> NoStaff, claim |-> NoShop, home |-> NoShop, shop |-> NoShop,
            at |-> FirstHour, label |-> NoLabel]

Labels == {"idle", "staff", "shop", "receipt", "stamp", "insert", "mark", "record",
           "write", "row", "update", "remove"}

Init ==
  /\ shops = [s \in Shops |-> [label |-> NoLabel,
                               status |-> IF s = Flagship THEN "open" ELSE "absent"]]
  /\ home = [p \in Staff |-> IF p \in Founders THEN Flagship ELSE NoShop]
  /\ receipts = [r \in Receipts |-> NoSale]
  /\ feed = [e \in Event |-> 0]
  /\ tokens = {}
  /\ clock = FirstHour
  /\ pc = [h \in Handlers |-> "idle"]
  /\ req = [h \in Handlers |-> NoRequest]
  /\ mem = [h \in Handlers |-> Nothing]

Open(s) == shops[s].status = "open"
Rung(r) == receipts[r].status # "absent"

\* The foreign keys on stores, of staff and of receipts.
SlipNoKeys(s) == TRUE
KeyHolds(s) == s \in Shops /\ Open(s)

Referenced(s) == \/ \E p \in Staff : home[p] = s
                 \/ \E r \in Receipts : receipts[r].shop = s

Goto(h, label)  == pc' = [pc EXCEPT ![h] = label]
Keep(h, memory) == mem' = [mem EXCEPT ![h] = memory]
Stay            == UNCHANGED <<tokens, clock, req, mem>>

\* The handler answers, whatever it answers.
End(h) ==
  /\ Goto(h, "idle")
  /\ req' = [req EXCEPT ![h] = NoRequest]
  /\ Keep(h, Nothing)
  /\ UNCHANGED <<tokens, clock>>

-----------------------------------------------------------------------------
(* A token carries the store its employee had when it was signed, for days *)
(* (CASHIER_JWT_TTL).                                                      *)
Login(p) ==
  /\ home[p] # NoShop
  /\ tokens' = tokens \cup {[staff |-> p, shop |-> home[p]]}
  /\ UNCHANGED <<tables, clock, pc, req, mem>>

Tick == /\ clock < LastHour
        /\ clock' = clock + 1
        /\ UNCHANGED <<tables, tokens, pc, req, mem>>

\* postCommit: the store asked for, or the one of the employee's row, and
\* a strange one for administrators only.
SaleShop(p, q)    == IF q.shop = NoShop THEN home[p] ELSE q.shop
SaleAllowed(p, q) == SaleShop(p, q) = home[p] \/ p \in Admins

ShopAsked(p, q) == CASE q.op = "sale" -> SaleShop(p, q)
                     [] q.op = "refund" -> home[p]
                     [] OTHER -> q.shop

Allowed(p, q) == CASE q.op = "sale" -> SaleAllowed(p, q)
                   [] q.op = "refund" -> TRUE
                   [] OTHER -> p \in Admins

FirstStep == [sale |-> "shop", refund |-> "receipt", hire |-> "shop", move |-> "staff",
              patch |-> "row", close |-> "shop"]

(* authenticateStaff reads the row of the token's employee.                *)
Authenticate(h) ==
  /\ pc[h] = "idle"
  /\ \E t \in tokens, q \in Requests :
       /\ Allowed(t.staff, q)
       /\ req' = [req EXCEPT ![h] = q]
       /\ Keep(h, [Nothing EXCEPT !.staff = t.staff, !.claim = t.shop,
                                  !.home = home[t.staff], !.shop = ShopAsked(t.staff, q)])
       /\ Goto(h, FirstStep[q.op])
  /\ UNCHANGED <<tables, tokens, clock>>

(* GetStore, for a sale, a hire, a move and a deletion.                    *)
AfterShop == [sale |-> "receipt", hire |-> "write", move |-> "write", close |-> "remove"]

GetStore(h) ==
  /\ pc[h] = "shop"
  /\ \/ KeyHolds(mem[h].shop) /\ Goto(h, AfterShop[req[h].op]) /\ Stay
     \/ ~KeyHolds(mem[h].shop) /\ End(h)
  /\ UNCHANGED tables

-----------------------------------------------------------------------------
(* GetReceipt: a repeat of a sale answers what was recorded, or refuses, a *)
(* repeat of a refund answers; neither goes on.                            *)
GoesOn(h) == LET r == req[h].receipt
             IN  \/ req[h].op = "sale" /\ ~Rung(r)
                 \/ req[h].op = "refund" /\ receipts[r].status = "committed"

GetReceipt(h) ==
  /\ pc[h] = "receipt"
  /\ \/ /\ GoesOn(h)
        /\ Goto(h, IF req[h].op = "sale" THEN "stamp" ELSE "mark")
        /\ Stay
     \/ ~GoesOn(h) /\ End(h)
  /\ UNCHANGED tables

(* Commit takes the time once the card's row is its own.                   *)
Stamp(h) ==
  /\ pc[h] = "stamp"
  /\ Keep(h, [mem[h] EXCEPT !.at = clock])
  /\ Goto(h, "insert")
  /\ UNCHANGED <<tables, tokens, clock, req>>

SlipNoKey(r) == r \in Receipts
KeyFree(r) == ~Rung(r)

InsertReceipt(h) ==
  LET r == req[h].receipt
      m == mem[h]
  IN /\ pc[h] = "insert"
     /\ \/ /\ KeyFree(r) /\ KeyHolds(m.shop)
           /\ receipts' = [receipts EXCEPT ![r] =
                [shop |-> m.shop, staff |-> m.staff, at |-> m.at, status |-> "committed"]]
           /\ Goto(h, "record") /\ Stay
        \/ /\ ~(KeyFree(r) /\ KeyHolds(m.shop))
           /\ End(h)
           /\ UNCHANGED receipts
     /\ UNCHANGED <<shops, home, feed>>

(* Refund looks at nothing but the receipt: any till refunds any sale.     *)
MarkRefunded(h) ==
  /\ pc[h] = "mark"
  /\ receipts' = [receipts EXCEPT ![req[h].receipt].status = "refunded"]
  /\ Goto(h, "record") /\ Stay
  /\ UNCHANGED <<shops, home, feed>>

(* recordActivity comes after the transaction, on its own; the row of a    *)
(* refund has the store of whoever refunded, not of the sale.              *)
SlipHomeShop(h) == mem[h].home
EventShop(h) == mem[h].shop

EventOf(h) ==
  [kind    |-> IF req[h].op = "sale" THEN "receipt_committed" ELSE "receipt_refunded",
   receipt |-> req[h].receipt, staff |-> mem[h].staff, shop |-> EventShop(h)]

RecordActivity(h) ==
  /\ pc[h] = "record"
  /\ feed' = [feed EXCEPT ![EventOf(h)] = @ + 1]
  /\ End(h)
  /\ UNCHANGED <<shops, home, receipts>>

-----------------------------------------------------------------------------
(* patchStaff reads the row and writes all of it back, the store included, *)
(* new or not; createStaff inserts a row with a fresh id.                  *)
ReadStaff(h) ==
  /\ pc[h] = "staff"
  /\ \/ /\ home[req[h].who] # NoShop /\ req[h].shop # NoShop
        /\ Goto(h, "shop") /\ Stay
     \/ /\ home[req[h].who] # NoShop /\ req[h].shop = NoShop
        /\ Keep(h, [mem[h] EXCEPT !.shop = home[req[h].who]])
        /\ Goto(h, "write")
        /\ UNCHANGED <<tokens, clock, req>>
     \/ home[req[h].who] = NoShop /\ End(h)
  /\ UNCHANGED tables

Written(h) == IF req[h].op = "move" THEN {req[h].who} ELSE {p \in Staff : home[p] = NoShop}

WriteStaff(h) ==
  /\ pc[h] = "write"
  /\ \/ /\ KeyHolds(mem[h].shop)
        /\ \E p \in Written(h) : home' = [home EXCEPT ![p] = mem[h].shop]
     \/ ~KeyHolds(mem[h].shop) /\ UNCHANGED home
  /\ End(h)
  /\ UNCHANGED <<shops, receipts, feed>>

-----------------------------------------------------------------------------
(* createStore: a fresh id.                                                *)
CreateStore(s) ==
  /\ shops[s].status = "absent"
  /\ shops' = [shops EXCEPT ![s].status = "open"]
  /\ UNCHANGED <<home, receipts, feed, tokens, clock, pc, req, mem>>

\* patchStore reads the row, edits it, and writes all of it back.
Edited(label, sent) == [f \in Fields |-> IF sent[f] # NoText THEN sent[f] ELSE label[f]]

ReadStore(h) ==
  /\ pc[h] = "row"
  /\ \/ /\ Open(req[h].shop)
        /\ Keep(h, [mem[h] EXCEPT !.label = Edited(shops[req[h].shop].label, req[h].sent)])
        /\ Goto(h, "update")
        /\ UNCHANGED <<tokens, clock, req>>
     \/ ~Open(req[h].shop) /\ End(h)
  /\ UNCHANGED tables

SlipUpsert(row, label) == [status |-> "open", label |-> label]
Relabelled(row, label) == IF row.status = "open" THEN [row EXCEPT !.label = label] ELSE row

UpdateStore(h) ==
  /\ pc[h] = "update"
  /\ shops' = [shops EXCEPT ![req[h].shop] = Relabelled(@, mem[h].label)]
  /\ End(h)
  /\ UNCHANGED <<home, receipts, feed>>

(* DELETE fails while staff or receipts refer to the row, whatever the     *)
(* handler saw before.                                                     *)
DeleteStore(h) ==
  LET s == req[h].shop
  IN /\ pc[h] = "remove"
     /\ \/ /\ Open(s) /\ ~Referenced(s)
           /\ shops' = [shops EXCEPT ![s].status = "deleted"]
        \/ ~(Open(s) /\ ~Referenced(s)) /\ UNCHANGED shops
     /\ End(h)
     /\ UNCHANGED <<home, receipts, feed>>

(* The deadline, a client gone, a refusal of Ledger's, a failing statement *)
(* or a crash ends a handler half way; what it wrote stays.                *)
Drop(h) == pc[h] # "idle" /\ End(h) /\ UNCHANGED tables

Step(h) == Authenticate(h) \/ GetStore(h) \/ GetReceipt(h) \/ Stamp(h) \/ InsertReceipt(h)
           \/ MarkRefunded(h) \/ RecordActivity(h) \/ ReadStaff(h) \/ WriteStaff(h)
           \/ ReadStore(h) \/ UpdateStore(h) \/ DeleteStore(h)

Next == \/ \E h \in Handlers : Step(h) \/ Drop(h)
        \/ \E p \in Staff : Login(p)
        \/ \E s \in Shops : CreateStore(s)
        \/ Tick

Spec == Init /\ [][Next]_vars

-----------------------------------------------------------------------------
(* The shift list of a till.  Moscow is UTC+3 all year.                    *)
DayBounds(now) == LET start == ((now + 3) \div 24) * 24 - 3
                  IN  [from |-> start, until |-> start + 24]

SlipInclusive(at, day) == day.from <= at /\ at <= day.until
Within(at, day) == day.from <= at /\ at < day.until

SlipSalesOnly == {"committed"}
Listed == {"committed", "refunded"}

ListStoreReceipts(s, day) ==
  {r \in Receipts : /\ receipts[r].shop = s
                    /\ Within(receipts[r].at, day)
                    /\ receipts[r].status \in Listed}

\* getShiftReceipts: the store of the token's claims, for whoever shows it.
ShiftList(t, now) == ListStoreReceipts(t.shop, DayBounds(now))

-----------------------------------------------------------------------------
(* Properties.                                                             *)

(* Every column and variable keeps its type.                               *)
TypeOK ==
  /\ shops \in [Shops -> ShopRow]
  /\ home \in [Staff -> Shops \cup {NoShop}]
  /\ receipts \in [Receipts -> Sale]
  /\ feed \in [Event -> Nat]
  /\ tokens \in SUBSET Token
  /\ clock \in Hours
  /\ pc \in [Handlers -> Labels]
  /\ req \in [Handlers -> Requests \cup {NoRequest}]
  /\ mem \in [Handlers -> Memory]

\* No employee works in, and no receipt was rung up at, a store that is gone.
Housed == /\ \A p \in Staff : home[p] # NoShop => Open(home[p])
          /\ \A r \in Receipts : Rung(r) => receipts[r].shop \in Shops /\ Open(receipts[r].shop)
          /\ \A r \in Receipts : ~Rung(r) => receipts[r] = NoSale
          /\ \A t \in tokens : home[t.staff] # NoShop

(* What a handler is at: a request, the answer it still has to give.       *)
Recording(h, r) == pc[h] = "record" /\ req[h].op = "sale" /\ req[h].receipt = r

Serving ==
  \A h \in Handlers :
    /\ pc[h] # "idle" => /\ req[h] \in Requests /\ mem[h].staff \in Staff
                         /\ mem[h].home \in Shops
    /\ pc[h] \in {"receipt", "stamp", "insert", "mark", "record"} =>
         req[h].op \in {"sale", "refund"} /\ mem[h].shop \in Shops
    /\ pc[h] \in {"stamp", "insert"} => req[h].op = "sale"
    /\ pc[h] = "mark" => req[h].op = "refund" /\ Rung(req[h].receipt)
    /\ pc[h] = "shop" => req[h].op \in {"sale", "hire", "move", "close"}
    /\ pc[h] = "staff" => req[h].op = "move"
    /\ pc[h] = "write" => req[h].op \in {"hire", "move"}
    /\ pc[h] \in {"row", "update"} => req[h].op = "patch"
    /\ pc[h] = "remove" => req[h].op = "close"

(* Whose receipt a handler goes on to record, nobody recorded yet, and no  *)
(* other handler records.                                                  *)
Telling ==
  \A h \in Handlers, r \in Receipts : Recording(h, r) =>
    /\ Rung(r) /\ receipts[r].shop = mem[h].shop /\ receipts[r].staff = mem[h].staff
    /\ \A e \in Event : e.kind = "receipt_committed" /\ e.receipt = r => feed[e] = 0
    /\ \A g \in Handlers : Recording(g, r) => g = h

(* The foreign keys hold although every handler checks a store in one      *)
(* statement and relies on it in a later one.                              *)
Inv == TypeOK /\ Housed /\ Serving /\ Telling

(* Each sale is in the activity feed once at most, however often the till  *)
(* repeats it and whichever answer was lost, and under the store and the   *)
(* cashier its receipt has: the feed and the receipts tell one story.      *)
RecordedOnce ==
  \A e \in Event : e.kind = "receipt_committed" /\ feed[e] > 0 =>
    /\ feed[e] = 1
    /\ Rung(e.receipt)
    /\ receipts[e.receipt].shop = e.shop /\ receipts[e.receipt].staff = e.staff

(* A till's shift list is the calendar day in Moscow at its token's store: *)
(* whenever it is asked, it has every receipt rung up there on today's date*)
(* and no other (docs/api.md:319).                                         *)
MoscowDate(t) == (t + 3) \div 24

ShiftIsADay ==
  \A t \in tokens, now \in Hours :
    ShiftList(t, now) = {r \in Receipts : Rung(r) /\ receipts[r].shop = t.shop
                                          /\ MoscowDate(receipts[r].at) = MoscowDate(now)}

(* What a till has seen in its shift list stays there until midnight, a    *)
(* refund by another till or the end of a store included.                  *)
StaysListed ==
  [][\A t \in tokens : ShiftList(t, clock) \subseteq ShiftList(t, clock)']_<<receipts, shops, home>>

(* A store that is deleted stays deleted, although patchStore writes back  *)
(* a row it may have read before.                                          *)
GoneForGood ==
  [][\A s \in Shops : shops[s].status = "deleted" => shops'[s].status = "deleted"]_vars

(* A sale that names no store is rung up at the store of the token         *)
(* (docs/api.md:253), where the till's own shift list shows it.            *)
SaleFromToken ==
  \A h \in Handlers : pc[h] = "record" /\ req[h].op = "sale" /\ req[h].shop = NoShop =>
    receipts[req[h].receipt].shop = mem[h].claim

(* A sale is in the feed once its handler is done with it.                 *)
Recorded ==
  \A r \in Receipts : Rung(r) =>
    \/ \E h \in Handlers : Recording(h, r)
    \/ \E e \in Event : e.kind = "receipt_committed" /\ e.receipt = r /\ feed[e] > 0

(* PATCH /admin/stores changes the fields it was sent and no others.       *)
PatchKeeps ==
  [][\A h \in Handlers : pc[h] = "update" /\ pc'[h] = "idle" =>
       \A f \in Fields : req[h].sent[f] = NoText =>
         shops'[req[h].shop].label[f] = shops[req[h].shop].label[f]]_vars
=============================================================================
