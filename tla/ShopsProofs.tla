----------------------------- MODULE ShopsProofs -----------------------------
(***************************************************************************)
(* Theorems about Shops, for any number of stores, employees, receipts and *)
(* handlers: the foreign keys hold, a sale is recorded once, a shift list  *)
(* is a day in Moscow and loses nothing, a deleted store is gone.          *)
(***************************************************************************)
EXTENDS Shops, TLAPS

(* What a request of each kind carries.                                    *)
LEMMA RequestParts ==
  ASSUME NEW q \in Requests
  PROVE  /\ q.op \in {"sale", "refund", "hire", "move", "patch", "close"}
         /\ q.op = "sale" => q.shop \in Shops \cup {NoShop} /\ q.receipt \in Receipts
         /\ q.op = "refund" => q.receipt \in Receipts
         /\ q.op = "hire" => q.shop \in Shops
         /\ q.op = "move" => q.who \in Staff /\ q.shop \in Shops \cup {NoShop}
         /\ q.op = "patch" => q.shop \in Shops /\ q.sent \in [Fields -> Texts \cup {NoText}]
         /\ q.op = "close" => q.shop \in Shops
<1>1. q \in SaleRequest \/ q \in RefundRequest \/ q \in HireRequest
      \/ q \in MoveRequest \/ q \in PatchRequest \/ q \in CloseRequest
  BY ShopsAssumption
<1>. QED
  BY <1>1 DEF SaleRequest, RefundRequest, HireRequest, MoveRequest, PatchRequest, CloseRequest

LEMMA Blank == ASSUME FirstHour \in Hours PROVE Nothing \in Memory /\ NoSale \in Sale
  BY ShopsAssumption DEF Nothing, Memory, NoSale, Sale, NoLabel

LEMMA Initially == Init => Inv /\ RecordedOnce
<1>. SUFFICES ASSUME Init PROVE Inv /\ RecordedOnce
  OBVIOUS
<1>. USE DEF Init
<1>1. TypeOK
  <2>1. clock \in Hours /\ FirstHour \in Hours
    BY HoursAssumption DEF Hours
  <2>2. shops \in [Shops -> ShopRow]
    BY ShopsAssumption DEF ShopRow, Statuses, NoLabel
  <2>. QED
    BY <2>1, <2>2, Blank, ShopsAssumption DEF TypeOK, Labels
<1>2. Housed
  BY ShopsAssumption DEF Housed, Open, Rung, NoSale
<1>3. Serving /\ Telling /\ RecordedOnce
  BY DEF Serving, Telling, Recording, RecordedOnce
<1>. QED
  BY <1>1, <1>2, <1>3 DEF Inv

-----------------------------------------------------------------------------
(* The steps of one handler.                                               *)

(* A handler's step writes its own registers and leaves the others'.       *)
OwnStep(h) ==
  /\ pc' = [pc EXCEPT ![h] = pc'[h]] /\ pc'[h] \in Labels
  /\ req' = [req EXCEPT ![h] = req'[h]] /\ req'[h] \in Requests \cup {NoRequest}
  /\ mem' = [mem EXCEPT ![h] = mem'[h]] /\ mem'[h] \in Memory
  /\ UNCHANGED <<tokens, clock>>

(* What Serving says of one handler.                                       *)
Served(h) ==
  /\ pc[h] # "idle" => /\ req[h] \in Requests /\ mem[h].staff \in Staff
                       /\ mem[h].home \in Shops
  /\ pc[h] \in {"receipt", "stamp", "insert", "mark", "record"} =>
       req[h].op \in {"sale", "refund"} /\ mem[h].shop \in Shops
  /\ pc[h] \in {"stamp", "insert"} => req[h].op = "sale"
  /\ pc[h] = "mark" => req[h].op = "refund" /\ Rung(req[h].receipt)
  /\ pc[h] = "shop" => req[h].op \in {"sale", "hire", "move", "close"}
  /\ pc[h] = "staff" => req[h].op = "move"
  /\ pc[h] = "write" => req[h].op \in {"hire", "move"}
  /\ pc[h] \in {"row", "update"} => req[h].op = "patch"
  /\ pc[h] = "remove" => req[h].op = "close"

\* Receipts stay where and whose they are.
SalesStand ==
  \A r \in Receipts : Rung(r) => /\ Rung(r)' /\ receipts'[r].shop = receipts[r].shop
                                 /\ receipts'[r].staff = receipts[r].staff

LEMMA EndOwn ==
  ASSUME Inv, NEW h \in Handlers, End(h)
  PROVE  OwnStep(h) /\ pc'[h] = "idle"
<1>1. FirstHour \in Hours
  BY HoursAssumption DEF Hours
<1>. QED
  BY <1>1, Blank DEF Inv, TypeOK, End, Goto, Keep, OwnStep, Labels

LEMMA GotoOwn ==
  ASSUME Inv, NEW h \in Handlers, NEW label \in Labels, Goto(h, label), Stay
  PROVE  OwnStep(h) /\ pc'[h] = label /\ req'[h] = req[h] /\ mem'[h] = mem[h]
BY DEF Inv, TypeOK, Goto, Stay, OwnStep

LEMMA KeepOwn ==
  ASSUME Inv, NEW h \in Handlers, NEW label \in Labels, NEW m \in Memory,
         Goto(h, label), Keep(h, m), UNCHANGED <<tokens, clock, req>>
  PROVE  OwnStep(h) /\ pc'[h] = label /\ req'[h] = req[h] /\ mem'[h] = m
BY DEF Inv, TypeOK, Goto, Keep, OwnStep

LEMMA ServingKept ==
  ASSUME Inv, NEW h \in Handlers, OwnStep(h), SalesStand, Served(h)'
  PROVE  Serving'
<1>1. ASSUME NEW g \in Handlers, g # h PROVE Served(g)'
  <2>1. pc'[g] = pc[g] /\ req'[g] = req[g] /\ mem'[g] = mem[g]
    BY <1>1 DEF OwnStep, Inv, TypeOK
  <2>2. Served(g)
    BY DEF Inv, Serving, Served
  <2>3. pc[g] = "mark" => receipts'[req[g].receipt].status # "absent"
    BY <2>2, RequestParts DEF Served, SalesStand, Rung
  <2>. QED
    BY <2>1, <2>2, <2>3 DEF Served, Rung
<1>. QED
  BY <1>1 DEF Serving, Served

LEMMA TellingKept ==
  ASSUME Inv, NEW h \in Handlers, OwnStep(h), SalesStand,
         pc'[h] # "record" \/ req'[h].op # "sale",
         \A e \in Event : e.kind = "receipt_committed" =>
           feed'[e] = feed[e] \/ (Recording(h, e.receipt) /\ pc'[h] = "idle")
  PROVE  Telling'
<1>. SUFFICES ASSUME NEW g \in Handlers, NEW r \in Receipts, Recording(g, r)'
             PROVE  /\ Rung(r)' /\ receipts'[r].shop = mem'[g].shop
                    /\ receipts'[r].staff = mem'[g].staff
                    /\ \A e \in Event : e.kind = "receipt_committed" /\ e.receipt = r => feed'[e] = 0
                    /\ \A k \in Handlers : Recording(k, r)' => k = g
  BY DEF Telling
<1>1. \A k \in Handlers : Recording(k, r)' => k # h /\ Recording(k, r) /\ mem'[k] = mem[k]
  BY DEF OwnStep, Inv, TypeOK, Recording
<1>2. Recording(g, r) /\ g # h /\ mem'[g] = mem[g] /\ ~Recording(h, r)
  BY <1>1 DEF Inv, Telling
<1>. QED
  BY <1>1, <1>2 DEF Inv, Telling, SalesStand

(* The rows of sales in the feed stay right while no sale is recorded.     *)
LEMMA OnceKept ==
  ASSUME Inv, RecordedOnce, SalesStand, UNCHANGED feed
  PROVE  RecordedOnce'
BY DEF RecordedOnce, SalesStand, Event, Rung

LEMMA TypesKept ==
  ASSUME Inv, NEW h \in Handlers, OwnStep(h), shops' \in [Shops -> ShopRow],
         home' \in [Staff -> Shops \cup {NoShop}], receipts' \in [Receipts -> Sale],
         feed' \in [Event -> Nat]
  PROVE  TypeOK'
BY DEF Inv, TypeOK, OwnStep

(* A handler that leaves the tables alone.                                 *)
LEMMA QuietKeeps ==
  ASSUME Inv, RecordedOnce, NEW h \in Handlers, OwnStep(h), UNCHANGED tables, Served(h)',
         pc'[h] # "record"
  PROVE  Inv' /\ RecordedOnce'
<1>1. SalesStand
  BY DEF SalesStand, tables, Rung
<1>2. Serving' /\ Telling' /\ RecordedOnce'
  BY <1>1, ServingKept, TellingKept, OnceKept DEF tables
<1>3. TypeOK'
  BY TypesKept DEF tables, Inv, TypeOK
<1>4. Housed'
  BY DEF Inv, Housed, tables, OwnStep, Open, Rung
<1>. QED
  BY <1>2, <1>3, <1>4 DEF Inv

-----------------------------------------------------------------------------
(* The steps that read.                                                    *)

LEMMA DropKeeps ==
  ASSUME Inv, RecordedOnce, NEW h \in Handlers, End(h), UNCHANGED tables
  PROVE  Inv' /\ RecordedOnce'
<1>1. OwnStep(h) /\ pc'[h] = "idle"
  BY EndOwn
<1>. QED
  BY <1>1, QuietKeeps DEF Served

LEMMA AuthenticateKeeps ==
  ASSUME Inv, RecordedOnce, NEW h \in Handlers, Authenticate(h)
  PROVE  Inv' /\ RecordedOnce'
<1>1. PICK t \in tokens, q \in Requests :
        /\ req' = [req EXCEPT ![h] = q]
        /\ Keep(h, [Nothing EXCEPT !.staff = t.staff, !.claim = t.shop,
                                   !.home = home[t.staff], !.shop = ShopAsked(t.staff, q)])
        /\ Goto(h, FirstStep[q.op])
        /\ UNCHANGED <<tables, tokens, clock>>
  BY DEF Authenticate
<1>2. t.staff \in Staff /\ t.shop \in Shops /\ home[t.staff] \in Shops
  BY DEF Inv, TypeOK, Housed, Token
<1>3. ShopAsked(t.staff, q) \in Shops \cup {NoShop}
      /\ (q.op = "refund" => ShopAsked(t.staff, q) = home[t.staff])
  BY <1>2, RequestParts DEF ShopAsked, SaleShop
<1>. DEFINE m == [Nothing EXCEPT !.staff = t.staff, !.claim = t.shop,
                                 !.home = home[t.staff], !.shop = ShopAsked(t.staff, q)]
<1>4. m \in Memory /\ m.staff \in Staff /\ m.home \in Shops
      /\ (q.op = "refund" => m.shop \in Shops)
  <2>1. FirstHour \in Hours
    BY HoursAssumption DEF Hours
  <2>. QED
    BY <1>2, <1>3, <2>1, ShopsAssumption DEF Nothing, Memory, NoLabel
<1>5. FirstStep[q.op] \in {"shop", "receipt", "staff", "row"}
      /\ (FirstStep[q.op] = "receipt" => q.op = "refund")
      /\ (FirstStep[q.op] = "staff" => q.op = "move")
      /\ (FirstStep[q.op] = "row" => q.op = "patch")
      /\ (FirstStep[q.op] = "shop" => q.op \in {"sale", "hire", "move", "close"})
  BY RequestParts DEF FirstStep
<1>6. OwnStep(h) /\ pc'[h] = FirstStep[q.op] /\ req'[h] = q /\ mem'[h] = m
  BY <1>1, <1>4, <1>5 DEF OwnStep, Keep, Goto, Inv, TypeOK, Labels
<1>7. Served(h)'
  BY <1>4, <1>5, <1>6 DEF Served
<1>. QED
  BY <1>1, <1>5, <1>6, <1>7, QuietKeeps

LEMMA GetStoreKeeps ==
  ASSUME Inv, RecordedOnce, NEW h \in Handlers, GetStore(h)
  PROVE  Inv' /\ RecordedOnce'
<1>1. CASE KeyHolds(mem[h].shop) /\ Goto(h, AfterShop[req[h].op]) /\ Stay
  <2>1. Served(h) /\ pc[h] = "shop" /\ UNCHANGED tables
    BY DEF GetStore, Inv, Serving, Served
  <2>2. mem[h].shop \in Shops /\ req[h].op \in {"sale", "hire", "move", "close"}
    BY <1>1, <2>1 DEF Served, KeyHolds
  <2>3. AfterShop[req[h].op] \in {"receipt", "write", "remove"}
        /\ (AfterShop[req[h].op] = "receipt" => req[h].op = "sale")
        /\ (AfterShop[req[h].op] = "write" => req[h].op \in {"hire", "move"})
        /\ (AfterShop[req[h].op] = "remove" => req[h].op = "close")
    BY <2>2 DEF AfterShop
  <2>4. OwnStep(h) /\ pc'[h] = AfterShop[req[h].op] /\ req'[h] = req[h] /\ mem'[h] = mem[h]
    BY <1>1, <2>3, GotoOwn DEF Labels
  <2>5. Served(h)'
    BY <2>1, <2>2, <2>3, <2>4 DEF Served
  <2>. QED
    BY <2>1, <2>3, <2>4, <2>5, QuietKeeps
<1>2. CASE End(h)
  BY <1>2, DropKeeps DEF GetStore
<1>. QED
  BY <1>1, <1>2 DEF GetStore

LEMMA GetReceiptKeeps ==
  ASSUME Inv, RecordedOnce, NEW h \in Handlers, GetReceipt(h)
  PROVE  Inv' /\ RecordedOnce'
<1>. DEFINE label == IF req[h].op = "sale" THEN "stamp" ELSE "mark"
<1>1. CASE GoesOn(h) /\ Goto(h, label) /\ Stay
  <2>1. Served(h) /\ pc[h] = "receipt" /\ UNCHANGED tables
    BY DEF GetReceipt, Inv, Serving, Served
  <2>2. label = "stamp" => req[h].op = "sale"
    OBVIOUS
  <2>3. label = "mark" => req[h].op = "refund" /\ Rung(req[h].receipt)
    BY <1>1 DEF GoesOn, Rung
  <2>4. label \in {"stamp", "mark"} /\ label \in Labels
    BY DEF Labels
  <2>5. OwnStep(h) /\ pc'[h] = label /\ req'[h] = req[h] /\ mem'[h] = mem[h]
    BY <1>1, <2>4, GotoOwn
  <2>6. Served(h)'
    BY <2>1, <2>2, <2>3, <2>4, <2>5 DEF Served, Rung, tables
  <2>. QED
    BY <2>1, <2>4, <2>5, <2>6, QuietKeeps
<1>2. CASE End(h)
  BY <1>2, DropKeeps DEF GetReceipt
<1>. QED
  BY <1>1, <1>2 DEF GetReceipt

LEMMA StampKeeps ==
  ASSUME Inv, RecordedOnce, NEW h \in Handlers, Stamp(h)
  PROVE  Inv' /\ RecordedOnce'
<1>. DEFINE m == [mem[h] EXCEPT !.at = clock]
<1>1. m \in Memory /\ m.staff = mem[h].staff /\ m.home = mem[h].home /\ m.shop = mem[h].shop
  BY DEF Inv, TypeOK, Memory
<1>2. OwnStep(h) /\ pc'[h] = "insert" /\ req'[h] = req[h] /\ mem'[h] = m
  BY <1>1, KeepOwn DEF Stamp, Labels
<1>3. Served(h)'
  BY <1>1, <1>2 DEF Stamp, Inv, Serving, Served
<1>. QED
  BY <1>2, <1>3, QuietKeeps DEF Stamp

LEMMA ReadStaffKeeps ==
  ASSUME Inv, RecordedOnce, NEW h \in Handlers, ReadStaff(h)
  PROVE  Inv' /\ RecordedOnce'
<1>0. Served(h) /\ pc[h] = "staff" /\ UNCHANGED tables /\ req[h].op = "move"
      /\ req[h].who \in Staff
  BY RequestParts DEF ReadStaff, Inv, Serving, Served
<1>1. CASE Goto(h, "shop") /\ Stay
  <2>1. OwnStep(h) /\ pc'[h] = "shop" /\ req'[h] = req[h] /\ mem'[h] = mem[h]
    BY <1>1, GotoOwn DEF Labels
  <2>. QED
    BY <1>0, <2>1, QuietKeeps DEF Served
<1>. DEFINE m == [mem[h] EXCEPT !.shop = home[req[h].who]]
<1>2. CASE Keep(h, m) /\ Goto(h, "write") /\ UNCHANGED <<tokens, clock, req>>
  <2>1. m \in Memory /\ m.staff = mem[h].staff /\ m.home = mem[h].home
    BY <1>0 DEF Inv, TypeOK, Memory
  <2>2. OwnStep(h) /\ pc'[h] = "write" /\ req'[h] = req[h] /\ mem'[h] = m
    BY <1>2, <2>1, KeepOwn DEF Labels
  <2>. QED
    BY <1>0, <2>1, <2>2, QuietKeeps DEF Served
<1>3. CASE End(h)
  BY <1>0, <1>3, DropKeeps
<1>. QED
  BY <1>1, <1>2, <1>3 DEF ReadStaff

LEMMA ReadStoreKeeps ==
  ASSUME Inv, RecordedOnce, NEW h \in Handlers, ReadStore(h)
  PROVE  Inv' /\ RecordedOnce'
<1>0. Served(h) /\ pc[h] = "row" /\ UNCHANGED tables /\ req[h].op = "patch"
      /\ req[h].shop \in Shops /\ req[h].sent \in [Fields -> Texts \cup {NoText}]
  BY RequestParts DEF ReadStore, Inv, Serving, Served
<1>. DEFINE m == [mem[h] EXCEPT !.label = Edited(shops[req[h].shop].label, req[h].sent)]
<1>1. CASE Keep(h, m) /\ Goto(h, "update") /\ UNCHANGED <<tokens, clock, req>>
  <2>1. Edited(shops[req[h].shop].label, req[h].sent) \in [Fields -> Texts]
    BY <1>0 DEF Inv, TypeOK, ShopRow, Edited
  <2>2. m \in Memory /\ m.staff = mem[h].staff /\ m.home = mem[h].home
    BY <2>1 DEF Inv, TypeOK, Memory
  <2>3. OwnStep(h) /\ pc'[h] = "update" /\ req'[h] = req[h] /\ mem'[h] = m
    BY <1>1, <2>2, KeepOwn DEF Labels
  <2>. QED
    BY <1>0, <2>2, <2>3, QuietKeeps DEF Served
<1>2. CASE End(h)
  BY <1>0, <1>2, DropKeeps
<1>. QED
  BY <1>1, <1>2 DEF ReadStore

-----------------------------------------------------------------------------
(* The steps that write receipts and the feed.                             *)

LEMMA InsertReceiptKeeps ==
  ASSUME Inv, RecordedOnce, NEW h \in Handlers, InsertReceipt(h)
  PROVE  Inv' /\ RecordedOnce'
<1>. DEFINE r == req[h].receipt
            row == [shop |-> mem[h].shop, staff |-> mem[h].staff, at |-> mem[h].at,
                    status |-> "committed"]
<1>0. /\ pc[h] = "insert" /\ req[h].op = "sale" /\ r \in Receipts
      /\ mem[h].shop \in Shops /\ mem[h].staff \in Staff /\ mem[h].home \in Shops
      /\ req[h] \in Requests /\ UNCHANGED <<shops, home, feed>>
  BY RequestParts DEF InsertReceipt, Inv, Serving
<1>1. CASE KeyFree(r) /\ KeyHolds(mem[h].shop) /\ receipts' = [receipts EXCEPT ![r] = row]
           /\ Goto(h, "record") /\ Stay
  <2>1. row \in Sale
    BY <1>0 DEF Inv, TypeOK, Memory, Sale
  <2>2. OwnStep(h) /\ pc'[h] = "record" /\ req'[h] = req[h] /\ mem'[h] = mem[h]
    BY <1>1, GotoOwn DEF Labels
  <2>3. /\ receipts' \in [Receipts -> Sale] /\ receipts'[r] = row
        /\ \A x \in Receipts \ {r} : receipts'[x] = receipts[x]
    BY <1>0, <1>1, <2>1 DEF Inv, TypeOK
  <2>4. SalesStand /\ ~Rung(r) /\ receipts'[r].status # "absent"
    BY <1>1, <2>3 DEF SalesStand, Rung, KeyFree
  <2>5. TypeOK'
    BY <1>0, <2>2, <2>3, TypesKept DEF Inv, TypeOK
  <2>6. Housed'
    <3>1. \A x \in Receipts : Rung(x)' => receipts'[x].shop \in Shops
                                         /\ shops'[receipts'[x].shop].status = "open"
      BY <1>0, <1>1, <2>3 DEF Inv, Housed, Rung, Open, KeyHolds
    <3>2. \A x \in Receipts : ~Rung(x)' => receipts'[x] = NoSale
      BY <2>3 DEF Inv, Housed, Rung
    <3>. QED
      BY <1>0, <2>2, <3>1, <3>2 DEF Inv, Housed, OwnStep, Open, Rung
  <2>7. Serving'
    <3>1. Served(h)'
      BY <1>0, <2>2 DEF Served
    <3>. QED
      BY <2>2, <2>4, <3>1, ServingKept
  <2>8. Telling'
    <3>. SUFFICES ASSUME NEW g \in Handlers, NEW x \in Receipts, Recording(g, x)'
                  PROVE  /\ Rung(x)' /\ receipts'[x].shop = mem'[g].shop
                         /\ receipts'[x].staff = mem'[g].staff
                         /\ \A e \in Event : e.kind = "receipt_committed" /\ e.receipt = x
                                               => feed'[e] = 0
                         /\ \A k \in Handlers : Recording(k, x)' => k = g
      BY DEF Telling
    <3>1. \A k \in Handlers \ {h}, y \in Receipts :
            Recording(k, y)' => /\ Recording(k, y) /\ y # r /\ mem'[k] = mem[k]
      BY <2>2, <2>4 DEF OwnStep, Inv, TypeOK, Recording, Telling
    <3>2. \A y \in Receipts : Recording(h, y)' => y = r
      BY <2>2 DEF Recording
    <3>3. CASE g = h
      <4>1. x = r
        BY <3>2, <3>3
      <4>2. \A e \in Event : e.kind = "receipt_committed" /\ e.receipt = x => feed'[e] = 0
        BY <1>0, <2>4, <4>1 DEF RecordedOnce, Inv, TypeOK
      <4>. QED
        BY <2>2, <2>3, <2>4, <3>1, <3>3, <4>1, <4>2 DEF Rung
    <3>4. CASE g # h
      <4>1. Recording(g, x) /\ x # r /\ mem'[g] = mem[g]
        BY <3>1, <3>4
      <4>2. \A k \in Handlers : Recording(k, x)' => k = g
        BY <3>1, <3>2, <4>1 DEF Inv, Telling
      <4>. QED
        BY <1>0, <2>3, <4>1, <4>2 DEF Inv, Telling, Rung
    <3>. QED
      BY <3>3, <3>4
  <2>9. RecordedOnce'
    BY <1>0, <2>4, OnceKept
  <2>. QED
    BY <2>5, <2>6, <2>7, <2>8, <2>9 DEF Inv
<1>2. CASE End(h) /\ UNCHANGED receipts
  BY <1>0, <1>2, DropKeeps DEF tables
<1>. QED
  BY <1>1, <1>2 DEF InsertReceipt

LEMMA MarkRefundedKeeps ==
  ASSUME Inv, RecordedOnce, NEW h \in Handlers, MarkRefunded(h)
  PROVE  Inv' /\ RecordedOnce'
<1>. DEFINE r == req[h].receipt
<1>0. /\ pc[h] = "mark" /\ req[h].op = "refund" /\ r \in Receipts /\ Rung(r)
      /\ UNCHANGED <<shops, home, feed>> /\ Served(h)
  BY RequestParts DEF MarkRefunded, Inv, Serving, Served
<1>1. OwnStep(h) /\ pc'[h] = "record" /\ req'[h] = req[h] /\ mem'[h] = mem[h]
  BY GotoOwn DEF MarkRefunded, Labels
<1>2. /\ receipts' \in [Receipts -> Sale] /\ receipts'[r] = [receipts[r] EXCEPT !.status = "refunded"]
      /\ \A x \in Receipts \ {r} : receipts'[x] = receipts[x]
  BY <1>0 DEF MarkRefunded, Inv, TypeOK, Sale
<1>3. SalesStand /\ \A x \in Receipts : Rung(x)' => Rung(x)
  BY <1>0, <1>2 DEF SalesStand, Rung, Inv, TypeOK, Sale
<1>4. TypeOK'
  BY <1>0, <1>1, <1>2, TypesKept DEF Inv, TypeOK
<1>5. Housed'
  <2>1. \A x \in Receipts : Rung(x)' => receipts'[x].shop \in Shops
                                         /\ shops'[receipts'[x].shop].status = "open"
    BY <1>0, <1>3 DEF Inv, Housed, Open, SalesStand
  <2>2. \A x \in Receipts : ~Rung(x)' => receipts'[x] = NoSale
    BY <1>0, <1>2, <1>3 DEF Inv, Housed, SalesStand
  <2>. QED
    BY <1>0, <1>1, <2>1, <2>2 DEF Inv, Housed, OwnStep, Open, Rung
<1>6. Served(h)'
  BY <1>0, <1>1 DEF Served
<1>7. Telling'
  BY <1>0, <1>1, <1>3, TellingKept
<1>. QED
  BY <1>0, <1>1, <1>3, <1>4, <1>5, <1>6, <1>7, ServingKept, OnceKept DEF Inv

LEMMA RecordActivityKeeps ==
  ASSUME Inv, RecordedOnce, NEW h \in Handlers, RecordActivity(h)
  PROVE  Inv' /\ RecordedOnce'
<1>. DEFINE ev == EventOf(h)
<1>0. /\ pc[h] = "record" /\ req[h].op \in {"sale", "refund"} /\ req[h].receipt \in Receipts
      /\ mem[h].shop \in Shops /\ mem[h].staff \in Staff
      /\ UNCHANGED <<shops, home, receipts>>
  BY RequestParts DEF RecordActivity, Inv, Serving
<1>1. /\ ev \in Event /\ ev.receipt = req[h].receipt /\ ev.shop = mem[h].shop
      /\ ev.staff = mem[h].staff
      /\ ev.kind = "receipt_committed" <=> req[h].op = "sale"
  BY <1>0 DEF EventOf, EventShop, Event
<1>2. /\ feed' \in [Event -> Nat] /\ feed'[ev] = feed[ev] + 1
      /\ \A e \in Event \ {ev} : feed'[e] = feed[e]
  BY <1>1 DEF RecordActivity, Inv, TypeOK
<1>3. OwnStep(h) /\ pc'[h] = "idle" /\ SalesStand
  BY <1>0, EndOwn DEF RecordActivity, SalesStand, Rung
<1>4. TypeOK'
  BY <1>0, <1>2, <1>3, TypesKept DEF Inv, TypeOK
<1>5. Housed'
  BY <1>0, <1>3 DEF Inv, Housed, OwnStep, Open, Rung
<1>6. Serving'
  BY <1>3, ServingKept DEF Served
<1>7. Telling'
  <2>1. \A e \in Event : e.kind = "receipt_committed" =>
          feed'[e] = feed[e] \/ Recording(h, e.receipt)
    BY <1>0, <1>1, <1>2 DEF Recording
  <2>. QED
    BY <1>3, <2>1, TellingKept
<1>8. RecordedOnce'
  <2>. SUFFICES ASSUME NEW e \in Event, e.kind = "receipt_committed", feed'[e] > 0
                PROVE  /\ feed'[e] = 1 /\ Rung(e.receipt)
                       /\ receipts[e.receipt].shop = e.shop
                       /\ receipts[e.receipt].staff = e.staff
    BY <1>0 DEF RecordedOnce, Rung
  <2>1. CASE e # ev
    BY <1>2, <2>1 DEF RecordedOnce
  <2>2. CASE e = ev
    <3>1. Recording(h, ev.receipt)
      BY <1>0, <1>1, <2>2 DEF Recording
    <3>. QED
      BY <1>0, <1>1, <1>2, <2>2, <3>1 DEF Inv, Telling
  <2>. QED
    BY <2>1, <2>2
<1>. QED
  BY <1>4, <1>5, <1>6, <1>7, <1>8 DEF Inv

-----------------------------------------------------------------------------
(* The steps that write staff and stores.                                  *)

(* With the receipts and the feed alone, an answer keeps everything but    *)
(* the types and the foreign keys.                                         *)
LEMMA AnswerKeeps ==
  ASSUME Inv, RecordedOnce, NEW h \in Handlers, End(h), UNCHANGED <<receipts, feed>>,
         shops' \in [Shops -> ShopRow], home' \in [Staff -> Shops \cup {NoShop}], Housed'
  PROVE  Inv' /\ RecordedOnce'
<1>1. OwnStep(h) /\ pc'[h] = "idle" /\ SalesStand
  BY EndOwn DEF SalesStand, Rung
<1>2. TypeOK'
  BY <1>1, TypesKept DEF Inv, TypeOK
<1>3. Serving' /\ Telling' /\ RecordedOnce'
  BY <1>1, ServingKept, TellingKept, OnceKept DEF Served
<1>. QED
  BY <1>2, <1>3 DEF Inv

LEMMA WriteStaffKeeps ==
  ASSUME Inv, RecordedOnce, NEW h \in Handlers, WriteStaff(h)
  PROVE  Inv' /\ RecordedOnce'
<1>0. req[h].op = "move" => req[h].who \in Staff
  BY RequestParts DEF WriteStaff, Inv, Serving
<1>1. CASE /\ KeyHolds(mem[h].shop)
           /\ \E p \in Written(h) : home' = [home EXCEPT ![p] = mem[h].shop]
  <2>1. PICK p \in Written(h) : home' = [home EXCEPT ![p] = mem[h].shop]
    BY <1>1
  <2>2. p \in Staff
    BY <1>0 DEF Written
  <2>3. home' \in [Staff -> Shops \cup {NoShop}] /\ home'[p] = mem[h].shop
        /\ \A x \in Staff \ {p} : home'[x] = home[x]
    BY <1>1, <2>1, <2>2 DEF Inv, TypeOK, KeyHolds
  <2>4. UNCHANGED <<tokens, shops, receipts>> /\ \A t \in tokens : t.staff \in Staff
    BY DEF WriteStaff, End, Inv, TypeOK, Token
  <2>5. Housed'
    <3>1. \A x \in Staff : home'[x] # NoShop => shops[home'[x]].status = "open"
      BY <1>1, <2>3 DEF Inv, Housed, KeyHolds, Open
    <3>2. \A t \in tokens : home'[t.staff] # NoShop
      BY <1>1, <2>3, <2>4, ShopsAssumption DEF Inv, Housed, KeyHolds
    <3>. QED
      BY <2>4, <3>1, <3>2 DEF Inv, Housed, Open, Rung
  <2>. QED
    BY <2>3, <2>5, AnswerKeeps DEF WriteStaff, Inv, TypeOK
<1>2. CASE UNCHANGED home
  BY <1>2, DropKeeps DEF WriteStaff, tables
<1>. QED
  BY <1>1, <1>2 DEF WriteStaff

LEMMA UpdateStoreKeeps ==
  ASSUME Inv, RecordedOnce, NEW h \in Handlers, UpdateStore(h)
  PROVE  Inv' /\ RecordedOnce'
<1>. DEFINE s == req[h].shop
<1>1. s \in Shops /\ mem[h].label \in [Fields -> Texts] /\ shops[s] \in ShopRow
  BY RequestParts DEF UpdateStore, Inv, Serving, TypeOK, Memory
<1>2. shops' = [shops EXCEPT ![s] = Relabelled(shops[s], mem[h].label)]
      /\ UNCHANGED <<home, receipts, feed, tokens>>
  BY DEF UpdateStore, End
<1>3. Relabelled(shops[s], mem[h].label) \in ShopRow
      /\ Relabelled(shops[s], mem[h].label).status = shops[s].status
  BY <1>1 DEF Relabelled, ShopRow
<1>4. shops' \in [Shops -> ShopRow] /\ \A x \in Shops : shops'[x].status = shops[x].status
  BY <1>1, <1>2, <1>3 DEF Inv, TypeOK
<1>5. Housed'
  <2>1. \A p \in Staff : home[p] # NoShop => home[p] \in Shops
    BY DEF Inv, TypeOK
  <2>2. \A r \in Receipts : Rung(r) => receipts[r].shop \in Shops
    BY DEF Inv, Housed
  <2>. QED
    BY <1>2, <1>4, <2>1, <2>2 DEF Inv, Housed, Open, Rung
<1>. QED
  BY <1>2, <1>4, <1>5, AnswerKeeps DEF UpdateStore, Inv, TypeOK

LEMMA DeleteStoreKeeps ==
  ASSUME Inv, RecordedOnce, NEW h \in Handlers, DeleteStore(h)
  PROVE  Inv' /\ RecordedOnce'
<1>. DEFINE s == req[h].shop
<1>0. s \in Shops /\ UNCHANGED <<home, receipts, feed, tokens>>
  BY RequestParts DEF DeleteStore, End, Inv, Serving
<1>1. CASE ~Referenced(s) /\ shops' = [shops EXCEPT ![s].status = "deleted"]
  <2>1. shops' \in [Shops -> ShopRow] /\ \A x \in Shops \ {s} : shops'[x] = shops[x]
    BY <1>0, <1>1 DEF Inv, TypeOK, ShopRow, Statuses
  <2>2. /\ \A p \in Staff : home[p] # NoShop => home[p] \in Shops \ {s}
        /\ \A r \in Receipts : Rung(r) => receipts[r].shop \in Shops \ {s}
    BY <1>1 DEF Referenced, Inv, TypeOK, Housed
  <2>3. Housed'
    BY <1>0, <2>1, <2>2 DEF Inv, Housed, Open, Rung
  <2>. QED
    BY <1>0, <2>1, <2>3, AnswerKeeps DEF DeleteStore, Inv, TypeOK
<1>2. CASE UNCHANGED shops
  BY <1>0, <1>2, DropKeeps DEF DeleteStore, tables
<1>. QED
  BY <1>1, <1>2 DEF DeleteStore

LEMMA AloneKeeps ==
  ASSUME Inv, RecordedOnce,
         Tick \/ (\E p \in Staff : Login(p)) \/ \E s \in Shops : CreateStore(s)
  PROVE  Inv' /\ RecordedOnce'
<1>1. UNCHANGED <<home, receipts, feed, pc, req, mem>>
  BY DEF Tick, Login, CreateStore, tables
<1>2. RecordedOnce' /\ Serving' /\ Telling'
  BY <1>1 DEF RecordedOnce, Rung, Inv, Serving, Telling, Recording
<1>3. CASE Tick
  <2>1. clock' \in Hours /\ UNCHANGED <<shops, tokens>>
    BY <1>3, HoursAssumption DEF Tick, tables, Inv, TypeOK, Hours
  <2>. QED
    BY <1>1, <1>2, <2>1 DEF Inv, TypeOK, Housed, Open, Rung
<1>4. ASSUME NEW p \in Staff, Login(p) PROVE TypeOK' /\ Housed'
  <2>1. home[p] \in Shops /\ UNCHANGED <<shops, clock>>
    BY <1>4 DEF Login, tables, Inv, TypeOK
  <2>2. tokens' \in SUBSET Token
    BY <1>4, <2>1 DEF Login, Inv, TypeOK, Token
  <2>3. \A t \in tokens' : home[t.staff] # NoShop
    BY <1>4, <2>1, ShopsAssumption DEF Login, Inv, Housed
  <2>. QED
    BY <1>1, <2>1, <2>2, <2>3 DEF Inv, TypeOK, Housed, Open, Rung
<1>5. ASSUME NEW s \in Shops, CreateStore(s) PROVE TypeOK' /\ Housed'
  <2>1. /\ shops' \in [Shops -> ShopRow] /\ shops[s].status = "absent"
        /\ \A x \in Shops \ {s} : shops'[x] = shops[x]
        /\ UNCHANGED <<tokens, clock>>
    BY <1>5 DEF CreateStore, Inv, TypeOK, ShopRow, Statuses
  <2>2. /\ \A p \in Staff : home[p] # NoShop => home[p] \in Shops \ {s}
        /\ \A r \in Receipts : Rung(r) => receipts[r].shop \in Shops \ {s}
    BY <2>1 DEF Inv, TypeOK, Housed, Open
  <2>. QED
    BY <1>1, <2>1, <2>2 DEF Inv, TypeOK, Housed, Open, Rung
<1>. QED
  BY <1>2, <1>3, <1>4, <1>5 DEF Inv

LEMMA StepKeeps == Inv /\ RecordedOnce /\ [Next]_vars => Inv' /\ RecordedOnce'
<1>. SUFFICES ASSUME Inv, RecordedOnce, [Next]_vars PROVE Inv' /\ RecordedOnce'
  OBVIOUS
<1>1. ASSUME NEW h \in Handlers, Step(h) PROVE Inv' /\ RecordedOnce'
  BY <1>1, AuthenticateKeeps, GetStoreKeeps, GetReceiptKeeps, StampKeeps, InsertReceiptKeeps,
     MarkRefundedKeeps, RecordActivityKeeps, ReadStaffKeeps, WriteStaffKeeps, ReadStoreKeeps,
     UpdateStoreKeeps, DeleteStoreKeeps DEF Step
<1>2. ASSUME NEW h \in Handlers, Drop(h) PROVE Inv' /\ RecordedOnce'
  BY <1>2, DropKeeps DEF Drop
<1>3. CASE UNCHANGED vars
  BY <1>3 DEF vars, tables, Inv, TypeOK, Housed, Serving, Telling, RecordedOnce, Open, Rung, Recording
<1>. QED
  BY <1>1, <1>2, <1>3, AloneKeeps DEF Next

-----------------------------------------------------------------------------
(* Inv holds always: the foreign keys of staff and receipts hold although  *)
(* stores close between a handler's check and its insert.                  *)
THEOREM Invariance == Spec => []Inv
<1>1. Spec => [](Inv /\ RecordedOnce)
  BY Initially, StepKeeps, PTL DEF Spec
<1>. QED
  BY <1>1, PTL

(* A sale is in the feed once at most, under its own store and cashier.    *)
THEOREM SaleRecordedOnce == Spec => []RecordedOnce
BY Initially, StepKeeps, PTL DEF Spec

(* Two hours are between the same bounds exactly when Moscow has the same  *)
(* date at both.                                                           *)
LEMMA BoundsAreADay ==
  ASSUME NEW at \in Hours, NEW now \in Hours
  PROVE  Within(at, DayBounds(now)) <=> MoscowDate(at) = MoscowDate(now)
<1>. DEFINE d == (now + 3) \div 24
            e == (at + 3) \div 24
<1>1. at \in Nat /\ now \in Nat
  BY HoursAssumption DEF Hours
<1>2. d \in Int /\ 24 * d <= now + 3 /\ now + 3 < 24 * d + 24
  BY <1>1
<1>3. e \in Int /\ 24 * e <= at + 3 /\ at + 3 < 24 * e + 24
  BY <1>1
<1>4. Within(at, DayBounds(now)) <=> d * 24 - 3 <= at /\ at < d * 24 - 3 + 24
  BY DEF Within, DayBounds
<1>5. (d * 24 - 3 <= at /\ at < d * 24 - 3 + 24) <=> e = d
  <2>. HIDE DEF d, e
  <2>. QED
    BY <1>1, <1>2, <1>3
<1>. QED
  BY <1>4, <1>5 DEF MoscowDate

(* A shift list is the day in Moscow, whenever it is asked for.            *)
THEOREM ListIsADay == Spec => []ShiftIsADay
<1>1. Inv => ShiftIsADay
  <2>. SUFFICES ASSUME Inv, NEW t \in tokens, NEW now \in Hours, NEW r \in Receipts
                PROVE  /\ receipts[r].shop = t.shop
                       => (/\ Within(receipts[r].at, DayBounds(now))
                           /\ receipts[r].status \in Listed
                           <=> /\ Rung(r) /\ MoscowDate(receipts[r].at) = MoscowDate(now))
    BY DEF ShiftIsADay, ShiftList, ListStoreReceipts
  <2>1. receipts[r].at \in Hours /\ (receipts[r].status \in Listed <=> Rung(r))
    BY DEF Inv, TypeOK, Sale, Listed, Rung
  <2>. QED
    BY <2>1, BoundsAreADay
<1>. QED
  BY <1>1, Invariance, PTL

(* What a till has seen in its shift list stays there until midnight.      *)
LEMMA SalesStay ==
  ASSUME Inv, [Next]_vars
  PROVE  \/ UNCHANGED <<receipts, shops, home>>
         \/ /\ UNCHANGED clock
            /\ \A r \in Receipts : receipts[r].status \in Listed =>
                 /\ receipts'[r].status \in Listed
                 /\ receipts'[r].shop = receipts[r].shop /\ receipts'[r].at = receipts[r].at
<1>1. CASE UNCHANGED <<receipts, clock>>
  BY <1>1
<1>2. ASSUME NEW h \in Handlers, InsertReceipt(h) PROVE ~(UNCHANGED receipts) =>
        /\ UNCHANGED clock
        /\ \A r \in Receipts : receipts[r].status \in Listed => receipts'[r] = receipts[r]
  BY <1>2 DEF InsertReceipt, KeyFree, Rung, Listed, Stay, Inv, TypeOK
<1>3. ASSUME NEW h \in Handlers, MarkRefunded(h) PROVE
        /\ UNCHANGED clock
        /\ \A r \in Receipts : receipts[r].status \in Listed =>
             /\ receipts'[r].status \in Listed
             /\ receipts'[r].shop = receipts[r].shop /\ receipts'[r].at = receipts[r].at
  BY <1>3 DEF MarkRefunded, Listed, Stay, Inv, TypeOK, Sale
<1>4. CASE Tick \/ UNCHANGED vars
  BY <1>4 DEF Tick, tables, vars
<1>5. ASSUME NEW h \in Handlers, Step(h) \/ Drop(h), ~InsertReceipt(h), ~MarkRefunded(h)
      PROVE  UNCHANGED <<receipts, clock>>
  BY <1>5 DEF Step, Drop, End, Stay, Authenticate, GetStore, GetReceipt, Stamp, RecordActivity,
              ReadStaff, WriteStaff, ReadStore, UpdateStore, DeleteStore, tables
<1>6. CASE (\E p \in Staff : Login(p)) \/ \E s \in Shops : CreateStore(s)
  BY <1>6 DEF Login, CreateStore, tables
<1>. QED
  BY <1>1, <1>2, <1>3, <1>4, <1>5, <1>6 DEF Next, Step, InsertReceipt

THEOREM ListKeeps == Spec => StaysListed
<1>1. Inv /\ [Next]_vars =>
        [\A t \in tokens : ShiftList(t, clock) \subseteq ShiftList(t, clock)']_<<receipts, shops, home>>
  <2>. SUFFICES ASSUME Inv, [Next]_vars, ~UNCHANGED <<receipts, shops, home>>, NEW t \in tokens
                PROVE  ShiftList(t, clock) \subseteq ShiftList(t, clock)'
    OBVIOUS
  <2>. QED
    BY SalesStay DEF ShiftList, ListStoreReceipts
<1>. QED
  BY <1>1, Invariance, PTL DEF Spec, StaysListed

(* A store that is deleted stays deleted.                                  *)
THEOREM StoreGone == Spec => GoneForGood
<1>1. Inv /\ [Next]_vars =>
        [\A s \in Shops : shops[s].status = "deleted" => shops'[s].status = "deleted"]_vars
  <2>. SUFFICES ASSUME Inv, Next, NEW s \in Shops, shops[s].status = "deleted"
                PROVE  shops'[s].status = "deleted"
    OBVIOUS
  <2>1. ASSUME NEW h \in Handlers, UpdateStore(h) PROVE shops'[s].status = "deleted"
    BY <2>1 DEF UpdateStore, Relabelled, Inv, TypeOK, ShopRow
  <2>2. ASSUME NEW h \in Handlers, DeleteStore(h) PROVE shops'[s].status = "deleted"
    BY <2>2 DEF DeleteStore, Open, Inv, TypeOK, ShopRow
  <2>3. ASSUME NEW x \in Shops, CreateStore(x) PROVE shops'[s].status = "deleted"
    BY <2>3 DEF CreateStore, Inv, TypeOK, ShopRow
  <2>4. ASSUME NEW h \in Handlers, Step(h) \/ Drop(h), ~UpdateStore(h), ~DeleteStore(h)
        PROVE  UNCHANGED shops
    BY <2>4 DEF Step, Drop, Authenticate, GetStore, GetReceipt, Stamp, InsertReceipt,
                MarkRefunded, RecordActivity, ReadStaff, WriteStaff, ReadStore, tables
  <2>5. Tick \/ (\E p \in Staff : Login(p)) => UNCHANGED shops
    BY DEF Tick, Login, tables
  <2>. QED
    BY <2>1, <2>2, <2>3, <2>4, <2>5 DEF Next
<1>. QED
  BY <1>1, Invariance, PTL DEF Spec, GoneForGood
=============================================================================
