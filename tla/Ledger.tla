------------------------------- MODULE Ledger -------------------------------
(***************************************************************************)
(* The points ledger: internal/loyalty/service.go over the transactions of *)
(* internal/store/tx.go.  Every HTTP request is served by a goroutine, a   *)
(* handler here; a step is one database call, or one transaction's writes  *)
(* together with their commit.                                             *)
(*                                                                         *)
(* Two databases run this code.  SQLite: one open connection, no row lock. *)
(* Postgres: a pool of connections, READ COMMITTED, and SELECT ... FOR     *)
(* UPDATE on the customer's row.  MaxOpenConns and ForUpdate say which.    *)
(*                                                                         *)
(* A transaction's INSERTs and UPDATEs and its COMMIT are one step: they   *)
(* become visible together, the customer's row stays locked until then,    *)
(* and an INSERT of a receipt another transaction is inserting waits for   *)
(* that transaction to end.                                                *)
(*                                                                         *)
(* An operator named Slip... is wrong on purpose: a plausible slip in the  *)
(* operator below it, kept to show which property would notice.            *)
(***************************************************************************)
EXTENDS LoyaltyRules, FiniteSets

CONSTANTS
  Handlers,        \* goroutines serving requests
  Customers,       \* rows of customers, made by Enroll beforehand
  ReceiptIds,      \* receipt ids the tills may send
  Requests,        \* requests a client may send, any number of times
  NoHandler, NoCustomer, NoRequest,
  InitialSettings, \* loyalty_settings before the first request
  MaxOpenConns,    \* 1 on SQLite, 20 on Postgres (store.go)
  ForUpdate,       \* TRUE on Postgres (lockCustomer)
  ColMax           \* the largest value an INTEGER column takes

Reasons == {"earn", "redeem", "refund_earn", "refund_redeem"}

CommitRequest   == [op : {"commit"}, receipt : ReceiptIds, card : Customers,
                    amount : Int, redeem : Int]
RefundRequest   == [op : {"refund"}, receipt : ReceiptIds]
AdjustRequest   == [op : {"adjust"}, card : Customers, delta : Int]
CardRequest     == [op : {"block", "delete"}, card : Customers, on : BOOLEAN]
SettingsRequest == [op : {"settings"}, sent : SUBSET SettingKeys,
                    kv : [SettingKeys -> StoredValue]]

AnyRequest == CommitRequest \cup RefundRequest \cup AdjustRequest
              \cup CardRequest \cup SettingsRequest

ASSUME HandlersAssumption  == IsFiniteSet(Handlers) /\ NoHandler \notin Handlers
ASSUME CustomersAssumption == NoCustomer \notin Customers
ASSUME RequestsAssumption  == Requests \subseteq AnyRequest /\ NoRequest \notin Requests
ASSUME SettingsAssumption  == InitialSettings \in [SettingKeys -> StoredValue]
ASSUME PoolAssumption      == MaxOpenConns \in Nat \ {0} /\ ColMax \in Nat
\* A database that does not lock rows has a single connection (store.go).
ASSUME DriverAssumption    == ForUpdate \in BOOLEAN /\ (ForUpdate \/ MaxOpenConns = 1)

VARIABLES
  points, blocked, deleted, \* columns of customers
  receipts,                 \* rows of receipts, "absent" when there is none
  ledgerSum,                \* SUM(delta) of the ledger by customer
  entries,                  \* SUM(delta) of the ledger by receipt and reason
  stored,                   \* loyalty_settings
  pc, req,                  \* where a handler is, and what it serves
  st,                       \* the settings it read
  rec,                      \* the receipt a refund read
  seen,                     \* locked.Points
  answer,                   \* what it answers
  inTx,                     \* handlers that hold a connection from step to step
  holder                    \* who holds FOR UPDATE on a customer's row

db     == <<points, blocked, deleted, receipts, ledgerSum, entries, stored>>
local  == <<st, rec, seen>>
locks  == <<inTx, holder>>
vars   == <<db, local, locks, pc, req, answer>>

Statuses == {"absent", "committed", "refunded"}

Receipt == [status : Statuses, card : Customers \cup {NoCustomer}, amount : Int,
            redeem : Int, earn : Int, after : Int, afterRefund : Int]

NoReceipt == [status |-> "absent", card |-> NoCustomer, amount |-> 0,
              redeem |-> 0, earn |-> 0, after |-> 0, afterRefund |-> 0]

Codes == {"OK", "INVALID_REQUEST", "CUSTOMER_DELETED", "CUSTOMER_BLOCKED",
          "BELOW_MIN_REDEEM", "INSUFFICIENT_POINTS", "EXCEEDS_RECEIPT_SHARE",
          "DUPLICATE_RECEIPT", "DUPLICATE_KEY", "OUT_OF_RANGE"}

Answer == [code : Codes, points : Int, earn : Int, replay : BOOLEAN]

Result(pts, earned, again) ==
  [code |-> "OK", points |-> pts, earn |-> earned, replay |-> again]
Refusal(code) == [code |-> code, points |-> 0, earn |-> 0, replay |-> FALSE]
NoAnswer == Result(0, 0, FALSE)

Labels == {"idle", "resolve", "settings", "begin", "receipt", "lock", "write",
           "update", "row", "put", "done"}

-----------------------------------------------------------------------------
(* Every customer was just enrolled: no points, usable, an empty ledger.   *)
Init ==
  /\ points    = [c \in Customers |-> 0]
  /\ blocked   = [c \in Customers |-> FALSE]
  /\ deleted   = [c \in Customers |-> FALSE]
  /\ receipts  = [r \in ReceiptIds |-> NoReceipt]
  /\ ledgerSum = [c \in Customers |-> 0]
  /\ entries   = [r \in ReceiptIds |-> [x \in Reasons |-> 0]]
  /\ stored    = InitialSettings
  /\ pc        = [h \in Handlers |-> "idle"]
  /\ req       = [h \in Handlers |-> NoRequest]
  /\ st        = [h \in Handlers |-> DefaultSettings]
  /\ rec       = [h \in Handlers |-> NoReceipt]
  /\ seen      = [h \in Handlers |-> 0]
  /\ answer    = [h \in Handlers |-> NoAnswer]
  /\ inTx      = {}
  /\ holder    = [c \in Customers |-> NoHandler]

At(h, label, op) == pc[h] = label /\ req[h].op = op

\* The customer whose row the handler locks.
CardOf(h) == IF req[h].op = "refund" THEN rec[h].card ELSE req[h].card

ConnectionFree == Cardinality(inTx) < MaxOpenConns

SlipNoWait(c) == c \in Customers
RowFree(c) == holder[c] = NoHandler

Usable(c) == CASE deleted[c]                  -> "CUSTOMER_DELETED"
               [] ~deleted[c] /\ blocked[c]   -> "CUSTOMER_BLOCKED"
               [] ~deleted[c] /\ ~blocked[c]  -> "OK"

\* pgx and Postgres refuse a value an INTEGER column cannot hold.
Fits(n) == n <= ColMax

Goto(h, label) == pc' = [pc EXCEPT ![h] = label] /\ UNCHANGED answer

\* The handler's locals are dead once its answer is composed.
Forget(h) ==
  /\ st'   = [st EXCEPT ![h] = DefaultSettings]
  /\ rec'  = [rec EXCEPT ![h] = NoReceipt]
  /\ seen' = [seen EXCEPT ![h] = 0]

Reply(h, a) ==
  /\ pc' = [pc EXCEPT ![h] = "done"]
  /\ answer' = [answer EXCEPT ![h] = a]
  /\ Forget(h)

Refuse(h, code) == Reply(h, Refusal(code))

SlipKeepRow(h) == inTx' = inTx \ {h} /\ UNCHANGED holder

\* COMMIT or ROLLBACK: the connection and the row locks are given back.
EndTx(h) ==
  /\ inTx' = inTx \ {h}
  /\ holder' = [c \in Customers |-> IF holder[c] = h THEN NoHandler ELSE holder[c]]

\* InsertLedger: one row of the ledger, for a receipt.
Post(c, r, deltas) ==
  /\ entries' = [entries EXCEPT ![r] = [x \in Reasons |-> entries[r][x] + deltas[x]]]
  /\ ledgerSum' = [ledgerSum EXCEPT ![c] = @ + deltas["earn"] + deltas["redeem"]
                                    + deltas["refund_earn"] + deltas["refund_redeem"]]

SetPoints(c, n) == points' = [points EXCEPT ![c] = n]

-----------------------------------------------------------------------------
(* A request arrives.                                                      *)
FirstLabel(q) == CASE q.op = "refund"   -> "begin"
                   [] q.op = "settings" -> "put"
                   [] q.op \notin {"refund", "settings"} -> "resolve"

Accept(h) ==
  /\ pc[h] = "idle"
  /\ \E q \in Requests : /\ req' = [req EXCEPT ![h] = q]
                         /\ Goto(h, FirstLabel(q))
  /\ UNCHANGED <<db, local, locks>>

(* Before the transaction: Commit validates, reads the customer, then the  *)
(* settings, each with a connection of its own.                            *)
CommitVerdict(q) ==
  IF q.amount < 0 \/ q.redeem < 0 THEN "INVALID_REQUEST" ELSE Usable(q.card)

ResolveCommit(h) ==
  /\ At(h, "resolve", "commit")
  /\ ConnectionFree
  /\ \/ CommitVerdict(req[h]) = "OK" /\ Goto(h, "settings") /\ UNCHANGED local
     \/ CommitVerdict(req[h]) # "OK" /\ Refuse(h, CommitVerdict(req[h]))
  /\ UNCHANGED <<db, locks, req>>

ReadSettings(h) ==
  /\ pc[h] = "settings"
  /\ ConnectionFree
  /\ st' = [st EXCEPT ![h] = ParseSettings(stored)]
  /\ Goto(h, "begin")
  /\ UNCHANGED <<db, locks, req, rec, seen>>

(* Adjust looks at deleted_at here, and never again.                       *)
ResolveAdjust(h) ==
  /\ At(h, "resolve", "adjust")
  /\ ConnectionFree
  /\ \/ ~deleted[req[h].card] /\ Goto(h, "begin") /\ UNCHANGED local
     \/ deleted[req[h].card] /\ Refuse(h, "CUSTOMER_DELETED")
  /\ UNCHANGED <<db, locks, req>>

SlipNoLookup(h) == IF req[h].op = "refund" THEN "receipt" ELSE "lock"
FirstInTx(h) == IF req[h].op = "adjust" THEN "lock" ELSE "receipt"

Begin(h) ==
  /\ pc[h] = "begin"
  /\ ConnectionFree
  /\ inTx' = inTx \cup {h}
  /\ Goto(h, FirstInTx(h))
  /\ UNCHANGED <<db, local, req, holder>>

-----------------------------------------------------------------------------
(* Inside the transaction: the receipt is read before the row is locked.   *)
SameFields(q, r) == r.card = q.card /\ r.amount = q.amount /\ r.redeem = q.redeem

\* A receipt on record is answered from its row.
SlipReplayNow(r) == Result(points[r.card], r.earn, TRUE)
ReplayCommit(r) == Result(r.after, r.earn, TRUE)

SlipReplaySale(r) == Result(r.after, 0, TRUE)
ReplayRefund(r) == Result(r.afterRefund, 0, TRUE)

ReadReceiptForCommit(h) ==
  LET r == receipts[req[h].receipt]
  IN /\ At(h, "receipt", "commit")
     /\ \/ /\ r.status = "absent"
           /\ Goto(h, "lock")
           /\ UNCHANGED <<local, locks>>
        \/ /\ r.status # "absent"
           /\ SameFields(req[h], r)
           /\ Reply(h, ReplayCommit(r))
           /\ EndTx(h)
        \/ /\ r.status # "absent"
           /\ ~SameFields(req[h], r)
           /\ Refuse(h, "DUPLICATE_RECEIPT")
           /\ EndTx(h)
     /\ UNCHANGED <<db, req>>

ReadReceiptForRefund(h) ==
  LET r == receipts[req[h].receipt]
  IN /\ At(h, "receipt", "refund")
     /\ \/ /\ r.status = "committed"
           /\ rec' = [rec EXCEPT ![h] = r]
           /\ Goto(h, "lock")
           /\ UNCHANGED <<st, seen, locks>>
        \/ /\ r.status = "refunded"
           /\ Reply(h, ReplayRefund(r))
           /\ EndTx(h)
        \/ /\ r.status = "absent"
           /\ Refuse(h, "INVALID_REQUEST")
           /\ EndTx(h)
     /\ UNCHANGED <<db, req>>

(* LockCustomer, and the checks made on the row it returns.                *)
BalanceVerdict(h) ==
  LET q == req[h]
      c == CardOf(h)
  IN  CASE q.op = "commit" -> CheckRedeem(points[c], q.amount, q.redeem, st[h])
        [] q.op = "adjust" ->
             IF points[c] + q.delta < 0 THEN "INSUFFICIENT_POINTS" ELSE "OK"
        [] q.op \notin {"commit", "adjust"} -> "OK"

LockVerdict(h) ==
  IF req[h].op = "commit" /\ Usable(CardOf(h)) # "OK"
  THEN Usable(CardOf(h)) ELSE BalanceVerdict(h)

SlipNoLock(h, c) == UNCHANGED holder
TakeRow(h, c) ==
  holder' = IF ForUpdate THEN [holder EXCEPT ![c] = h] ELSE holder

Lock(h) ==
  /\ pc[h] = "lock"
  /\ RowFree(CardOf(h))
  /\ \/ /\ LockVerdict(h) = "OK"
        /\ TakeRow(h, CardOf(h))
        /\ seen' = [seen EXCEPT ![h] = points[CardOf(h)]]
        /\ Goto(h, "write")
        /\ UNCHANGED <<st, rec, inTx>>
     \/ /\ LockVerdict(h) # "OK"
        /\ Refuse(h, LockVerdict(h))
        /\ EndTx(h)
  /\ UNCHANGED <<db, req>>

-----------------------------------------------------------------------------
(* The writes of the three transactions.                                   *)
EarnOf(h) == ComputeEarn(req[h].amount, req[h].redeem, st[h])
AfterCommit(h) == seen[h] - req[h].redeem + EarnOf(h)

CommitFits(h) == Fits(req[h].amount) /\ Fits(EarnOf(h)) /\ Fits(AfterCommit(h))

Purchase(q, earn, after) ==
  [status |-> "committed", card |-> q.card, amount |-> q.amount,
   redeem |-> q.redeem, earn |-> earn, after |-> after, afterRefund |-> 0]

PurchaseDeltas(q, earn) ==
  [x \in Reasons |-> CASE x = "redeem" -> 0 - q.redeem
                       [] x = "earn"   -> earn
                       [] x \notin {"redeem", "earn"} -> 0]

\* The primary key of receipts.
SlipNoKey(r) == FALSE
KeyTaken(r) == receipts[r].status # "absent"

WriteCommit(h) ==
  LET q == req[h]
      r == req[h].receipt
  IN /\ At(h, "write", "commit")
     /\ \/ /\ KeyTaken(r)
           /\ Refuse(h, "DUPLICATE_KEY")
           /\ UNCHANGED db
        \/ /\ ~KeyTaken(r)
           /\ ~CommitFits(h)
           /\ Refuse(h, "OUT_OF_RANGE")
           /\ UNCHANGED db
        \/ /\ ~KeyTaken(r)
           /\ CommitFits(h)
           /\ receipts' = [receipts EXCEPT ![r] = Purchase(q, EarnOf(h), AfterCommit(h))]
           /\ Post(q.card, r, PurchaseDeltas(q, EarnOf(h)))
           /\ SetPoints(q.card, AfterCommit(h))
           /\ Reply(h, Result(AfterCommit(h), EarnOf(h), FALSE))
           /\ UNCHANGED <<blocked, deleted, stored>>
     /\ EndTx(h)
     /\ UNCHANGED req

(* Refund takes back what it can of the points earned, then returns the    *)
(* points redeemed.                                                        *)
SlipReverseAll(balance, r) == r.earn
Reversed(balance, r) == SmallerOf(r.earn, balance)

SlipCreditFirst(balance, r) ==
  (balance + r.redeem) - SmallerOf(r.earn, balance + r.redeem)
AfterRefund(balance, r) == (balance - Reversed(balance, r)) + r.redeem

RefundDeltas(balance, r) ==
  [x \in Reasons |-> CASE x = "refund_earn"   -> 0 - Reversed(balance, r)
                       [] x = "refund_redeem" -> r.redeem
                       [] x \notin {"refund_earn", "refund_redeem"} -> 0]

SlipNotMarked(r, after) == receipts' = [receipts EXCEPT ![r].afterRefund = after]
SlipSaleOverwritten(r, after) ==
  receipts' = [receipts EXCEPT ![r].status = "refunded", ![r].after = after]
MarkRefunded(r, after) ==
  receipts' = [receipts EXCEPT ![r].status = "refunded", ![r].afterRefund = after]

WriteRefund(h) ==
  LET r     == req[h].receipt
      after == AfterRefund(seen[h], rec[h])
  IN /\ At(h, "write", "refund")
     /\ \/ /\ ~Fits(after)
           /\ Refuse(h, "OUT_OF_RANGE")
           /\ UNCHANGED db
        \/ /\ Fits(after)
           /\ Post(rec[h].card, r, RefundDeltas(seen[h], rec[h]))
           /\ SetPoints(rec[h].card, after)
           /\ MarkRefunded(r, after)
           /\ Reply(h, Result(after, 0, FALSE))
           /\ UNCHANGED <<blocked, deleted, stored>>
     /\ EndTx(h)
     /\ UNCHANGED req

WriteAdjust(h) ==
  LET c    == req[h].card
      next == seen[h] + req[h].delta
  IN /\ At(h, "write", "adjust")
     /\ \/ /\ ~(Fits(next) /\ Fits(req[h].delta))
           /\ Refuse(h, "OUT_OF_RANGE")
           /\ UNCHANGED db
        \/ /\ Fits(next) /\ Fits(req[h].delta)
           /\ ledgerSum' = [ledgerSum EXCEPT ![c] = @ + req[h].delta]
           /\ SetPoints(c, next)
           /\ Reply(h, Result(next, 0, FALSE))
           /\ UNCHANGED <<blocked, deleted, receipts, entries, stored>>
     /\ EndTx(h)
     /\ UNCHANGED req

-----------------------------------------------------------------------------
(* The card endpoints read the card, then update it, in two statements.    *)
ResolveBlock(h) ==
  /\ At(h, "resolve", "block")
  /\ ConnectionFree
  /\ \/ ~deleted[req[h].card] /\ Goto(h, "update") /\ UNCHANGED local
     \/ deleted[req[h].card] /\ Refuse(h, "CUSTOMER_DELETED")
  /\ UNCHANGED <<db, locks, req>>

ResolveDelete(h) ==
  /\ At(h, "resolve", "delete")
  /\ ConnectionFree
  /\ \/ deleted[req[h].card] # req[h].on /\ Goto(h, "update") /\ UNCHANGED local
     \/ deleted[req[h].card] = req[h].on /\ Reply(h, NoAnswer)
  /\ UNCHANGED <<db, locks, req>>

\* The UPDATE has a connection while it waits for the row.
Connect(h) ==
  /\ pc[h] = "update"
  /\ ConnectionFree
  /\ inTx' = inTx \cup {h}
  /\ Goto(h, "row")
  /\ UNCHANGED <<db, local, req, holder>>

UpdateCard(h) ==
  LET q == req[h]
  IN /\ pc[h] = "row"
     /\ RowFree(q.card)
     /\ \/ /\ q.op = "block"
           /\ blocked' = [blocked EXCEPT ![q.card] = q.on]
           /\ UNCHANGED deleted
        \/ /\ q.op = "delete"
           /\ deleted' = [deleted EXCEPT ![q.card] = q.on]
           /\ UNCHANGED blocked
     /\ Reply(h, NoAnswer)
     /\ EndTx(h)
     /\ UNCHANGED <<points, receipts, ledgerSum, entries, stored, req>>

Upsert(m, q) == [k \in SettingKeys |-> IF k \in q.sent THEN q.kv[k] ELSE m[k]]

PutSettings(h) ==
  /\ At(h, "put", "settings")
  /\ ConnectionFree
  /\ stored' = Upsert(stored, req[h])
  /\ Reply(h, NoAnswer)
  /\ UNCHANGED <<points, blocked, deleted, receipts, ledgerSum, entries, locks, req>>

-----------------------------------------------------------------------------
(* The response is written, or lost on its way: the same to the server.    *)
Respond(h) ==
  /\ pc[h] = "done"
  /\ pc' = [pc EXCEPT ![h] = "idle"]
  /\ req' = [req EXCEPT ![h] = NoRequest]
  /\ answer' = [answer EXCEPT ![h] = NoAnswer]
  /\ UNCHANGED <<db, local, locks>>

(* The 15 second deadline, a client gone, a database error or a crash ends *)
(* the handler; its transaction is rolled back.                            *)
Drop(h) ==
  /\ pc[h] \notin {"idle", "done"}
  /\ pc' = [pc EXCEPT ![h] = "idle"]
  /\ req' = [req EXCEPT ![h] = NoRequest]
  /\ Forget(h)
  /\ EndTx(h)
  /\ UNCHANGED <<db, answer>>

Before(h) == ResolveCommit(h) \/ ReadSettings(h) \/ ResolveAdjust(h)
             \/ ResolveBlock(h) \/ ResolveDelete(h) \/ Begin(h) \/ Connect(h)
Inside(h) == ReadReceiptForCommit(h) \/ ReadReceiptForRefund(h) \/ Lock(h)
             \/ WriteCommit(h) \/ WriteRefund(h) \/ WriteAdjust(h)
Work(h)   == Before(h) \/ Inside(h) \/ UpdateCard(h) \/ PutSettings(h) \/ Respond(h)

Next == \E h \in Handlers : Accept(h) \/ Work(h) \/ Drop(h)

Spec == Init /\ [][Next]_vars

(* The pool of database/sql and the lock queue of Postgres both serve      *)
(* waiters in order of arrival, and a runnable goroutine runs: no handler  *)
(* is passed over for ever by a wait that keeps coming free.               *)
FairSpec == Spec /\ \A h \in Handlers : SF_vars(Work(h))

-----------------------------------------------------------------------------
(* Properties.                                                             *)

(* Every variable keeps the type of its column or Go variable.             *)
TypeOK ==
  /\ points \in [Customers -> Int]
  /\ blocked \in [Customers -> BOOLEAN]
  /\ deleted \in [Customers -> BOOLEAN]
  /\ receipts \in [ReceiptIds -> Receipt]
  /\ ledgerSum \in [Customers -> Int]
  /\ entries \in [ReceiptIds -> [Reasons -> Int]]
  /\ stored \in [SettingKeys -> StoredValue]
  /\ pc \in [Handlers -> Labels]
  /\ req \in [Handlers -> Requests \cup {NoRequest}]
  /\ st \in [Handlers -> Settings]
  /\ rec \in [Handlers -> Receipt]
  /\ seen \in [Handlers -> Int]
  /\ answer \in [Handlers -> Answer]
  /\ inTx \in SUBSET Handlers
  /\ holder \in [Customers -> Handlers \cup {NoHandler}]

(* The balance kept in customers.points is the sum of the customer's rows  *)
(* in the ledger.  points is written from the balance read under the lock, *)
(* the ledger row carries a difference: one update built on a stale        *)
(* balance and the two part for ever.                                      *)
BalanceIsLedgerSum == \A c \in Customers : points[c] = ledgerSum[c]

(* No interleaving of purchases, refunds and corrections overdraws a card: *)
(* Commit and Adjust check a balance, SetPoints writes one.                *)
NonNegative == \A c \in Customers : points[c] >= 0

(* A receipt posts its purchase to the ledger exactly once, with the       *)
(* points the receipt itself records; no receipt, no rows.  A repeated     *)
(* commit, or one that failed half way, must not leave a row behind.       *)
PurchasePosted ==
  \A r \in ReceiptIds : /\ entries[r]["redeem"] = 0 - receipts[r].redeem
                        /\ entries[r]["earn"] = receipts[r].earn

(* A refund gives back the redeemed points exactly once and takes back at  *)
(* most what the receipt earned, however often and by however many tills   *)
(* the same refund is sent.                                                *)
RefundedOnce ==
  \A r \in ReceiptIds :
    IF receipts[r].status = "refunded"
    THEN /\ entries[r]["refund_redeem"] = receipts[r].redeem
         /\ 0 - receipts[r].earn <= entries[r]["refund_earn"]
         /\ entries[r]["refund_earn"] <= 0
    ELSE entries[r]["refund_redeem"] = 0 /\ entries[r]["refund_earn"] = 0

(* Two answers to the same purchase never differ: what Commit answers,     *)
(* first or replayed, is what the row of the receipt says, whatever the    *)
(* balance and the settings have become since.                             *)
CommitsAgree ==
  \A h \in Handlers :
    At(h, "done", "commit") /\ answer[h].code = "OK" =>
      LET r == receipts[req[h].receipt]
      IN  /\ r.status # "absent" /\ SameFields(req[h], r)
          /\ answer[h].points = r.after
          /\ answer[h].earn = r.earn

(* Likewise every successful answer to a refund shows the balance that one *)
(* refund of the receipt left.                                             *)
RefundsAgree ==
  \A h \in Handlers :
    At(h, "done", "refund") /\ answer[h].code = "OK" =>
      LET r == receipts[req[h].receipt]
      IN  r.status = "refunded" /\ answer[h].points = r.afterRefund

(* A purchase is recorded only while its card is neither deleted nor       *)
(* blocked and has the points it pays with, though all of this was first   *)
(* checked several steps before, outside the transaction.                  *)
SalesAreCovered ==
  [][\A r \in ReceiptIds :
       receipts[r].status = "absent" /\ receipts'[r].status # "absent" =>
         LET c == receipts'[r].card
         IN  Usable(c) = "OK" /\ receipts'[r].redeem <= points[c]]_vars

(* A receipt on record never changes but for the one step from committed   *)
(* to refunded: no retry overwrites it, no refund is undone or repeated.   *)
ReceiptsAreFinal ==
  [][\A r \in ReceiptIds :
       receipts[r].status # "absent" /\ receipts'[r] # receipts[r] =>
         /\ receipts[r].status = "committed"
         /\ receipts'[r] = [receipts[r] EXCEPT !.status = "refunded",
                              !.afterRefund = points'[receipts[r].card]]]_vars

(* What a receipt says of its purchase is never altered, nor the receipt   *)
(* lost, on either database: not even by two refunds that race, which      *)
(* both mark the receipt they read as committed.                           *)
PurchasesAreFinal ==
  [][\A r \in ReceiptIds :
       receipts[r].status # "absent" =>
         receipts'[r] = [receipts[r] EXCEPT !.status = receipts'[r].status,
                                            !.afterRefund = receipts'[r].afterRefund]
         /\ (receipts[r].status = receipts'[r].status \/ receipts'[r].status = "refunded")]_vars

(* The mark on a receipt and the ledger rows of its refund go together on  *)
(* either database: no refund is paid on an unmarked receipt, and a marked *)
(* one has been paid.                                                      *)
MarkedIsPaid ==
  \A r \in ReceiptIds :
    IF receipts[r].status = "refunded"
    THEN entries[r]["refund_redeem"] >= receipts[r].redeem /\ entries[r]["refund_earn"] <= 0
    ELSE entries[r]["refund_redeem"] = 0 /\ entries[r]["refund_earn"] = 0

(* A purchase sent again, with its receipt on record and the same fields.  *)
Repeated(h) ==
  /\ pc[h] # "done" /\ pc'[h] = "done"
  /\ req[h].op = "commit"
  /\ receipts[req[h].receipt].status # "absent"
  /\ SameFields(req[h], receipts[req[h].receipt])

(* A repeat is answered the recorded result, or is refused because its card*)
(* is deleted or blocked at that moment: never as a duplicate, for want of *)
(* points spent meanwhile, nor by the rules of today.                      *)
RepeatSettles ==
  [][\A h \in Handlers : Repeated(h) =>
       \/ /\ answer'[h].code = "OK"
          /\ answer'[h].points = receipts[req[h].receipt].after
          /\ answer'[h].earn = receipts[req[h].receipt].earn
       \/ /\ answer'[h].code = Usable(req[h].card)
          /\ answer'[h].code # "OK"]_vars

(* A repeat is answered the recorded result, never with an error           *)
(* (docs/api.md:70).                                                       *)
RepeatIsReplay ==
  [][\A h \in Handlers : Repeated(h) => answer'[h].code = "OK"]_vars

(* A deleted card is neither blocked nor unblocked (docs/api.md:423).      *)
DeletedKeepsBlocked ==
  [][\A c \in Customers : deleted[c] => blocked'[c] = blocked[c]]_vars

(* Every request is answered, or its handler ends: no handler waits for    *)
(* ever for a connection or for a customer's row.                          *)
Answered == \A h \in Handlers : pc[h] # "idle" ~> pc[h] = "idle"

-----------------------------------------------------------------------------
(* The inductive invariant: why the safety properties hold.                *)

(* A handler past Accept serves a request, of the kind its label is for.   *)
Serving ==
  \A h \in Handlers :
    /\ pc[h] # "idle" => req[h] \in Requests
    /\ pc[h] = "settings" => req[h].op = "commit"
    /\ pc[h] \in {"begin", "lock", "write"} => req[h].op \in {"commit", "refund", "adjust"}
    /\ pc[h] = "receipt" => req[h].op \in {"commit", "refund"}

(* A row of receipts is a purchase on a known card, and the copy a refund  *)
(* took of one stays true in all but its status.                           *)
Sold(r) == r.card \in Customers /\ r.redeem >= 0 /\ r.earn >= 0

Copies(copy, r) == /\ r.status # "absent" /\ copy.card = r.card
                   /\ copy.redeem = r.redeem /\ copy.earn = r.earn

ReceiptsSound ==
  /\ \A r \in ReceiptIds : IF receipts[r].status = "absent"
                            THEN receipts[r] = NoReceipt
                            ELSE Sold(receipts[r])
  /\ \A h \in Handlers : pc[h] \in {"lock", "write"} /\ req[h].op = "refund"
                          => Copies(rec[h], receipts[req[h].receipt])

(* A connection is held for exactly the length of a transaction, that of a *)
(* single UPDATE included.                                                 *)
InTransaction(h) == pc[h] \in {"receipt", "lock", "write", "row"}

Pooled ==
  /\ inTx = {h \in Handlers : InTransaction(h)}
  /\ Cardinality(inTx) <= MaxOpenConns

(* Between the lock and the writes the row is held.                        *)
RowsHeld ==
  ForUpdate => \A h \in Handlers : pc[h] = "write" => holder[CardOf(h)] = h

(* Who holds a row is about to write it, and waits for nobody: those who   *)
(* wait, for a row or for a connection, hold none.                         *)
HoldersWrite ==
  \A c \in Customers : holder[c] # NoHandler =>
    pc[holder[c]] = "write" /\ CardOf(holder[c]) = c

(* Between the lock and the writes the balance read stays true, covers     *)
(* what is about to be taken from it, and the card stays usable.           *)
Fresh ==
  \A h \in Handlers : pc[h] = "write" =>
    /\ seen[h] = points[CardOf(h)]
    /\ req[h].op = "commit" => /\ 0 <= req[h].redeem /\ req[h].redeem <= seen[h]
                               /\ Usable(CardOf(h)) = "OK"
    /\ req[h].op = "adjust" => 0 <= seen[h] + req[h].delta

(* The inductive invariant of the ledger: a handler about to write holds   *)
(* the row it will write, by FOR UPDATE or by holding the one connection,  *)
(* so the balance it read is still the balance.                            *)
Inv == /\ TypeOK /\ Serving /\ ReceiptsSound /\ Pooled /\ RowsHeld /\ HoldersWrite
       /\ Fresh /\ BalanceIsLedgerSum /\ NonNegative /\ PurchasePosted

-----------------------------------------------------------------------------
(* With one connection: why refunds happen once and repeats are replays.   *)

(* What a transaction read of its receipt before it took the row is still  *)
(* so when it writes.                                                      *)
ReadStaysTrue ==
  \A h \in Handlers : pc[h] \in {"lock", "write"} =>
    LET r == receipts[req[h].receipt]
    IN  /\ req[h].op = "commit" => r.status = "absent"
        /\ req[h].op = "refund" => rec[h] = r /\ r.status = "committed"

(* A handler past its first step serves a request that Commit accepts, and *)
(* so was every purchase on record.                                        *)
Validated ==
  /\ \A h \in Handlers :
       /\ pc[h] \in {"settings", "begin", "receipt", "lock", "write"}
       /\ req[h].op = "commit"
       => req[h].amount >= 0 /\ req[h].redeem >= 0
  /\ \A r \in ReceiptIds : receipts[r].amount >= 0

(* The inductive invariant of the ledger on one connection.                *)
SingleInv == /\ Inv /\ ReadStaysTrue /\ Validated
             /\ RefundedOnce /\ RefundsAgree

=============================================================================
