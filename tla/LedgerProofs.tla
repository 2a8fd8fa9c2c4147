---------------------------- MODULE LedgerProofs ----------------------------
(***************************************************************************)
(* Proofs about Ledger, for any number of handlers, customers and receipts *)
(* and any settings.  On both databases: the balances are right, purchases *)
(* are final, their answers agree, a refund is paid when it is marked.  On *)
(* one connection, as on SQLite: a refund is paid once, and the service is *)
(* LoyaltyBook.                                                            *)
(***************************************************************************)
EXTENDS LedgerRefines, LoyaltyRulesProofs, FiniteSetTheorems

USE DEF At

-----------------------------------------------------------------------------
(* Lemmas about the operators.                                             *)

(* The fields a request has, by its operation.                             *)
LEMMA RequestShape ==
  ASSUME NEW q \in Requests
  PROVE  /\ q.op = "commit" => /\ q.receipt \in ReceiptIds /\ q.card \in Customers
                               /\ q.amount \in Int /\ q.redeem \in Int
         /\ q.op = "refund" => q.receipt \in ReceiptIds
         /\ q.op = "adjust" => q.card \in Customers /\ q.delta \in Int
         /\ q.op \in {"block", "delete"} => q.card \in Customers /\ q.on \in BOOLEAN
         /\ q.op = "settings" => q.kv \in [SettingKeys -> StoredValue]
<1>1. q \in AnyRequest
  BY RequestsAssumption
<1>2. QED
  BY <1>1 DEF AnyRequest, CommitRequest, RefundRequest, AdjustRequest,
              CardRequest, SettingsRequest

LEMMA ConstantTypes == DefaultSettings \in Settings /\ NoReceipt \in Receipt
<1>1. DefaultSettings \in Settings
  BY DEF DefaultSettings, Settings, SettingKeys
<1>2. NoReceipt \in Receipt
  BY DEF NoReceipt, Receipt, Statuses
<1>3. QED
  BY <1>1, <1>2

(* Whatever strings the table holds, ParseSettings returns numbers.        *)
LEMMA ParsedType ==
  ASSUME NEW m \in [SettingKeys -> StoredValue]
  PROVE  ParseSettings(m) \in Settings
<1>1. \A k \in SettingKeys : m[k].num \in Int
  BY DEF StoredValue
<1>2. \A k \in SettingKeys : DefaultSettings[k] \in Int
  BY ConstantTypes DEF Settings
<1>3. QED
  BY <1>1, <1>2 DEF ParseSettings, Settings

LEMMA AnswerShape ==
  /\ \A code \in Codes : Refusal(code) \in Answer
  /\ \A n, e \in Int, b \in BOOLEAN : Result(n, e, b) \in Answer
  /\ \A n \in Int : Result(n, 0, TRUE) \in Answer /\ Result(n, 0, FALSE) \in Answer
  /\ NoAnswer \in Answer
  BY DEF Refusal, Result, NoAnswer, Answer, Codes

(* An answer is well typed, and composing it forgets well-typed locals.    *)
LEMMA ReplyType ==
  ASSUME TypeOK, NEW h \in Handlers, NEW a \in Answer, Reply(h, a)
  PROVE  /\ pc' \in [Handlers -> Labels]
         /\ answer' \in [Handlers -> Answer]
         /\ st' \in [Handlers -> Settings]
         /\ rec' \in [Handlers -> Receipt]
         /\ seen' \in [Handlers -> Int]
  BY ConstantTypes DEF TypeOK, Reply, Labels, Forget

LEMMA EndTxType ==
  ASSUME TypeOK, NEW h \in Handlers, EndTx(h)
  PROVE  /\ inTx' \in SUBSET Handlers
         /\ holder' \in [Customers -> Handlers \cup {NoHandler}]
  BY DEF TypeOK, EndTx

(* The tables alone.                                                       *)
DbType ==
  /\ points \in [Customers -> Int] /\ ledgerSum \in [Customers -> Int]
  /\ blocked \in [Customers -> BOOLEAN] /\ deleted \in [Customers -> BOOLEAN]
  /\ receipts \in [ReceiptIds -> Receipt]
  /\ entries \in [ReceiptIds -> [Reasons -> Int]]
  /\ stored \in [SettingKeys -> StoredValue]

LEMMA DbTyped == TypeOK => DbType
  BY DEF TypeOK, DbType

LEMMA DbFrame ==
  ASSUME TypeOK, UNCHANGED db
  PROVE  DbType'
  BY DEF TypeOK, DbType, db

(* A step that answers is typed when what it does to the tables is.        *)
LEMMA AnswerType ==
  ASSUME TypeOK, NEW h \in Handlers, NEW a \in Answer, Reply(h, a),
         UNCHANGED locks \/ EndTx(h),
         req' = req, DbType'
  PROVE  TypeOK'
<1>1. /\ pc' \in [Handlers -> Labels] /\ answer' \in [Handlers -> Answer]
      /\ st' \in [Handlers -> Settings] /\ rec' \in [Handlers -> Receipt]
      /\ seen' \in [Handlers -> Int]
  BY ReplyType
<1>2. /\ inTx' \in SUBSET Handlers
      /\ holder' \in [Customers -> Handlers \cup {NoHandler}]
  <2>1. CASE UNCHANGED locks
    BY <2>1 DEF TypeOK, locks
  <2>2. CASE EndTx(h)
    BY <2>2, EndTxType
  <2>3. QED
    BY <2>1, <2>2
<1>3. req' \in [Handlers -> Requests \cup {NoRequest}]
  BY DEF TypeOK
<1>4. QED
  BY <1>1, <1>2, <1>3 DEF TypeOK, DbType

LEMMA RefuseType ==
  ASSUME TypeOK, NEW h \in Handlers, NEW code \in Codes, Refuse(h, code),
         UNCHANGED locks \/ EndTx(h), req' = req, UNCHANGED db
  PROVE  TypeOK'
<1>1. Refusal(code) \in Answer /\ DbType'
  BY AnswerShape, DbFrame
<1>2. QED
  BY <1>1, AnswerType DEF Refuse

(* The verdicts are error codes.                                           *)
LEMMA VerdictTypes ==
  ASSUME TypeOK, Serving, NEW h \in Handlers
  PROVE  /\ \A c \in Customers : Usable(c) \in Codes
         /\ pc[h] = "resolve" /\ req[h].op = "commit" => CommitVerdict(req[h]) \in Codes
         /\ pc[h] = "lock" /\ CardOf(h) \in Customers => LockVerdict(h) \in Codes
<1>1. \A c \in Customers : Usable(c) \in Codes
  BY DEF Usable, Codes, TypeOK
<1>2. ASSUME pc[h] = "resolve", req[h].op = "commit"
      PROVE  CommitVerdict(req[h]) \in Codes
  <2>1. req[h].card \in Customers
    BY <1>2, RequestShape DEF Serving
  <2>2. QED
    BY <1>1, <2>1 DEF CommitVerdict, Codes
<1>3. ASSUME pc[h] = "lock", CardOf(h) \in Customers
      PROVE  LockVerdict(h) \in Codes
  <2>1. req[h] \in Requests
    BY <1>3 DEF Serving
  <2>2. CASE req[h].op = "commit"
    <3>1. Usable(CardOf(h)) \in Codes
      BY <1>1, <1>3
    <3>2. CheckRedeem(points[CardOf(h)], req[h].amount, req[h].redeem, st[h]) \in Codes
      BY <1>3, <2>1, <2>2, RequestShape, VerdictCodes DEF TypeOK, Codes
    <3>3. QED
      BY <2>2, <3>1, <3>2 DEF LockVerdict, BalanceVerdict
  <2>3. CASE req[h].op # "commit"
    BY <2>3 DEF LockVerdict, BalanceVerdict, Codes
  <2>4. QED
    BY <2>2, <2>3
<1>4. QED
  BY <1>1, <1>2, <1>3

(* A refund's copy of a receipt is a purchase on a known card.             *)
LEMMA CopySold ==
  ASSUME Serving, ReceiptsSound, NEW h \in Handlers,
         pc[h] \in {"lock", "write"}, req[h].op = "refund"
  PROVE  Sold(rec[h]) /\ req[h].receipt \in ReceiptIds
<1>1. req[h].receipt \in ReceiptIds
  BY RequestShape DEF Serving
<1>2. QED
  BY <1>1 DEF ReceiptsSound, Copies, Sold

(* The card a transaction locks is a customer's.                           *)
LEMMA CardKnown ==
  ASSUME TypeOK, Serving, ReceiptsSound, NEW h \in Handlers,
         pc[h] \in {"lock", "write"}
  PROVE  CardOf(h) \in Customers
<1>1. req[h] \in Requests /\ req[h].op \in {"commit", "refund", "adjust"}
  BY DEF Serving
<1>2. CASE req[h].op = "refund"
  BY <1>1, <1>2, CopySold DEF CardOf, Sold
<1>3. CASE req[h].op \in {"commit", "adjust"}
  BY <1>1, <1>3, RequestShape DEF CardOf
<1>4. QED
  BY <1>1, <1>2, <1>3

(* What a purchase earns, and the balance it leaves.                       *)
LEMMA PurchaseTypes ==
  ASSUME TypeOK, Serving, NEW h \in Handlers, pc[h] = "write", req[h].op = "commit"
  PROVE  /\ EarnOf(h) \in Nat /\ AfterCommit(h) \in Int
         /\ Purchase(req[h], EarnOf(h), AfterCommit(h)) \in Receipt
<1>1. /\ req[h].redeem \in Int /\ req[h].amount \in Int /\ req[h].card \in Customers
      /\ st[h] \in Settings /\ seen[h] \in Int
  BY RequestShape DEF Serving, TypeOK
<1>2. EarnOf(h) \in Nat
  BY <1>1, EarnIsNat DEF EarnOf
<1>3. AfterCommit(h) \in Int
  BY <1>1, <1>2 DEF AfterCommit
<1>4. Purchase(req[h], EarnOf(h), AfterCommit(h)) \in Receipt
  BY <1>1, <1>2, <1>3 DEF Purchase, Receipt, Statuses
<1>5. QED
  BY <1>2, <1>3, <1>4

(* A posting moves the sum of the ledger and its rows together.            *)
LEMMA PostType ==
  ASSUME TypeOK, NEW c \in Customers, NEW r \in ReceiptIds,
         NEW deltas \in [Reasons -> Int], Post(c, r, deltas)
  PROVE  /\ entries' \in [ReceiptIds -> [Reasons -> Int]]
         /\ ledgerSum' \in [Customers -> Int]
<1>1. \A x \in Reasons : entries[r][x] \in Int /\ deltas[x] \in Int
  BY DEF TypeOK
<1>2. [x \in Reasons |-> entries[r][x] + deltas[x]] \in [Reasons -> Int]
  BY <1>1
<1>3. entries' \in [ReceiptIds -> [Reasons -> Int]]
  BY <1>2 DEF Post, TypeOK
<1>4. /\ deltas["earn"] \in Int /\ deltas["redeem"] \in Int
      /\ deltas["refund_earn"] \in Int /\ deltas["refund_redeem"] \in Int
  BY DEF Reasons
<1>5. ledgerSum' \in [Customers -> Int]
  BY <1>4 DEF Post, TypeOK
<1>6. QED
  BY <1>3, <1>5

(* A refund takes back no more than the balance.                           *)
LEMMA RefundTypes ==
  ASSUME NEW balance \in Int, NEW r \in Receipt
  PROVE  /\ AfterRefund(balance, r) \in Int
         /\ Reversed(balance, r) \in Int
         /\ RefundDeltas(balance, r) \in [Reasons -> Int]
         /\ balance >= 0 /\ r.redeem >= 0 => AfterRefund(balance, r) >= 0
<1>1. r.earn \in Int /\ r.redeem \in Int
  BY DEF Receipt
<1>2. Reversed(balance, r) \in Int /\ Reversed(balance, r) <= balance
  BY <1>1 DEF Reversed, SmallerOf
<1>3. QED
  BY <1>1, <1>2 DEF AfterRefund, RefundDeltas, Reasons

LEMMA PurchaseDeltasType ==
  ASSUME NEW q, q.redeem \in Int, NEW earn \in Int
  PROVE  PurchaseDeltas(q, earn) \in [Reasons -> Int]
  BY DEF PurchaseDeltas, Reasons

-----------------------------------------------------------------------------
(* Type correctness.  A step is typed when the handler serves a request    *)
(* and the receipts are sound.                                             *)

LEMMA AcceptType ==
  ASSUME TypeOK, NEW h \in Handlers, Accept(h)
  PROVE  TypeOK'
<1>1. PICK q \in Requests : /\ req' = [req EXCEPT ![h] = q]
                           /\ Goto(h, FirstLabel(q))
  BY DEF Accept
<1>2. FirstLabel(q) \in Labels
  BY DEF FirstLabel, Labels
<1>3. pc' \in [Handlers -> Labels] /\ req' \in [Handlers -> Requests \cup {NoRequest}]
  BY <1>1, <1>2 DEF Goto, TypeOK
<1>4. QED
  BY <1>1, <1>3 DEF TypeOK, Accept, Goto, db, local, locks

LEMMA BeforeType ==
  ASSUME TypeOK, Serving, NEW h \in Handlers, Before(h)
  PROVE  TypeOK'
<1>1. CASE ResolveCommit(h)
  <2>1. CASE Goto(h, "settings") /\ UNCHANGED local
    BY <1>1, <2>1 DEF TypeOK, ResolveCommit, Goto, Labels, db, local, locks
  <2>2. CASE Refuse(h, CommitVerdict(req[h]))
    <3>1. CommitVerdict(req[h]) \in Codes
      BY <1>1, VerdictTypes DEF ResolveCommit
    <3>2. QED
      BY <1>1, <2>2, <3>1, RefuseType DEF ResolveCommit
  <2>3. QED
    BY <1>1, <2>1, <2>2 DEF ResolveCommit
<1>2. CASE ReadSettings(h)
  <2>1. ParseSettings(stored) \in Settings
    BY ParsedType DEF TypeOK
  <2>2. QED
    BY <1>2, <2>1 DEF TypeOK, ReadSettings, Goto, Labels, db, locks
<1>3. CASE ResolveAdjust(h)
  <2>1. CASE Goto(h, "begin") /\ UNCHANGED local
    BY <1>3, <2>1 DEF TypeOK, ResolveAdjust, Goto, Labels, db, local, locks
  <2>2. CASE Refuse(h, "CUSTOMER_DELETED")
    <3>1. "CUSTOMER_DELETED" \in Codes
      BY DEF Codes
    <3>2. QED
      BY <1>3, <2>2, <3>1, RefuseType DEF ResolveAdjust
  <2>3. QED
    BY <1>3, <2>1, <2>2 DEF ResolveAdjust
<1>4. CASE ResolveBlock(h)
  <2>1. CASE Goto(h, "update") /\ UNCHANGED local
    BY <1>4, <2>1 DEF TypeOK, ResolveBlock, Goto, Labels, db, local, locks
  <2>2. CASE Refuse(h, "CUSTOMER_DELETED")
    <3>1. "CUSTOMER_DELETED" \in Codes
      BY DEF Codes
    <3>2. QED
      BY <1>4, <2>2, <3>1, RefuseType DEF ResolveBlock
  <2>3. QED
    BY <1>4, <2>1, <2>2 DEF ResolveBlock
<1>5. CASE ResolveDelete(h)
  <2>1. CASE Goto(h, "update") /\ UNCHANGED local
    BY <1>5, <2>1 DEF TypeOK, ResolveDelete, Goto, Labels, db, local, locks
  <2>2. CASE Reply(h, NoAnswer)
    <3>1. "OK" \in Codes
      BY DEF Codes
    <3>2. QED
      BY <1>5, <2>2, <3>1, DbFrame, AnswerShape, AnswerType DEF ResolveDelete
  <2>3. QED
    BY <1>5, <2>1, <2>2 DEF ResolveDelete
<1>6. CASE Begin(h)
  BY <1>6 DEF TypeOK, Begin, FirstInTx, Goto, Labels, db, local
<1>7. CASE Connect(h)
  BY <1>7 DEF TypeOK, Connect, Goto, Labels, db, local
<1>8. QED
  BY <1>1, <1>2, <1>3, <1>4, <1>5, <1>6, <1>7 DEF Before

LEMMA ReadReceiptType ==
  ASSUME TypeOK, Serving, NEW h \in Handlers,
         ReadReceiptForCommit(h) \/ ReadReceiptForRefund(h)
  PROVE  TypeOK'
<1>1. /\ "OK" \in Codes /\ "DUPLICATE_RECEIPT" \in Codes
      /\ "INVALID_REQUEST" \in Codes
  BY DEF Codes
<1>2. CASE ReadReceiptForCommit(h)
  <2> DEFINE r == receipts[req[h].receipt]
  <2>1. r \in Receipt
    BY <1>2, RequestShape DEF ReadReceiptForCommit, Serving, TypeOK
  <2>2. r.after \in Int /\ r.earn \in Int
    BY <2>1 DEF Receipt
  <2>3. CASE Goto(h, "lock") /\ UNCHANGED <<local, locks>>
    BY <1>2, <2>3 DEF TypeOK, ReadReceiptForCommit, Goto, Labels, db, local, locks
  <2>4. CASE Reply(h, ReplayCommit(r)) /\ EndTx(h)
    BY <1>1, <1>2, <2>2, <2>4, DbFrame, AnswerShape, AnswerType
      DEF ReadReceiptForCommit, ReplayCommit
  <2>5. CASE Refuse(h, "DUPLICATE_RECEIPT") /\ EndTx(h)
    BY <1>1, <1>2, <2>5, RefuseType DEF ReadReceiptForCommit
  <2>6. QED
    BY <1>2, <2>3, <2>4, <2>5 DEF ReadReceiptForCommit
<1>3. CASE ReadReceiptForRefund(h)
  <2> DEFINE r == receipts[req[h].receipt]
  <2>1. r \in Receipt
    BY <1>3, RequestShape DEF ReadReceiptForRefund, Serving, TypeOK
  <2>2. r.afterRefund \in Int
    BY <2>1 DEF Receipt
  <2>3. CASE rec' = [rec EXCEPT ![h] = r] /\ Goto(h, "lock") /\ UNCHANGED <<st, seen, locks>>
    BY <1>3, <2>1, <2>3 DEF TypeOK, ReadReceiptForRefund, Goto, Labels, db, locks
  <2>4. CASE Reply(h, ReplayRefund(r)) /\ EndTx(h)
    BY <1>1, <1>3, <2>2, <2>4, DbFrame, AnswerShape, AnswerType
      DEF ReadReceiptForRefund, ReplayRefund
  <2>5. CASE Refuse(h, "INVALID_REQUEST") /\ EndTx(h)
    BY <1>1, <1>3, <2>5, RefuseType DEF ReadReceiptForRefund
  <2>6. QED
    BY <1>3, <2>3, <2>4, <2>5 DEF ReadReceiptForRefund
<1>4. QED
  BY <1>2, <1>3

LEMMA LockType ==
  ASSUME TypeOK, Serving, ReceiptsSound, NEW h \in Handlers, Lock(h)
  PROVE  TypeOK'
<1>1. CardOf(h) \in Customers
  BY CardKnown DEF Lock
<1>2. LockVerdict(h) \in Codes
  BY <1>1, VerdictTypes DEF Lock
<1>3. CASE LockVerdict(h) = "OK"
  <2>1. holder' \in [Customers -> Handlers \cup {NoHandler}]
    BY <1>3 DEF TypeOK, Lock, TakeRow
  <2>2. points[CardOf(h)] \in Int
    BY <1>1 DEF TypeOK
  <2>3. QED
    BY <1>3, <2>1, <2>2 DEF TypeOK, Lock, Goto, Labels, db
<1>4. CASE LockVerdict(h) # "OK"
  BY <1>2, <1>4, RefuseType DEF Lock
<1>5. QED
  BY <1>3, <1>4

LEMMA WriteType ==
  ASSUME TypeOK, Serving, ReceiptsSound, NEW h \in Handlers,
         WriteCommit(h) \/ WriteRefund(h) \/ WriteAdjust(h)
  PROVE  TypeOK'
<1>1. "OK" \in Codes /\ "DUPLICATE_KEY" \in Codes /\ "OUT_OF_RANGE" \in Codes
  BY DEF Codes
<1>2. pc[h] = "write" /\ req[h] \in Requests
  BY DEF WriteCommit, KeyTaken, WriteRefund, WriteAdjust, Serving
<1>3. CASE WriteCommit(h)
  <2>1. /\ EarnOf(h) \in Int /\ AfterCommit(h) \in Int
        /\ Purchase(req[h], EarnOf(h), AfterCommit(h)) \in Receipt
    BY <1>3, PurchaseTypes DEF WriteCommit, KeyTaken
  <2>2. req[h].card \in Customers /\ req[h].receipt \in ReceiptIds /\ req[h].redeem \in Int
    BY <1>2, <1>3, RequestShape DEF WriteCommit, KeyTaken
  <2>3. CASE receipts' # receipts
    <3>1. /\ receipts' = [receipts EXCEPT ![req[h].receipt] =
                            Purchase(req[h], EarnOf(h), AfterCommit(h))]
          /\ Post(req[h].card, req[h].receipt, PurchaseDeltas(req[h], EarnOf(h)))
          /\ SetPoints(req[h].card, AfterCommit(h))
          /\ Reply(h, Result(AfterCommit(h), EarnOf(h), FALSE))
          /\ UNCHANGED <<blocked, deleted, stored>>
      BY <1>3, <2>3 DEF WriteCommit, KeyTaken, db
    <3>2. /\ entries' \in [ReceiptIds -> [Reasons -> Int]]
          /\ ledgerSum' \in [Customers -> Int]
      BY <2>1, <2>2, <3>1, PurchaseDeltasType, PostType
    <3>3. receipts' \in [ReceiptIds -> Receipt] /\ points' \in [Customers -> Int]
      BY <2>1, <2>2, <3>1 DEF TypeOK, SetPoints
    <3>4. DbType'
      BY <3>1, <3>2, <3>3, DbTyped DEF DbType
    <3>5. EndTx(h) /\ req' = req
      BY <1>3 DEF WriteCommit, KeyTaken
    <3>6. QED
      BY <1>1, <2>1, <3>1, <3>4, <3>5, AnswerShape, AnswerType
  <2>4. CASE UNCHANGED db /\ (Refuse(h, "DUPLICATE_KEY") \/ Refuse(h, "OUT_OF_RANGE"))
    BY <1>1, <1>3, <2>4, RefuseType DEF WriteCommit, KeyTaken
  <2>5. CASE receipts' = [receipts EXCEPT ![req[h].receipt] =
                            Purchase(req[h], EarnOf(h), AfterCommit(h))]
             /\ receipts[req[h].receipt].status = "absent"
    <3>1. receipts' # receipts
      BY <2>2, <2>5 DEF Purchase, TypeOK
    <3>2. QED
      BY <2>3, <3>1
  <2>6. QED
    BY <1>3, <2>4, <2>5 DEF WriteCommit, KeyTaken
<1>4. CASE WriteRefund(h)
  <2> DEFINE r     == req[h].receipt
             c     == rec[h].card
             after == AfterRefund(seen[h], rec[h])
  <2>1. r \in ReceiptIds /\ c \in Customers
    BY <1>2, <1>4, CopySold DEF WriteRefund, Sold
  <2>2. after \in Int /\ RefundDeltas(seen[h], rec[h]) \in [Reasons -> Int]
    BY RefundTypes DEF TypeOK
  <2>3. CASE Refuse(h, "OUT_OF_RANGE") /\ UNCHANGED db
    BY <1>1, <1>4, <2>3, RefuseType DEF WriteRefund
  <2>4. CASE /\ Post(c, r, RefundDeltas(seen[h], rec[h]))
             /\ SetPoints(c, after)
             /\ MarkRefunded(r, after)
             /\ Reply(h, Result(after, 0, FALSE))
             /\ UNCHANGED <<blocked, deleted, stored>>
    <3>1. /\ entries' \in [ReceiptIds -> [Reasons -> Int]]
          /\ ledgerSum' \in [Customers -> Int]
      BY <2>1, <2>2, <2>4, PostType
    <3>2. [receipts[r] EXCEPT !.status = "refunded", !.afterRefund = after] \in Receipt
      <4> HIDE DEF after
      <4>1. receipts[r] \in Receipt
        BY <2>1 DEF TypeOK
      <4>2. QED
        BY <2>2, <4>1 DEF Receipt, Statuses
    <3>3. receipts' \in [ReceiptIds -> Receipt] /\ points' \in [Customers -> Int]
      BY <2>1, <2>2, <2>4, <3>2 DEF TypeOK, SetPoints, MarkRefunded
    <3>4. DbType'
      BY <2>4, <3>1, <3>3, DbTyped DEF DbType
    <3>5. EndTx(h) /\ req' = req
      BY <1>4 DEF WriteRefund
    <3>6. QED
      BY <1>1, <2>2, <2>4, <3>4, <3>5, AnswerShape, AnswerType
  <2>5. QED
    BY <1>4, <2>3, <2>4 DEF WriteRefund
<1>5. CASE WriteAdjust(h)
  <2> DEFINE next == seen[h] + req[h].delta
  <2>1. req[h].card \in Customers /\ req[h].delta \in Int /\ next \in Int
    BY <1>2, <1>5, RequestShape DEF WriteAdjust, TypeOK
  <2>2. CASE Refuse(h, "OUT_OF_RANGE") /\ UNCHANGED db
    BY <1>1, <1>5, <2>2, RefuseType DEF WriteAdjust
  <2>3. CASE /\ ledgerSum' = [ledgerSum EXCEPT ![req[h].card] = @ + req[h].delta]
             /\ SetPoints(req[h].card, next)
             /\ Reply(h, Result(next, 0, FALSE))
             /\ UNCHANGED <<blocked, deleted, receipts, entries, stored>>
    <3>1. DbType'
      BY <2>1, <2>3, DbTyped DEF DbType, SetPoints
    <3>2. EndTx(h) /\ req' = req
      BY <1>5 DEF WriteAdjust
    <3>3. QED
      BY <1>1, <2>1, <2>3, <3>1, <3>2, AnswerShape, AnswerType
  <2>4. QED
    BY <1>5, <2>2, <2>3 DEF WriteAdjust
<1>6. QED
  BY <1>3, <1>4, <1>5

LEMMA CardAndSettingsType ==
  ASSUME TypeOK, Serving, NEW h \in Handlers, UpdateCard(h) \/ PutSettings(h)
  PROVE  TypeOK'
<1>1. "OK" \in Codes
  BY DEF Codes
<1>2. req[h] \in Requests
  BY DEF UpdateCard, PutSettings, Serving
<1>3. CASE UpdateCard(h)
  <2>1. blocked' \in [Customers -> BOOLEAN] /\ deleted' \in [Customers -> BOOLEAN]
    BY <1>2, <1>3, RequestShape DEF UpdateCard, TypeOK
  <2>2. DbType'
    BY <1>3, <2>1, DbTyped DEF UpdateCard, DbType
  <2>3. QED
    BY <1>1, <1>3, <2>2, AnswerShape, AnswerType DEF UpdateCard
<1>4. CASE PutSettings(h)
  <2>1. stored' \in [SettingKeys -> StoredValue]
    BY <1>2, <1>4, RequestShape DEF PutSettings, Upsert, TypeOK
  <2>2. DbType'
    BY <1>4, <2>1, DbTyped DEF PutSettings, DbType
  <2>3. QED
    BY <1>1, <1>4, <2>2, AnswerShape, AnswerType DEF PutSettings
<1>5. QED
  BY <1>3, <1>4

LEMMA EndType ==
  ASSUME TypeOK, NEW h \in Handlers, Respond(h) \/ Drop(h)
  PROVE  TypeOK'
<1>1. CASE Respond(h)
  BY <1>1, AnswerShape DEF TypeOK, Respond, Labels, db, local, locks
<1>2. CASE Drop(h)
  BY <1>2, ConstantTypes, EndTxType DEF TypeOK, Drop, Labels, Forget, db
<1>3. QED
  BY <1>1, <1>2

(* Every step keeps the types.                                             *)
LEMMA TypeStep ==
  ASSUME TypeOK, Serving, ReceiptsSound, [Next]_vars
  PROVE  TypeOK'
<1>1. CASE UNCHANGED vars
  BY <1>1 DEF TypeOK, vars, db, local, locks
<1>2. ASSUME NEW h \in Handlers, Accept(h) \/ Work(h) \/ Drop(h)
      PROVE  TypeOK'
  BY <1>2, AcceptType, BeforeType, ReadReceiptType, LockType, WriteType,
     CardAndSettingsType, EndType DEF Work, Inside
<1>3. QED
  BY <1>1, <1>2 DEF Next

-----------------------------------------------------------------------------
(* Every label is reached with the requests it is for.                     *)

LEMMA ReplyServes ==
  ASSUME TypeOK, Serving, NEW h \in Handlers, NEW a, Reply(h, a),
         pc[h] # "idle", req' = req
  PROVE  Serving'
  BY DEF TypeOK, Serving, Reply

LEMMA ServingStep ==
  ASSUME TypeOK, Serving, [Next]_vars
  PROVE  Serving'
<1>1. CASE UNCHANGED vars
  BY <1>1 DEF Serving, vars
<1>2. ASSUME NEW h \in Handlers, Accept(h)
      PROVE  Serving'
  <2>1. PICK q \in Requests : /\ req' = [req EXCEPT ![h] = q]
                             /\ Goto(h, FirstLabel(q))
    BY <1>2 DEF Accept
  <2>2. /\ FirstLabel(q) \in {"resolve", "begin", "put"}
        /\ FirstLabel(q) = "begin" => q.op = "refund"
    BY DEF FirstLabel
  <2>3. QED
    BY <2>1, <2>2 DEF TypeOK, Serving, Goto
<1>3. ASSUME NEW h \in Handlers, Before(h)
      PROVE  Serving'
  <2>1. pc[h] # "idle" /\ req' = req
    BY <1>3 DEF Before, ResolveCommit, ReadSettings, ResolveAdjust, ResolveBlock,
                ResolveDelete, Begin, Connect, FirstInTx
  <2>2. CASE ResolveCommit(h)
    BY <2>1, <2>2, ReplyServes DEF TypeOK, Serving, ResolveCommit, Goto, Refuse
  <2>3. CASE ReadSettings(h)
    BY <2>1, <2>3 DEF TypeOK, Serving, ReadSettings, Goto
  <2>4. CASE ResolveAdjust(h)
    BY <2>1, <2>4, ReplyServes DEF TypeOK, Serving, ResolveAdjust, Goto, Refuse
  <2>5. CASE ResolveBlock(h)
    BY <2>1, <2>5, ReplyServes DEF TypeOK, Serving, ResolveBlock, Goto, Refuse
  <2>6. CASE ResolveDelete(h)
    BY <2>1, <2>6, ReplyServes DEF TypeOK, Serving, ResolveDelete, Goto
  <2>7. CASE Begin(h)
    BY <2>1, <2>7 DEF TypeOK, Serving, Begin, FirstInTx, Goto
  <2>8. CASE Connect(h)
    BY <2>1, <2>8 DEF TypeOK, Serving, Connect, Goto
  <2>9. QED
    BY <1>3, <2>2, <2>3, <2>4, <2>5, <2>6, <2>7, <2>8 DEF Before
<1>4. ASSUME NEW h \in Handlers, Inside(h)
      PROVE  Serving'
  <2>1. pc[h] # "idle" /\ req' = req
    BY <1>4 DEF Inside, ReadReceiptForCommit, ReadReceiptForRefund, Lock,
                WriteCommit, KeyTaken, WriteRefund, WriteAdjust
  <2>2. CASE ReadReceiptForCommit(h)
    BY <2>1, <2>2, ReplyServes DEF TypeOK, Serving, ReadReceiptForCommit, Goto, Refuse
  <2>3. CASE ReadReceiptForRefund(h)
    BY <2>1, <2>3, ReplyServes DEF TypeOK, Serving, ReadReceiptForRefund, Goto, Refuse
  <2>4. CASE Lock(h)
    BY <2>1, <2>4, ReplyServes DEF TypeOK, Serving, Lock, Goto, Refuse
  <2>5. CASE WriteCommit(h) \/ WriteRefund(h) \/ WriteAdjust(h)
    BY <2>1, <2>5, ReplyServes DEF WriteCommit, KeyTaken, WriteRefund, WriteAdjust, Refuse
  <2>6. QED
    BY <1>4, <2>2, <2>3, <2>4, <2>5 DEF Inside
<1>5. ASSUME NEW h \in Handlers, UpdateCard(h) \/ PutSettings(h)
      PROVE  Serving'
  BY <1>5, ReplyServes DEF UpdateCard, PutSettings
<1>6. ASSUME NEW h \in Handlers, Respond(h) \/ Drop(h)
      PROVE  Serving'
  BY <1>6 DEF TypeOK, Serving, Respond, Drop
<1>7. QED
  BY <1>1, <1>2, <1>3, <1>4, <1>5, <1>6 DEF Next, Work

-----------------------------------------------------------------------------
(* Receipts, and the copies refunds hold of them, are purchases.           *)

(* The checks before the writes survive to the writes.                     *)
LEMMA SaleSold ==
  ASSUME TypeOK, Serving, Fresh, NEW h \in Handlers, pc[h] = "write",
         req[h].op = "commit"
  PROVE  /\ Sold(Purchase(req[h], EarnOf(h), AfterCommit(h)))
         /\ Purchase(req[h], EarnOf(h), AfterCommit(h)).status # "absent"
<1>1. EarnOf(h) \in Nat
  BY PurchaseTypes
<1>2. req[h].card \in Customers /\ 0 <= req[h].redeem /\ req[h].redeem \in Int
  BY RequestShape DEF Serving, Fresh
<1>3. QED
  BY <1>1, <1>2 DEF Sold, Purchase

(* A handler that answers leaves no copy behind it.                        *)
LEMMA ReplySound ==
  ASSUME TypeOK, ReceiptsSound, NEW h \in Handlers, NEW a, Reply(h, a),
         req' = req, receipts' = receipts
  PROVE  ReceiptsSound'
  BY DEF TypeOK, ReceiptsSound, Reply, Forget, Sold, Copies

LEMMA ReceiptsSoundStep ==
  ASSUME TypeOK, Serving, ReceiptsSound, Fresh, [Next]_vars
  PROVE  ReceiptsSound'
<1>1. CASE UNCHANGED vars
  BY <1>1 DEF ReceiptsSound, Sold, Copies, vars, db, local
<1>2. ASSUME NEW h \in Handlers, Accept(h)
      PROVE  ReceiptsSound'
  BY <1>2 DEF TypeOK, ReceiptsSound, Sold, Copies, Accept, Goto, FirstLabel, db, local
<1>3. ASSUME NEW h \in Handlers, Before(h)
      PROVE  ReceiptsSound'
  <2>1. receipts' = receipts /\ req' = req
    BY <1>3 DEF Before, ResolveCommit, ReadSettings, ResolveAdjust, ResolveBlock,
                ResolveDelete, Begin, Connect, FirstInTx, db
  <2>2. CASE ResolveCommit(h)
    BY <2>1, <2>2, ReplySound DEF TypeOK, ReceiptsSound, Sold, Copies, ResolveCommit, Goto, Refuse, local
  <2>3. CASE ReadSettings(h)
    BY <2>1, <2>3 DEF TypeOK, ReceiptsSound, Sold, Copies, ReadSettings, Goto
  <2>4. CASE ResolveAdjust(h)
    BY <2>1, <2>4, ReplySound DEF TypeOK, ReceiptsSound, Sold, Copies, ResolveAdjust, Goto, Refuse, local
  <2>5. CASE ResolveBlock(h)
    BY <2>1, <2>5, ReplySound DEF TypeOK, ReceiptsSound, Sold, Copies, ResolveBlock, Goto, Refuse, local
  <2>6. CASE ResolveDelete(h)
    BY <2>1, <2>6, ReplySound DEF TypeOK, ReceiptsSound, Sold, Copies, ResolveDelete, Goto, local
  <2>7. CASE Begin(h)
    <3>1. req[h].op = "adjust" <=> pc'[h] = "lock"
      BY <2>7 DEF TypeOK, Begin, FirstInTx, Goto
    <3>2. pc'[h] # "write" /\ \A g \in Handlers \ {h} : pc'[g] = pc[g]
      BY <2>7 DEF TypeOK, Begin, FirstInTx, Goto
    <3>3. rec' = rec
      BY <2>7 DEF Begin, FirstInTx, local
    <3>4. QED
      BY <2>1, <3>1, <3>2, <3>3 DEF ReceiptsSound, Sold, Copies
  <2>8. CASE Connect(h)
    BY <2>1, <2>8 DEF TypeOK, ReceiptsSound, Sold, Copies, Connect, Goto, local
  <2>9. QED
    BY <1>3, <2>2, <2>3, <2>4, <2>5, <2>6, <2>7, <2>8 DEF Before
<1>4. ASSUME NEW h \in Handlers, Inside(h)
      PROVE  ReceiptsSound'
  <2>1. CASE ReadReceiptForCommit(h)
    BY <2>1, ReplySound
       DEF TypeOK, ReceiptsSound, Sold, Copies, ReadReceiptForCommit, Goto, Refuse, db, local
  <2>2. CASE ReadReceiptForRefund(h)
    <3>1. receipts' = receipts /\ req' = req
      BY <2>2 DEF ReadReceiptForRefund, db
    <3>2. CASE receipts[req[h].receipt].status # "committed"
      BY <2>2, <3>1, <3>2, ReplySound DEF ReadReceiptForRefund, Refuse
    <3>3. CASE receipts[req[h].receipt].status = "committed"
      <4>1. req[h].receipt \in ReceiptIds
        BY <2>2, RequestShape DEF ReadReceiptForRefund, Serving
      <4>3. /\ rec' = [rec EXCEPT ![h] = receipts[req[h].receipt]]
            /\ pc' = [pc EXCEPT ![h] = "lock"]
        BY <2>2, <3>3 DEF ReadReceiptForRefund, Goto
      <4>4. QED
        BY <3>1, <3>3, <4>1, <4>3 DEF TypeOK, ReceiptsSound, Sold, Copies
    <3>4. QED
      BY <3>2, <3>3
  <2>3. CASE Lock(h)
    BY <2>3, ReplySound DEF TypeOK, ReceiptsSound, Sold, Copies, Lock, Goto, Refuse, db
  <2>4. CASE receipts' = receipts /\ (WriteCommit(h) \/ WriteRefund(h) \/ WriteAdjust(h))
    BY <2>4, ReplySound DEF WriteCommit, KeyTaken, WriteRefund, WriteAdjust, Refuse
  <2>5. CASE receipts' # receipts /\ WriteCommit(h)
    <3> DEFINE r == req[h].receipt
               p == Purchase(req[h], EarnOf(h), AfterCommit(h))
    <3>1. /\ receipts' = [receipts EXCEPT ![r] = p]
          /\ Reply(h, Result(AfterCommit(h), EarnOf(h), FALSE)) /\ req' = req
      BY <2>5 DEF WriteCommit, KeyTaken, db
    <3>2. Sold(p) /\ p.status # "absent"
      BY <2>5, SaleSold DEF WriteCommit, KeyTaken
    <3> HIDE DEF p
    <3>3. \A x \in ReceiptIds : IF receipts'[x].status = "absent"
                               THEN receipts'[x] = NoReceipt
                               ELSE Sold(receipts'[x])
      BY <3>1, <3>2 DEF TypeOK, ReceiptsSound
    <3>4. \A g \in Handlers : pc'[g] \in {"lock", "write"} /\ req'[g].op = "refund"
                             => Copies(rec'[g], receipts'[req'[g].receipt])
      <4> SUFFICES ASSUME NEW g \in Handlers,
                          pc'[g] \in {"lock", "write"}, req'[g].op = "refund"
                   PROVE  Copies(rec'[g], receipts'[req'[g].receipt])
        OBVIOUS
      <4>1. g # h /\ pc'[g] = pc[g] /\ rec'[g] = rec[g] /\ req'[g] = req[g]
        BY <3>1 DEF TypeOK, Reply, Forget
      <4>2. /\ Copies(rec[g], receipts[req[g].receipt])
            /\ req[g].receipt \in ReceiptIds
        BY <4>1, CopySold DEF ReceiptsSound
      <4>3. receipts[r].status = "absent"
        BY <2>5 DEF WriteCommit, KeyTaken, db
      <4>4. receipts'[req[g].receipt] = receipts[req[g].receipt]
        BY <3>1, <4>2, <4>3 DEF TypeOK, Copies
      <4>5. QED
        BY <4>1, <4>2, <4>4
    <3>5. QED
      BY <3>3, <3>4 DEF ReceiptsSound, Sold, Copies
  <2>6. CASE receipts' # receipts /\ WriteRefund(h)
    <3> DEFINE r     == req[h].receipt
               after == AfterRefund(seen[h], rec[h])
    <3>1. /\ receipts' = [receipts EXCEPT ![r].status = "refunded", ![r].afterRefund = after]
          /\ Reply(h, Result(after, 0, FALSE)) /\ req' = req
      BY <2>6 DEF WriteRefund, MarkRefunded, db
    <3>2. receipts[r].status # "absent" /\ r \in ReceiptIds
      BY <2>6, CopySold DEF WriteRefund, ReceiptsSound, Copies
    <3> HIDE DEF after
    <3>3. ASSUME NEW x \in ReceiptIds
          PROVE  /\ receipts'[x].card = receipts[x].card
                 /\ receipts'[x].redeem = receipts[x].redeem
                 /\ receipts'[x].earn = receipts[x].earn
                 /\ receipts[x].status # "absent" => receipts'[x].status # "absent"
                 /\ receipts[x].status = "absent" => receipts'[x] = receipts[x]
      <4>1. receipts[r] \in Receipt
        BY <3>2 DEF TypeOK
      <4>2. receipts'[r] = [receipts[r] EXCEPT !.status = "refunded", !.afterRefund = after]
        BY <3>1, <3>2 DEF TypeOK
      <4>3. CASE x = r
        BY <3>2, <4>1, <4>2, <4>3 DEF Receipt
      <4>4. CASE x # r
        BY <3>1, <3>2, <4>4 DEF TypeOK
      <4>5. QED
        BY <4>3, <4>4
    <3>4. ASSUME NEW x \in ReceiptIds
          PROVE  IF receipts'[x].status = "absent"
                 THEN receipts'[x] = NoReceipt ELSE Sold(receipts'[x])
      <4>1. IF receipts[x].status = "absent"
            THEN receipts[x] = NoReceipt ELSE Sold(receipts[x])
        BY DEF ReceiptsSound
      <4>2. QED
        BY <3>3, <4>1 DEF Sold
    <3>5. \A g \in Handlers : pc'[g] \in {"lock", "write"} /\ req'[g].op = "refund"
                             => Copies(rec'[g], receipts'[req'[g].receipt])
      <4> SUFFICES ASSUME NEW g \in Handlers,
                          pc'[g] \in {"lock", "write"}, req'[g].op = "refund"
                   PROVE  Copies(rec'[g], receipts'[req'[g].receipt])
        OBVIOUS
      <4>1. g # h /\ pc'[g] = pc[g] /\ rec'[g] = rec[g] /\ req'[g] = req[g]
        BY <3>1 DEF TypeOK, Reply, Forget
      <4>2. /\ Copies(rec[g], receipts[req[g].receipt])
            /\ req[g].receipt \in ReceiptIds
        BY <4>1, CopySold DEF ReceiptsSound
      <4>3. QED
        BY <3>3, <4>1, <4>2 DEF Copies
    <3>6. QED
      BY <3>4, <3>5 DEF ReceiptsSound, Sold, Copies
  <2>7. QED
    BY <1>4, <2>1, <2>2, <2>3, <2>4, <2>5, <2>6 DEF Inside, WriteAdjust, db
<1>5. ASSUME NEW h \in Handlers, UpdateCard(h) \/ PutSettings(h)
      PROVE  ReceiptsSound'
  BY <1>5, ReplySound DEF UpdateCard, PutSettings
<1>6. ASSUME NEW h \in Handlers, Respond(h) \/ Drop(h)
      PROVE  ReceiptsSound'
  BY <1>6 DEF TypeOK, ReceiptsSound, Sold, Copies, Respond, Drop, Forget, db, local
<1>7. QED
  BY <1>1, <1>2, <1>3, <1>4, <1>5, <1>6 DEF Next, Work

-----------------------------------------------------------------------------
(* How one handler's step touches the others.                              *)

Step(h) == Accept(h) \/ Work(h) \/ Drop(h)

(* Handlers share the tables and the locks, never their locals.            *)
LEMMA OthersKept ==
  ASSUME TypeOK, NEW h \in Handlers, Step(h), NEW g \in Handlers, g # h
  PROVE  /\ pc'[g] = pc[g] /\ req'[g] = req[g] /\ rec'[g] = rec[g]
         /\ seen'[g] = seen[g] /\ st'[g] = st[g] /\ answer'[g] = answer[g]
<1> USE DEF Goto, Reply, Refuse, Forget, local
<1>1. CASE Accept(h)
  BY <1>1 DEF TypeOK, Accept
<1>2. CASE Before(h)
  BY <1>2 DEF TypeOK, Before, ResolveCommit, ReadSettings, ResolveAdjust,
              ResolveBlock, ResolveDelete, Begin, Connect, FirstInTx
<1>3. CASE ReadReceiptForCommit(h) \/ ReadReceiptForRefund(h) \/ Lock(h)
  BY <1>3 DEF TypeOK, ReadReceiptForCommit, ReadReceiptForRefund, Lock
<1>4. CASE WriteCommit(h) \/ WriteRefund(h) \/ WriteAdjust(h)
  BY <1>4 DEF TypeOK, WriteCommit, KeyTaken, WriteRefund, WriteAdjust
<1>5. CASE UpdateCard(h) \/ PutSettings(h) \/ Respond(h) \/ Drop(h)
  BY <1>5 DEF TypeOK, UpdateCard, PutSettings, Respond, Drop
<1>6. QED
  BY <1>1, <1>2, <1>3, <1>4, <1>5 DEF Step, Work, Inside

(* Only the lock leads to the writes, and only the writes change balances, *)
(* ledger or receipts.                                                     *)
LEMMA LockLeadsToWrite ==
  ASSUME TypeOK, NEW h \in Handlers, Step(h), pc'[h] = "write"
  PROVE  Lock(h)
<1> USE DEF Goto, Reply, Refuse
<1>1. ~Accept(h)
  BY DEF TypeOK, Accept, FirstLabel
<1>2. ~Before(h)
  BY DEF TypeOK, Before, ResolveCommit, ReadSettings, ResolveAdjust,
         ResolveBlock, ResolveDelete, Begin, Connect, FirstInTx
<1>3. ~(ReadReceiptForCommit(h) \/ ReadReceiptForRefund(h))
  BY DEF TypeOK, ReadReceiptForCommit, ReadReceiptForRefund
<1>4. ~(WriteCommit(h) \/ WriteRefund(h) \/ WriteAdjust(h))
  BY DEF TypeOK, WriteCommit, KeyTaken, WriteRefund, WriteAdjust
<1>5. ~(UpdateCard(h) \/ PutSettings(h) \/ Respond(h) \/ Drop(h))
  BY DEF TypeOK, UpdateCard, PutSettings, Respond, Drop
<1>6. QED
  BY <1>1, <1>2, <1>3, <1>4, <1>5 DEF Step, Work, Inside

Writes(h) == WriteCommit(h) \/ WriteRefund(h) \/ WriteAdjust(h)

LEMMA OnlyWritesWrite ==
  ASSUME NEW h \in Handlers, Step(h), ~Writes(h)
  PROVE  UNCHANGED <<points, receipts, ledgerSum, entries>>
<1>1. CASE Accept(h)
  BY <1>1 DEF Accept, db
<1>2. CASE Before(h)
  BY <1>2 DEF Before, ResolveCommit, ReadSettings, ResolveAdjust,
              ResolveBlock, ResolveDelete, Begin, Connect, FirstInTx, db
<1>3. CASE ReadReceiptForCommit(h) \/ ReadReceiptForRefund(h) \/ Lock(h)
  BY <1>3 DEF ReadReceiptForCommit, ReadReceiptForRefund, Lock, db
<1>4. CASE UpdateCard(h) \/ PutSettings(h) \/ Respond(h) \/ Drop(h)
  BY <1>4 DEF UpdateCard, PutSettings, Respond, Drop, db
<1>5. QED
  BY <1>1, <1>2, <1>3, <1>4 DEF Step, Work, Inside, Writes

(* A write touches the balance of the locked card only.                    *)
LEMMA WriteTouchesItsCard ==
  ASSUME TypeOK, NEW h \in Handlers, Writes(h), NEW c \in Customers, c # CardOf(h)
  PROVE  points'[c] = points[c] /\ ledgerSum'[c] = ledgerSum[c]
<1>1. CASE WriteCommit(h)
  BY <1>1 DEF TypeOK, WriteCommit, KeyTaken, SetPoints, Post, CardOf, db
<1>2. CASE WriteRefund(h)
  BY <1>2 DEF TypeOK, WriteRefund, SetPoints, Post, CardOf, db
<1>3. CASE WriteAdjust(h)
  BY <1>3 DEF TypeOK, WriteAdjust, SetPoints, CardOf, db
<1>4. QED
  BY <1>1, <1>2, <1>3 DEF Writes

-----------------------------------------------------------------------------
(* The pool: a connection per open transaction, never more than allowed.   *)

LEMMA PooledKept ==
  ASSUME TypeOK, Pooled, NEW h \in Handlers, NEW label,
         pc' = [pc EXCEPT ![h] = label], inTx' = inTx,
         InTransaction(h) <=> label \in {"receipt", "lock", "write", "row"}
  PROVE  Pooled'
<1>1. \A g \in Handlers : InTransaction(g)' <=> InTransaction(g)
  BY DEF TypeOK, InTransaction
<1>2. QED
  BY <1>1 DEF Pooled

LEMMA PooledEnd ==
  ASSUME TypeOK, Pooled, NEW h \in Handlers, NEW label,
         pc' = [pc EXCEPT ![h] = label], EndTx(h),
         label \notin {"receipt", "lock", "write", "row"}
  PROVE  Pooled'
<1>1. \A g \in Handlers : InTransaction(g)' <=> InTransaction(g) /\ g # h
  BY DEF TypeOK, InTransaction
<1>2. inTx' = {g \in Handlers : InTransaction(g)'}
  BY <1>1 DEF Pooled, EndTx
<1>3. IsFiniteSet(inTx) /\ inTx' \subseteq inTx
  BY HandlersAssumption, FS_Subset DEF TypeOK, EndTx
<1>4. Cardinality(inTx') <= Cardinality(inTx) /\ Cardinality(inTx') \in Nat
      /\ Cardinality(inTx) \in Nat
  BY <1>3, FS_Subset, FS_CardinalityType
<1>5. Cardinality(inTx') <= MaxOpenConns
  BY <1>4, PoolAssumption DEF Pooled
<1>6. QED
  BY <1>2, <1>5 DEF Pooled

LEMMA PooledBegin ==
  ASSUME TypeOK, Pooled, NEW h \in Handlers, Begin(h) \/ Connect(h)
  PROVE  Pooled'
<1> DEFINE label == IF pc[h] = "begin" THEN FirstInTx(h) ELSE "row"
<1>1. /\ inTx' = inTx \cup {h}
      /\ pc' = [pc EXCEPT ![h] = label]
      /\ Cardinality(inTx) < MaxOpenConns
  BY DEF Begin, Connect, Goto, ConnectionFree
<1>9. label \in {"receipt", "lock", "write", "row"}
  BY DEF FirstInTx
<1> HIDE DEF label
<1>2. \A g \in Handlers : InTransaction(g)' <=> InTransaction(g) \/ g = h
  BY <1>1, <1>9 DEF TypeOK, InTransaction
<1>3. inTx' = {g \in Handlers : InTransaction(g)'}
  BY <1>1, <1>2 DEF Pooled
<1>4. IsFiniteSet(inTx)
  BY HandlersAssumption, FS_Subset DEF TypeOK
<1>5. h \notin inTx
  BY DEF Pooled, InTransaction, Begin, Connect
<1>6. Cardinality(inTx') = Cardinality(inTx) + 1 /\ Cardinality(inTx) \in Nat
  BY <1>1, <1>4, <1>5, FS_AddElement, FS_CardinalityType
<1>7. Cardinality(inTx') <= MaxOpenConns
  BY <1>1, <1>6, PoolAssumption
<1>8. QED
  BY <1>3, <1>7 DEF Pooled

LEMMA PooledStep ==
  ASSUME TypeOK, Pooled, [Next]_vars
  PROVE  Pooled'
<1> USE DEF Goto, Reply, Refuse
<1>1. CASE UNCHANGED vars
  BY <1>1 DEF Pooled, InTransaction, vars, locks
<1>2. ASSUME NEW h \in Handlers, Accept(h)
      PROVE  Pooled'
  BY <1>2, PooledKept DEF Accept, FirstLabel, InTransaction, locks
<1>3. ASSUME NEW h \in Handlers, Before(h)
      PROVE  Pooled'
  <2>1. CASE Begin(h) \/ Connect(h)
    BY <2>1, PooledBegin
  <2>2. CASE ~(Begin(h) \/ Connect(h))
    BY <1>3, <2>2, PooledKept
       DEF Before, ResolveCommit, ReadSettings, ResolveAdjust, ResolveBlock,
           ResolveDelete, InTransaction, locks
  <2>3. QED
    BY <2>1, <2>2
<1>4. ASSUME NEW h \in Handlers, ReadReceiptForCommit(h) \/ ReadReceiptForRefund(h) \/ Lock(h)
      PROVE  Pooled'
  BY <1>4, PooledKept, PooledEnd
     DEF ReadReceiptForCommit, ReadReceiptForRefund, Lock, InTransaction, locks
<1>5. ASSUME NEW h \in Handlers,
             WriteCommit(h) \/ WriteRefund(h) \/ WriteAdjust(h) \/ UpdateCard(h)
      PROVE  Pooled'
  BY <1>5, PooledEnd DEF WriteCommit, KeyTaken, WriteRefund, WriteAdjust, UpdateCard
<1>6. ASSUME NEW h \in Handlers, PutSettings(h) \/ Respond(h)
      PROVE  Pooled'
  BY <1>6, PooledKept DEF PutSettings, Respond, InTransaction, locks
<1>7. ASSUME NEW h \in Handlers, Drop(h)
      PROVE  Pooled'
  BY <1>7, PooledEnd DEF Drop
<1>8. QED
  BY <1>1, <1>2, <1>3, <1>4, <1>5, <1>6, <1>7 DEF Next, Work, Inside

-----------------------------------------------------------------------------
(* Mutual exclusion on a card, by FOR UPDATE or by the single connection.  *)

(* With one connection there is one transaction.                           *)
LEMMA SingleTransaction ==
  ASSUME TypeOK, Pooled, MaxOpenConns = 1, NEW g \in inTx, NEW h \in inTx
  PROVE  g = h
<1>1. IsFiniteSet(inTx) /\ {g, h} \subseteq inTx
  BY HandlersAssumption, FS_Subset DEF TypeOK
<1>2. Cardinality({g, h}) <= 1
  BY <1>1, FS_Subset, FS_CardinalityType DEF Pooled
<1>3. ASSUME g # h PROVE FALSE
  <2>1. IsFiniteSet({h}) /\ Cardinality({h}) = 1
    BY FS_Singleton
  <2>2. {g, h} = {h} \cup {g}
    OBVIOUS
  <2>3. Cardinality({g, h}) = 2
    BY <1>3, <2>1, <2>2, FS_AddElement
  <2>4. QED
    BY <1>2, <2>3
<1>4. QED
  BY <1>3

(* While a handler is about to write a card, no other handler is, and none *)
(* can lock it.                                                            *)
LEMMA Exclusive ==
  ASSUME TypeOK, Pooled, RowsHeld, NEW g \in Handlers, NEW h \in Handlers,
         pc[g] = "write",
         \/ pc[h] = "write" /\ CardOf(g) = CardOf(h)
         \/ pc[h] = "lock" /\ RowFree(CardOf(h)) /\ CardOf(g) = CardOf(h)
  PROVE  g = h
<1>1. CASE ForUpdate
  BY <1>1, HandlersAssumption DEF RowsHeld, RowFree
<1>2. CASE ~ForUpdate
  <2>1. MaxOpenConns = 1
    BY <1>2, DriverAssumption
  <2>2. g \in inTx /\ h \in inTx
    BY DEF Pooled, InTransaction
  <2>3. QED
    BY <2>1, <2>2, SingleTransaction
<1>3. QED
  BY <1>1, <1>2

(* A row held by a handler stays held until that handler's own step.       *)
LEMMA HolderKept ==
  ASSUME TypeOK, NEW h \in Handlers, Step(h), NEW g \in Handlers, g # h,
         NEW c \in Customers, holder[c] = g
  PROVE  holder'[c] = g
<1>1. CASE Lock(h)
  <2>1. CASE TakeRow(h, CardOf(h))
    BY <1>1, <2>1, HandlersAssumption DEF TypeOK, Lock, TakeRow, RowFree
  <2>2. CASE EndTx(h)
    BY <2>2 DEF TypeOK, EndTx
  <2>3. QED
    BY <1>1, <2>1, <2>2 DEF Lock
<1>2. CASE holder' = holder
  BY <1>2
<1>3. CASE EndTx(h)
  BY <1>3 DEF TypeOK, EndTx
<1>4. CASE Accept(h) \/ PutSettings(h) \/ Respond(h)
  BY <1>2, <1>4 DEF Accept, PutSettings, Respond, locks
<1>5. CASE Before(h)
  BY <1>2, <1>5 DEF Before, ResolveCommit, ReadSettings, ResolveAdjust,
                    ResolveBlock, ResolveDelete, Begin, Connect, FirstInTx, locks
<1>6. CASE ReadReceiptForCommit(h) \/ ReadReceiptForRefund(h)
  BY <1>2, <1>3, <1>6 DEF ReadReceiptForCommit, ReadReceiptForRefund, locks
<1>7. CASE WriteCommit(h) \/ WriteRefund(h) \/ WriteAdjust(h) \/ UpdateCard(h) \/ Drop(h)
  BY <1>3, <1>7 DEF WriteCommit, KeyTaken, WriteRefund, WriteAdjust, UpdateCard, Drop
<1>8. QED
  BY <1>1, <1>4, <1>5, <1>6, <1>7 DEF Step, Work, Inside

(* A card about to be written is neither blocked nor deleted meanwhile.    *)
LEMMA StandingKept ==
  ASSUME TypeOK, Serving, ReceiptsSound, Pooled, RowsHeld, NEW h \in Handlers, Step(h),
         NEW g \in Handlers, g # h, pc[g] = "write"
  PROVE  blocked'[CardOf(g)] = blocked[CardOf(g)] /\ deleted'[CardOf(g)] = deleted[CardOf(g)]
<1>1. CASE UpdateCard(h)
  <2>1. ForUpdate
    <3>1. SUFFICES ASSUME ~ForUpdate PROVE FALSE
      OBVIOUS
    <3>2. MaxOpenConns = 1 /\ g \in inTx /\ h \in inTx
      BY <1>1, <3>1, DriverAssumption DEF UpdateCard, Pooled, InTransaction
    <3>3. QED
      BY <3>2, SingleTransaction
  <2>2. holder[CardOf(g)] = g
    BY <2>1 DEF RowsHeld
  <2>3. req[h].card # CardOf(g)
    BY <1>1, <2>2, HandlersAssumption DEF UpdateCard, RowFree
  <2>4. QED
    BY <1>1, <2>3, CardKnown DEF TypeOK, UpdateCard
<1>2. CASE ~UpdateCard(h)
  <2>1. UNCHANGED <<blocked, deleted>>
    <3>1. CASE Accept(h) \/ PutSettings(h) \/ Respond(h) \/ Drop(h)
      BY <3>1 DEF Accept, PutSettings, Respond, Drop, db
    <3>2. CASE Before(h)
      BY <3>2 DEF Before, ResolveCommit, ReadSettings, ResolveAdjust,
                  ResolveBlock, ResolveDelete, Begin, Connect, FirstInTx, db
    <3>3. CASE ReadReceiptForCommit(h) \/ ReadReceiptForRefund(h) \/ Lock(h)
      BY <3>3 DEF ReadReceiptForCommit, ReadReceiptForRefund, Lock, db
    <3>4. CASE WriteCommit(h) \/ WriteRefund(h) \/ WriteAdjust(h)
      BY <3>4 DEF WriteCommit, KeyTaken, WriteRefund, WriteAdjust, db
    <3>5. QED
      BY <1>2, <3>1, <3>2, <3>3, <3>4 DEF Step, Work, Inside
  <2>2. QED
    BY <2>1
<1>3. QED
  BY <1>1, <1>2

LEMMA LockEffect ==
  ASSUME TypeOK, Serving, ReceiptsSound, NEW h \in Handlers, Lock(h), pc'[h] = "write"
  PROVE  /\ CardOf(h)' = CardOf(h) /\ CardOf(h) \in Customers
         /\ seen'[h] = points[CardOf(h)] /\ points' = points
         /\ req' = req /\ LockVerdict(h) = "OK"
         /\ ForUpdate => holder'[CardOf(h)] = h
<1>1. CardOf(h) \in Customers
  BY CardKnown DEF Lock
<1>2. LockVerdict(h) = "OK"
  BY DEF TypeOK, Lock, Refuse, Reply
<1>3. /\ TakeRow(h, CardOf(h)) /\ seen' = [seen EXCEPT ![h] = points[CardOf(h)]]
      /\ rec' = rec /\ req' = req /\ points' = points
  BY <1>2 DEF Lock, db
<1>4. CardOf(h)' = CardOf(h)
  BY <1>3 DEF CardOf
<1>5. QED
  BY <1>1, <1>2, <1>3, <1>4 DEF TypeOK, TakeRow

LEMMA RowsHeldStep ==
  ASSUME TypeOK, Serving, ReceiptsSound, RowsHeld, [Next]_vars
  PROVE  RowsHeld'
<1>1. CASE UNCHANGED vars
  BY <1>1 DEF RowsHeld, CardOf, vars, local, locks
<1>2. ASSUME NEW h \in Handlers, Step(h), ForUpdate, NEW g \in Handlers, pc'[g] = "write"
      PROVE  holder'[CardOf(g)'] = g
  <2>1. CASE g = h
    BY <1>2, <2>1, LockLeadsToWrite, LockEffect
  <2>2. CASE g # h
    <3>1. pc[g] = "write" /\ CardOf(g)' = CardOf(g)
      BY <1>2, <2>2, OthersKept DEF CardOf
    <3>2. holder[CardOf(g)] = g /\ CardOf(g) \in Customers
      BY <1>2, <3>1, CardKnown DEF RowsHeld
    <3>3. QED
      BY <1>2, <2>2, <3>1, <3>2, HolderKept
  <2>3. QED
    BY <2>1, <2>2
<1>3. QED
  BY <1>1, <1>2 DEF RowsHeld, Next, Step

(* Rows are taken on the way to the writes and given back with them.       *)
LEMMA HolderChange ==
  ASSUME TypeOK, NEW h \in Handlers, Step(h), NEW c \in Customers,
         holder'[c] # NoHandler, holder'[c] # holder[c]
  PROVE  /\ Lock(h) /\ pc'[h] = "write" /\ c = CardOf(h) /\ holder'[c] = h
<1>1. ~EndTx(h) /\ holder' # holder
  BY DEF EndTx
<1>2. Lock(h)
  <2>1. ~(Accept(h) \/ UpdateCard(h) \/ PutSettings(h) \/ Respond(h) \/ Drop(h))
    BY <1>1 DEF Accept, UpdateCard, PutSettings, Respond, Drop, locks
  <2>2. ~Before(h)
    BY <1>1 DEF Before, ResolveCommit, ReadSettings, ResolveAdjust,
                ResolveBlock, ResolveDelete, Begin, Connect, locks
  <2>3. ~(ReadReceiptForCommit(h) \/ ReadReceiptForRefund(h))
    BY <1>1 DEF ReadReceiptForCommit, ReadReceiptForRefund, locks
  <2>4. ~(WriteCommit(h) \/ WriteRefund(h) \/ WriteAdjust(h))
    BY <1>1 DEF WriteCommit, WriteRefund, WriteAdjust
  <2>5. QED
    BY <2>1, <2>2, <2>3, <2>4 DEF Step, Work, Inside
<1>3. TakeRow(h, CardOf(h)) /\ Goto(h, "write")
  BY <1>1, <1>2 DEF Lock
<1>4. c = CardOf(h) /\ holder'[c] = h
  BY <1>3 DEF TypeOK, TakeRow
<1>5. QED
  BY <1>2, <1>3, <1>4 DEF TypeOK, Goto

LEMMA HoldersWriteStep ==
  ASSUME TypeOK, Serving, ReceiptsSound, HoldersWrite, [Next]_vars
  PROVE  HoldersWrite'
<1>1. CASE UNCHANGED vars
  BY <1>1 DEF HoldersWrite, CardOf, vars, local, locks
<1>2. ASSUME NEW h \in Handlers, Step(h), NEW c \in Customers,
             NEW g \in Handlers, holder'[c] = g
      PROVE  pc'[g] = "write" /\ CardOf(g)' = c
  <2>1. CASE holder'[c] # holder[c]
    <3>1. Lock(h) /\ pc'[h] = "write" /\ c = CardOf(h) /\ g = h
      BY <1>2, <2>1, HolderChange, HandlersAssumption
    <3>2. QED
      BY <3>1, LockEffect
  <2>2. CASE holder'[c] = holder[c]
    <3>1. holder[c] = g /\ pc[g] = "write" /\ CardOf(g) = c
      BY <1>2, <2>2, HandlersAssumption DEF HoldersWrite
    <3>2. CASE g = h
      <4>1. Writes(h) \/ Drop(h)
        BY <1>2, <3>1, <3>2
           DEF Step, Work, Before, Inside, Writes, Accept, ResolveCommit, ReadSettings,
               ResolveAdjust, ResolveBlock, ResolveDelete, Begin, Connect, ReadReceiptForCommit,
               ReadReceiptForRefund, Lock, UpdateCard, PutSettings, Respond
      <4>2. EndTx(h)
        BY <4>1 DEF Writes, WriteCommit, WriteRefund, WriteAdjust, Drop
      <4>3. QED
        BY <1>2, <2>2, <3>2, <4>2, HandlersAssumption DEF EndTx
    <3>3. CASE g # h
      BY <1>2, <2>2, <3>1, <3>3, OthersKept DEF CardOf
    <3>4. QED
      BY <3>2, <3>3
  <2>3. QED
    BY <2>1, <2>2
<1>3. QED
  BY <1>1, <1>2, TypeStep DEF HoldersWrite, TypeOK, Next, Step

-----------------------------------------------------------------------------
(* The balance a handler read under the lock is still the balance.         *)

LEMMA VerdictCovers ==
  ASSUME TypeOK, Serving, NEW h \in Handlers, pc[h] = "lock",
         CardOf(h) \in Customers, LockVerdict(h) = "OK"
  PROVE  /\ req[h].op = "commit" => /\ 0 <= req[h].redeem
                                    /\ req[h].redeem <= points[CardOf(h)] \/ req[h].redeem = 0
                                    /\ Usable(CardOf(h)) = "OK"
         /\ req[h].op = "adjust" => 0 <= points[CardOf(h)] + req[h].delta
<1>1. req[h] \in Requests
  BY DEF Serving
<1>2. CASE req[h].op = "commit"
  <2>1. req[h].amount \in Int /\ req[h].redeem \in Int /\ st[h] \in Settings
        /\ points[CardOf(h)] \in Int
    BY <1>1, <1>2, RequestShape DEF TypeOK
  <2>2. Usable(CardOf(h)) = "OK" /\
        CheckRedeem(points[CardOf(h)], req[h].amount, req[h].redeem, st[h]) = "OK"
    BY <1>2 DEF LockVerdict, BalanceVerdict
  <2>3. QED
    BY <1>2, <2>1, <2>2, AllowedIsCovered
<1>3. CASE req[h].op = "adjust"
  <2>1. req[h].delta \in Int /\ points[CardOf(h)] \in Int
    BY <1>1, <1>3, RequestShape DEF TypeOK
  <2>2. QED
    BY <1>3, <2>1 DEF LockVerdict, BalanceVerdict
<1>4. QED
  BY <1>2, <1>3

LEMMA FreshStep ==
  ASSUME TypeOK, Serving, ReceiptsSound, Pooled, RowsHeld, Fresh, NonNegative,
         [Next]_vars
  PROVE  Fresh'
<1>1. CASE UNCHANGED vars
  BY <1>1 DEF Fresh, CardOf, Usable, vars, db, local
<1>2. ASSUME NEW h \in Handlers, Step(h), NEW g \in Handlers, pc'[g] = "write"
      PROVE  /\ seen'[g] = points'[CardOf(g)']
             /\ req'[g].op = "commit" => /\ 0 <= req'[g].redeem /\ req'[g].redeem <= seen'[g]
                                         /\ Usable(CardOf(g))' = "OK"
             /\ req'[g].op = "adjust" => 0 <= seen'[g] + req'[g].delta
  <2>1. CASE g = h
    <3>1. Lock(h) /\ pc[h] = "lock"
      BY <1>2, <2>1, LockLeadsToWrite DEF Lock
    <3>2. /\ CardOf(h)' = CardOf(h) /\ CardOf(h) \in Customers
          /\ seen'[h] = points[CardOf(h)] /\ points' = points
          /\ req' = req /\ LockVerdict(h) = "OK"
      BY <1>2, <2>1, <3>1, LockEffect
    <3>3. points[CardOf(h)] >= 0
      BY <3>2 DEF NonNegative
    <3>4. Usable(CardOf(h))' = Usable(CardOf(h))
      BY <3>1, <3>2 DEF Usable, Lock, db
    <3>5. QED
      BY <2>1, <3>1, <3>2, <3>3, <3>4, VerdictCovers
  <2>2. CASE g # h
    <3>1. /\ pc[g] = "write" /\ CardOf(g)' = CardOf(g)
          /\ seen'[g] = seen[g] /\ req'[g] = req[g]
      BY <1>2, <2>2, OthersKept DEF CardOf
    <3>2. CardOf(g) \in Customers
      BY <3>1, CardKnown
    <3>3. points'[CardOf(g)] = points[CardOf(g)]
      <4>1. CASE Writes(h)
        <5>1. pc[h] = "write"
          BY <4>1 DEF Writes, WriteCommit, KeyTaken, WriteRefund, WriteAdjust
        <5>2. CardOf(g) # CardOf(h)
          BY <2>2, <3>1, <5>1, Exclusive
        <5>3. QED
          BY <3>2, <4>1, <5>2, WriteTouchesItsCard
      <4>2. CASE ~Writes(h)
        BY <1>2, <4>2, OnlyWritesWrite
      <4>3. QED
        BY <4>1, <4>2
    <3>4. Usable(CardOf(g))' = Usable(CardOf(g))
      BY <1>2, <2>2, <3>1, <3>2, StandingKept DEF Usable
    <3>5. QED
      BY <3>1, <3>3, <3>4 DEF Fresh
  <2>3. QED
    BY <2>1, <2>2
<1>3. QED
  BY <1>1, <1>2 DEF Fresh, Next, Step

-----------------------------------------------------------------------------
(* The money.                                                              *)

(* What the writes of one transaction do to the card they lock.            *)
LEMMA WriteEffect ==
  ASSUME TypeOK, Serving, ReceiptsSound, Fresh, NonNegative, BalanceIsLedgerSum,
         NEW h \in Handlers, Writes(h)
  PROVE  /\ CardOf(h) \in Customers
         /\ points'[CardOf(h)] = ledgerSum'[CardOf(h)]
         /\ points'[CardOf(h)] >= 0
<1> DEFINE c == CardOf(h)
<1>1. pc[h] = "write" /\ req[h] \in Requests
  BY DEF Writes, WriteCommit, KeyTaken, WriteRefund, WriteAdjust, Serving
<1>2. c \in Customers
  BY <1>1, CardKnown
<1>3. /\ seen[h] = points[c] /\ points[c] = ledgerSum[c] /\ points[c] >= 0
      /\ points[c] \in Int /\ ledgerSum[c] \in Int
  BY <1>1, <1>2 DEF Fresh, BalanceIsLedgerSum, NonNegative, TypeOK
<1>4. CASE UNCHANGED <<points, ledgerSum>>
  BY <1>2, <1>3, <1>4
<1>5. CASE WriteCommit(h) /\ ~UNCHANGED <<points, ledgerSum>>
  <2> DEFINE earn == EarnOf(h)
  <2>1. c = req[h].card /\ req[h].redeem \in Int
    BY <1>1, <1>5, RequestShape DEF CardOf, WriteCommit, KeyTaken
  <2>2. earn \in Nat /\ req[h].redeem <= points[c]
    BY <1>1, <1>3, <1>5, PurchaseTypes DEF WriteCommit, KeyTaken, Fresh
  <2>3. /\ points' = [points EXCEPT ![c] = AfterCommit(h)]
        /\ Post(c, req[h].receipt, PurchaseDeltas(req[h], earn))
    BY <1>5, <2>1 DEF WriteCommit, KeyTaken, SetPoints, db
  <2> HIDE DEF earn
  <2>4. ledgerSum'[c] = ledgerSum[c] + earn + (0 - req[h].redeem) + 0 + 0
    BY <1>2, <2>3 DEF Post, PurchaseDeltas, Reasons, TypeOK
  <2>5. points'[c] = points[c] - req[h].redeem + earn
    BY <1>2, <1>3, <2>3 DEF AfterCommit, TypeOK, earn
  <2>6. QED
    BY <1>2, <1>3, <2>1, <2>2, <2>4, <2>5
<1>6. CASE WriteRefund(h) /\ ~UNCHANGED <<points, ledgerSum>>
  <2>1. c = rec[h].card /\ rec[h] \in Receipt
    BY <1>6 DEF CardOf, WriteRefund, TypeOK
  <2>2. rec[h].redeem >= 0 /\ rec[h].earn \in Int /\ rec[h].redeem \in Int
    BY <1>1, <1>6, <2>1, CopySold DEF WriteRefund, Sold, Receipt
  <2> DEFINE back == Reversed(points[c], rec[h])
  <2>3. back \in Int /\ back <= points[c]
    BY <1>3, <2>2 DEF Reversed, SmallerOf
  <2>4. /\ points' = [points EXCEPT ![c] = (points[c] - back) + rec[h].redeem]
        /\ Post(c, req[h].receipt, RefundDeltas(points[c], rec[h]))
    BY <1>3, <1>6, <2>1 DEF WriteRefund, SetPoints, AfterRefund, db
  <2>5. RefundDeltas(points[c], rec[h]) =
          [x \in Reasons |-> CASE x = "refund_earn"   -> 0 - back
                               [] x = "refund_redeem" -> rec[h].redeem
                               [] x \notin {"refund_earn", "refund_redeem"} -> 0]
    BY DEF RefundDeltas
  <2> HIDE DEF back
  <2>6. ledgerSum'[c] = ledgerSum[c] + 0 + 0 + (0 - back) + rec[h].redeem
    BY <1>2, <2>4, <2>5 DEF Post, Reasons, TypeOK
  <2>7. points'[c] = (points[c] - back) + rec[h].redeem
    BY <1>2, <2>4 DEF TypeOK
  <2>8. QED
    BY <1>2, <1>3, <2>2, <2>3, <2>6, <2>7
<1>7. CASE WriteAdjust(h) /\ ~UNCHANGED <<points, ledgerSum>>
  <2>1. c = req[h].card /\ req[h].delta \in Int
    BY <1>1, <1>7, RequestShape DEF CardOf, WriteAdjust
  <2>2. 0 <= seen[h] + req[h].delta
    BY <1>1, <1>7 DEF Fresh, WriteAdjust
  <2>3. /\ points' = [points EXCEPT ![c] = seen[h] + req[h].delta]
        /\ ledgerSum' = [ledgerSum EXCEPT ![c] = @ + req[h].delta]
    BY <1>7, <2>1 DEF WriteAdjust, SetPoints, db
  <2>4. QED
    BY <1>2, <1>3, <2>1, <2>2, <2>3 DEF TypeOK
<1>8. QED
  BY <1>4, <1>5, <1>6, <1>7 DEF Writes

LEMMA BalanceStep ==
  ASSUME TypeOK, Serving, ReceiptsSound, Fresh, NonNegative, BalanceIsLedgerSum,
         [Next]_vars
  PROVE  BalanceIsLedgerSum' /\ NonNegative'
<1>1. CASE UNCHANGED vars
  BY <1>1 DEF BalanceIsLedgerSum, NonNegative, vars, db
<1>2. ASSUME NEW h \in Handlers, Step(h), NEW c \in Customers
      PROVE  points'[c] = ledgerSum'[c] /\ points'[c] >= 0
  <2>1. CASE Writes(h) /\ c = CardOf(h)
    BY <2>1, WriteEffect
  <2>2. CASE Writes(h) /\ c # CardOf(h)
    BY <2>2, WriteTouchesItsCard DEF BalanceIsLedgerSum, NonNegative
  <2>3. CASE ~Writes(h)
    BY <1>2, <2>3, OnlyWritesWrite DEF BalanceIsLedgerSum, NonNegative
  <2>4. QED
    BY <2>1, <2>2, <2>3
<1>3. QED
  BY <1>1, <1>2 DEF BalanceIsLedgerSum, NonNegative, Next, Step

(* A receipt is posted by the step that inserts it, and by no other.       *)
LEMMA PostedStep ==
  ASSUME TypeOK, Serving, ReceiptsSound, PurchasePosted, [Next]_vars
  PROVE  PurchasePosted'
<1>1. CASE UNCHANGED vars
  BY <1>1 DEF PurchasePosted, vars, db
<1>2. ASSUME NEW h \in Handlers, Step(h), UNCHANGED <<receipts, entries>>
      PROVE  PurchasePosted'
  BY <1>2 DEF PurchasePosted
<1>3. ASSUME NEW h \in Handlers, WriteCommit(h), ~UNCHANGED <<receipts, entries>>
      PROVE  PurchasePosted'
  <2> DEFINE r    == req[h].receipt
             earn == EarnOf(h)
             p    == Purchase(req[h], earn, AfterCommit(h))
  <2>1. r \in ReceiptIds /\ req[h].redeem \in Int /\ earn \in Nat
    BY <1>3, RequestShape, PurchaseTypes DEF WriteCommit, KeyTaken, Serving
  <2>2. /\ receipts[r] = NoReceipt
        /\ receipts' = [receipts EXCEPT ![r] = p]
        /\ Post(req[h].card, r, PurchaseDeltas(req[h], earn))
    BY <1>3, <2>1 DEF WriteCommit, KeyTaken, ReceiptsSound, db
  <2>3. p.redeem = req[h].redeem /\ p.earn = earn
    BY DEF Purchase
  <2> HIDE DEF earn, p
  <2>4. entries[r]["redeem"] = 0 /\ entries[r]["earn"] = 0
    BY <2>1, <2>2 DEF PurchasePosted, NoReceipt
  <2>5. /\ entries'[r]["redeem"] = 0 + (0 - req[h].redeem)
        /\ entries'[r]["earn"] = 0 + earn
    BY <2>1, <2>2, <2>4 DEF Post, PurchaseDeltas, Reasons, TypeOK
  <2>6. ASSUME NEW x \in ReceiptIds, x # r
        PROVE  receipts'[x] = receipts[x] /\ entries'[x] = entries[x]
    BY <2>2, <2>6 DEF Post, TypeOK
  <2>7. receipts'[r] = p
    BY <2>1, <2>2 DEF TypeOK
  <2>8. QED
    BY <2>1, <2>3, <2>5, <2>6, <2>7 DEF PurchasePosted
<1>4. ASSUME NEW h \in Handlers, WriteRefund(h), ~UNCHANGED <<receipts, entries>>
      PROVE  PurchasePosted'
  <2> DEFINE r == req[h].receipt
             after == AfterRefund(seen[h], rec[h])
             deltas == RefundDeltas(seen[h], rec[h])
  <2>1. r \in ReceiptIds /\ receipts[r] \in Receipt
    BY <1>4, RequestShape DEF WriteRefund, Serving, TypeOK
  <2>2. /\ receipts' = [receipts EXCEPT ![r].status = "refunded", ![r].afterRefund = after]
        /\ Post(rec[h].card, r, deltas)
    BY <1>4 DEF WriteRefund, MarkRefunded, db
  <2>3. deltas["redeem"] = 0 /\ deltas["earn"] = 0
    BY DEF RefundDeltas, Reasons
  <2> HIDE DEF after, deltas
  <2>4. /\ entries'[r]["redeem"] = entries[r]["redeem"] + 0
        /\ entries'[r]["earn"] = entries[r]["earn"] + 0
    BY <2>1, <2>2, <2>3 DEF Post, Reasons, TypeOK
  <2>5. entries[r]["redeem"] \in Int /\ entries[r]["earn"] \in Int
    BY <2>1 DEF Reasons, TypeOK
  <2>6. ASSUME NEW x \in ReceiptIds, x # r
        PROVE  receipts'[x] = receipts[x] /\ entries'[x] = entries[x]
    BY <2>2, <2>6 DEF Post, TypeOK
  <2>7. receipts'[r].redeem = receipts[r].redeem /\ receipts'[r].earn = receipts[r].earn
    BY <2>1, <2>2 DEF Receipt, TypeOK
  <2>8. QED
    BY <2>1, <2>4, <2>5, <2>6, <2>7 DEF PurchasePosted
<1>5. ASSUME NEW h \in Handlers, Step(h)
      PROVE  PurchasePosted'
  <2>1. CASE ~Writes(h) \/ WriteAdjust(h)
    <3>1. UNCHANGED <<receipts, entries>>
      <4>1. CASE ~Writes(h)
        BY <1>5, <4>1, OnlyWritesWrite
      <4>2. CASE WriteAdjust(h)
        BY <4>2 DEF WriteAdjust, db
      <4>3. QED
        BY <2>1, <4>1, <4>2
    <3>2. QED
      BY <1>2, <1>5, <3>1
  <2>2. QED
    BY <1>2, <1>3, <1>4, <1>5, <2>1 DEF Writes
<1>6. QED
  BY <1>1, <1>5 DEF Next, Step

-----------------------------------------------------------------------------
(* The theorems.                                                           *)

LEMMA InitInv == Init => Inv
<1> SUFFICES ASSUME Init PROVE Inv
  OBVIOUS
<1>1. TypeOK
  BY ConstantTypes, AnswerShape, SettingsAssumption DEF Init, TypeOK, Labels
<1>2. Serving /\ RowsHeld /\ HoldersWrite /\ Fresh
  BY DEF Init, Serving, RowsHeld, HoldersWrite, Fresh
<1>3. ReceiptsSound
  BY DEF Init, ReceiptsSound, NoReceipt
<1>4. Pooled
  BY FS_EmptySet, PoolAssumption DEF Init, Pooled, InTransaction
<1>5. BalanceIsLedgerSum /\ NonNegative
  BY DEF Init, BalanceIsLedgerSum, NonNegative
<1>6. PurchasePosted
  BY DEF Init, PurchasePosted, NoReceipt, Reasons
<1>7. QED
  BY <1>1, <1>2, <1>3, <1>4, <1>5, <1>6 DEF Inv

LEMMA InvStep == Inv /\ [Next]_vars => Inv'
  BY TypeStep, ServingStep, ReceiptsSoundStep, PooledStep, RowsHeldStep,
     HoldersWriteStep, FreshStep, BalanceStep, PostedStep DEF Inv

(* Inv is an invariant of the ledger, on both databases.                   *)
THEOREM Invariance == Spec => []Inv
<1>1. Inv /\ UNCHANGED vars => Inv'
  BY InvStep
<1>2. QED
  BY InitInv, InvStep, PTL DEF Spec

(* Every variable keeps its type.                                          *)
THEOREM TypeCorrect == Spec => []TypeOK
  BY Invariance, PTL DEF Inv

(* customers.points is the sum of the customer's ledger rows, whatever the *)
(* interleaving of purchases, refunds and corrections.                     *)
THEOREM BalancesAreRight == Spec => []BalanceIsLedgerSum
  BY Invariance, PTL DEF Inv

(* Who holds a customer's row waits for nobody, neither for a connection   *)
(* nor for another row: handlers never wait for one another in a ring,     *)
(* however many there are and however small the pool.                      *)
THEOREM NoRing == Spec => []HoldersWrite
  BY Invariance, PTL DEF Inv

(* No card is overdrawn.                                                   *)
THEOREM NoOverdraft == Spec => []NonNegative
  BY Invariance, PTL DEF Inv

(* Every receipt posts its purchase exactly once.                          *)
THEOREM PostedOnce == Spec => []PurchasePosted
  BY Invariance, PTL DEF Inv

(* A receipt is inserted only on a usable card that covers it.             *)
LEMMA SaleStep ==
  ASSUME Inv, [Next]_vars, NEW r \in ReceiptIds,
         receipts[r].status = "absent", receipts'[r].status # "absent"
  PROVE  LET c == receipts'[r].card
         IN  Usable(c) = "OK" /\ receipts'[r].redeem <= points[c]
<1> USE DEF Inv
<1>1. receipts' # receipts
  OBVIOUS
<1>2. PICK h \in Handlers : Step(h)
  BY <1>1 DEF Next, Step, vars, db
<1>3. Writes(h)
  BY <1>1, <1>2, OnlyWritesWrite
<1>4. ~WriteAdjust(h)
  BY <1>1 DEF WriteAdjust, db
<1>5. ~WriteRefund(h)
  <2>1. SUFFICES ASSUME WriteRefund(h) PROVE FALSE
    OBVIOUS
  <2>2. /\ receipts[req[h].receipt].status # "absent"
        /\ pc[h] = "write" /\ req[h].op = "refund"
    BY <2>1 DEF WriteRefund, ReceiptsSound, Copies
  <2>3. r # req[h].receipt
    BY <2>2
  <2>4. receipts'[r] = receipts[r]
    BY <1>1, <2>1, <2>3 DEF WriteRefund, MarkRefunded, TypeOK, db
  <2>5. QED
    BY <2>4
<1>6. WriteCommit(h) /\ pc[h] = "write" /\ req[h].op = "commit"
  BY <1>3, <1>4, <1>5 DEF Writes, WriteCommit, KeyTaken
<1>7. receipts' = [receipts EXCEPT ![req[h].receipt] =
                     Purchase(req[h], EarnOf(h), AfterCommit(h))]
  BY <1>1, <1>6 DEF WriteCommit, KeyTaken, db
<1>8. r = req[h].receipt /\ receipts'[r] = Purchase(req[h], EarnOf(h), AfterCommit(h))
  BY <1>7 DEF TypeOK
<1>9. receipts'[r].card = CardOf(h) /\ receipts'[r].redeem = req[h].redeem
  BY <1>6, <1>8 DEF Purchase, CardOf
<1>10. /\ Usable(CardOf(h)) = "OK" /\ req[h].redeem <= seen[h]
       /\ seen[h] = points[CardOf(h)]
  BY <1>6 DEF Fresh
<1>11. QED
  BY <1>9, <1>10

(* Between the first look at the card and the purchase it may be blocked,  *)
(* deleted or emptied by others; the purchase is then not recorded.        *)
THEOREM SalesCovered == Spec => SalesAreCovered
<1>1. Inv /\ [Next]_vars =>
        [\A r \in ReceiptIds :
           receipts[r].status = "absent" /\ receipts'[r].status # "absent" =>
             LET c == receipts'[r].card
             IN  Usable(c) = "OK" /\ receipts'[r].redeem <= points[c]]_vars
  BY SaleStep
<1>2. QED
  BY <1>1, Invariance, PTL DEF Spec, SalesAreCovered

-----------------------------------------------------------------------------
(* What is final on either database.                                       *)

(* A row of receipts changes in two ways only: a commit inserts it, a      *)
(* refund marks it.                                                        *)
LEMMA ReceiptChange ==
  ASSUME Inv, NEW h \in Handlers, Step(h), NEW r \in ReceiptIds,
         receipts'[r] # receipts[r]
  PROVE  \/ /\ WriteCommit(h) /\ r = req[h].receipt
            /\ receipts[r].status = "absent"
            /\ receipts'[r] = Purchase(req[h], EarnOf(h), AfterCommit(h))
         \/ /\ WriteRefund(h) /\ r = req[h].receipt
            /\ receipts[r].status # "absent"
            /\ points' = [points EXCEPT ![rec[h].card] = AfterRefund(seen[h], rec[h])]
            /\ receipts'[r] = [receipts[r] EXCEPT !.status = "refunded",
                                 !.afterRefund = AfterRefund(seen[h], rec[h])]
<1> USE DEF Inv
<1>1. Writes(h) /\ ~WriteAdjust(h)
  BY OnlyWritesWrite DEF WriteAdjust, db
<1>2. CASE WriteCommit(h)
  <2>1. /\ receipts' = [receipts EXCEPT ![req[h].receipt] =
                          Purchase(req[h], EarnOf(h), AfterCommit(h))]
        /\ receipts[req[h].receipt].status = "absent"
    BY <1>2 DEF WriteCommit, KeyTaken, db
  <2> HIDE DEF Inv
  <2>2. r = req[h].receipt
    BY <2>1 DEF Inv, TypeOK
  <2>3. receipts'[r] = Purchase(req[h], EarnOf(h), AfterCommit(h))
    BY <2>1, <2>2 DEF Inv, TypeOK
  <2>4. QED
    BY <1>2, <2>1, <2>2, <2>3
<1>3. CASE WriteRefund(h)
  <2> DEFINE after == AfterRefund(seen[h], rec[h])
  <2>1. /\ pc[h] = "write" /\ req[h].op = "refund"
        /\ points' = [points EXCEPT ![rec[h].card] = after]
        /\ receipts' = [receipts EXCEPT ![req[h].receipt].status = "refunded",
                                        ![req[h].receipt].afterRefund = after]
    BY <1>3 DEF WriteRefund, MarkRefunded, SetPoints, db
  <2> HIDE DEF after
  <2>2. receipts[req[h].receipt].status # "absent"
    BY <2>1 DEF ReceiptsSound, Copies
  <2>3. r = req[h].receipt
    BY <2>1 DEF TypeOK
  <2>4. receipts'[r] = [receipts[r] EXCEPT !.status = "refunded", !.afterRefund = after]
    BY <2>1, <2>3 DEF TypeOK
  <2>5. QED
    BY <1>3, <2>1, <2>2, <2>3, <2>4 DEF after
<1>4. QED
  BY <1>1, <1>2, <1>3 DEF Writes

(* On either database what a receipt says of its purchase is final.        *)
LEMMA PurchaseKept ==
  ASSUME Inv, [Next]_vars, NEW r \in ReceiptIds, receipts[r].status # "absent"
  PROVE  /\ receipts'[r] = [receipts[r] EXCEPT !.status = receipts'[r].status,
                                               !.afterRefund = receipts'[r].afterRefund]
         /\ receipts[r].status = receipts'[r].status \/ receipts'[r].status = "refunded"
<1>1. receipts[r] \in Receipt
  BY DEF Inv, TypeOK
<1>2. CASE receipts'[r] = receipts[r]
  BY <1>1, <1>2 DEF Receipt
<1>3. CASE receipts'[r] # receipts[r]
  <2>1. PICK h \in Handlers : Step(h)
    BY <1>3 DEF Next, Step, vars, db
  <2>2. receipts'[r] = [receipts[r] EXCEPT !.status = "refunded",
                          !.afterRefund = AfterRefund(seen[h], rec[h])]
    BY <1>3, <2>1, ReceiptChange
  <2>3. QED
    BY <1>1, <2>2 DEF Receipt
<1>4. QED
  BY <1>2, <1>3

(* Two refunds of one receipt may race on Postgres; what they race for is  *)
(* the mark, never the purchase.                                           *)
THEOREM PurchaseFinal == Spec => PurchasesAreFinal
<1>1. Inv /\ [Next]_vars =>
        [\A r \in ReceiptIds :
           receipts[r].status # "absent" =>
             receipts'[r] = [receipts[r] EXCEPT !.status = receipts'[r].status,
                                                !.afterRefund = receipts'[r].afterRefund]
             /\ (receipts[r].status = receipts'[r].status \/ receipts'[r].status = "refunded")]_vars
  BY PurchaseKept
<1>2. QED
  BY <1>1, Invariance, PTL DEF Spec, PurchasesAreFinal

(* How a successful answer to a commit comes about.                        *)
LEMMA CommitAnswered ==
  ASSUME Inv, NEW h \in Handlers, Step(h), pc'[h] = "done",
         req'[h].op = "commit", answer'[h].code = "OK"
  PROVE  /\ req' = req
         /\ \/ /\ pc[h] = "receipt"
               /\ receipts[req[h].receipt].status # "absent"
               /\ SameFields(req[h], receipts[req[h].receipt])
               /\ answer'[h] = ReplayCommit(receipts[req[h].receipt])
               /\ receipts' = receipts
            \/ /\ pc[h] = "write"
               /\ receipts'[req[h].receipt] = Purchase(req[h], EarnOf(h), AfterCommit(h))
               /\ answer'[h] = Result(AfterCommit(h), EarnOf(h), FALSE)
<1> USE DEF Goto, Reply, Refuse, Refusal
<1> TypeOK
  BY DEF Inv
<1>1. ~(Accept(h) \/ Respond(h) \/ Drop(h))
  BY DEF TypeOK, Accept, FirstLabel, Respond, Drop
<1>2. req' = req
  BY <1>1 DEF Step, Work, Before, Inside, ResolveCommit, ReadSettings, ResolveAdjust, ResolveBlock,
         ResolveDelete, Begin, Connect, ReadReceiptForCommit, ReadReceiptForRefund, Lock,
         WriteCommit, WriteRefund, WriteAdjust, UpdateCard, PutSettings
<1>9. pc \in [Handlers -> Labels] /\ answer \in [Handlers -> Answer]
  BY DEF TypeOK
<1>3. ~Before(h)
  BY <1>2 DEF TypeOK, Before, ResolveCommit, ReadSettings, ResolveAdjust,
         ResolveBlock, ResolveDelete, Begin, Connect, FirstInTx
<1>4. ~(ReadReceiptForRefund(h) \/ Lock(h) \/ WriteRefund(h) \/ WriteAdjust(h))
  <2>1. ~(ReadReceiptForRefund(h) \/ WriteRefund(h) \/ WriteAdjust(h))
    BY <1>2 DEF ReadReceiptForRefund, WriteRefund, WriteAdjust
  <2>2. ~Lock(h)
    BY <1>9 DEF Lock
  <2>3. QED
    BY <2>1, <2>2
<1>5. ~(UpdateCard(h) \/ PutSettings(h))
  <2>1. ~PutSettings(h)
    BY <1>2 DEF PutSettings
  <2>2. UpdateCard(h) => req[h].op \in {"block", "delete"}
    BY DEF UpdateCard
  <2>3. QED
    BY <1>2, <2>1, <2>2
<1>6. CASE ReadReceiptForCommit(h)
  BY <1>2, <1>6 DEF TypeOK, ReadReceiptForCommit, db
<1>7. CASE WriteCommit(h)
  <2>1. req[h].receipt \in ReceiptIds
    BY <1>7, RequestShape DEF Inv, Serving, WriteCommit
  <2>2. ~Refuse(h, "DUPLICATE_KEY") /\ ~Refuse(h, "OUT_OF_RANGE")
    BY <1>9
  <2>3. /\ pc[h] = "write"
        /\ receipts' = [receipts EXCEPT ![req[h].receipt] =
                          Purchase(req[h], EarnOf(h), AfterCommit(h))]
        /\ answer' = [answer EXCEPT ![h] = Result(AfterCommit(h), EarnOf(h), FALSE)]
    <3> HIDE DEF Refuse
    <3>1. QED
      BY <1>7, <2>2 DEF WriteCommit
  <2>4. QED
    BY <1>2, <1>9, <2>1, <2>3 DEF TypeOK
<1>8. QED
  BY <1>1, <1>3, <1>4, <1>5, <1>6, <1>7 DEF Step, Work, Inside

LEMMA CommitsAgreeStep ==
  ASSUME Inv, CommitsAgree, [Next]_vars
  PROVE  CommitsAgree'
<1> USE DEF SameFields
<1>1. CASE UNCHANGED vars
  BY <1>1 DEF CommitsAgree, vars, db
<1>2. ASSUME NEW h \in Handlers, Step(h), NEW g \in Handlers,
             pc'[g] = "done", req'[g].op = "commit", answer'[g].code = "OK"
      PROVE  LET r == receipts'[req'[g].receipt]
             IN  /\ r.status # "absent" /\ SameFields(req'[g], r)
                 /\ answer'[g].points = r.after
                 /\ answer'[g].earn = r.earn
  <2>1. CASE g = h
    <3>1. pc'[h] = "done" /\ req'[h].op = "commit" /\ answer'[h].code = "OK"
      BY <1>2, <2>1
    <3>2. CASE /\ receipts[req[h].receipt].status # "absent"
               /\ SameFields(req[h], receipts[req[h].receipt])
               /\ answer'[h] = ReplayCommit(receipts[req[h].receipt])
               /\ receipts' = receipts /\ req' = req
      BY <2>1, <3>2 DEF ReplayCommit, Result
    <3>3. CASE /\ receipts'[req[h].receipt] = Purchase(req[h], EarnOf(h), AfterCommit(h))
               /\ answer'[h] = Result(AfterCommit(h), EarnOf(h), FALSE)
               /\ req' = req
      <4> HIDE DEF SameFields
      <4>1. SameFields(req[h], Purchase(req[h], EarnOf(h), AfterCommit(h)))
        BY DEF SameFields, Purchase
      <4>2. QED
        BY <2>1, <3>3, <4>1 DEF Result, Purchase
    <3>4. QED
      BY <1>2, <3>1, <3>2, <3>3, CommitAnswered
  <2>2. CASE g # h
    <3> DEFINE r == req[g].receipt
    <3>1. /\ pc[g] = "done" /\ req'[g] = req[g] /\ answer'[g] = answer[g]
          /\ req[g].op = "commit" /\ answer[g].code = "OK"
      BY <1>2, <2>2, OthersKept DEF Inv
    <3>2. r \in ReceiptIds /\ receipts[r] \in Receipt
      BY <3>1, RequestShape DEF Inv, Serving, TypeOK
    <3>3. /\ receipts[r].status # "absent" /\ SameFields(req[g], receipts[r])
          /\ answer[g].points = receipts[r].after
          /\ answer[g].earn = receipts[r].earn
      BY <3>1 DEF CommitsAgree
    <3> HIDE DEF r
    <3>4. /\ receipts'[r] = [receipts[r] EXCEPT !.status = receipts'[r].status,
                                                !.afterRefund = receipts'[r].afterRefund]
          /\ receipts[r].status = receipts'[r].status \/ receipts'[r].status = "refunded"
      BY <1>2, <3>2, <3>3, PurchaseKept
    <3>5. /\ receipts'[r].status # "absent" /\ receipts'[r].card = receipts[r].card
          /\ receipts'[r].amount = receipts[r].amount /\ receipts'[r].redeem = receipts[r].redeem
          /\ receipts'[r].after = receipts[r].after /\ receipts'[r].earn = receipts[r].earn
      <4> DEFINE p == receipts'[r]
      <4>1. p = [receipts[r] EXCEPT !.status = p.status, !.afterRefund = p.afterRefund]
        BY <3>4
      <4> HIDE DEF p
      <4>2. /\ p.card = receipts[r].card /\ p.amount = receipts[r].amount
            /\ p.redeem = receipts[r].redeem /\ p.after = receipts[r].after
            /\ p.earn = receipts[r].earn
        BY <3>2, <4>1 DEF Receipt
      <4>3. p.status # "absent"
        BY <3>3, <3>4 DEF p
      <4>4. QED
        BY <4>2, <4>3 DEF p
    <3>6. QED
      BY <3>1, <3>3, <3>5 DEF r
  <2>3. QED
    BY <2>1, <2>2
<1>3. QED
  BY <1>1, <1>2 DEF CommitsAgree, Next, Step

(* All successful answers to one purchase are the same, on either database.*)
THEOREM AnswersAgree == Spec => []CommitsAgree
<1>1. Init => CommitsAgree
  BY DEF Init, CommitsAgree
<1>2. Inv /\ CommitsAgree /\ [Next]_vars => CommitsAgree'
  BY CommitsAgreeStep
<1>3. QED
  BY <1>1, <1>2, Invariance, PTL DEF Spec

-----------------------------------------------------------------------------
(* What a refund posts.                                                    *)

LEMMA RefundPosts ==
  ASSUME Inv, NEW h \in Handlers, WriteRefund(h), ~UNCHANGED <<receipts, entries>>
  PROVE  LET r == req[h].receipt
         IN  /\ r \in ReceiptIds /\ receipts[r].status # "absent"
             /\ receipts'[r].status = "refunded"
             /\ receipts'[r].redeem = receipts[r].redeem /\ receipts'[r].earn = receipts[r].earn
             /\ entries'[r]["refund_redeem"] = entries[r]["refund_redeem"] + receipts[r].redeem
             /\ \E back \in 0..receipts[r].earn :
                  entries'[r]["refund_earn"] = entries[r]["refund_earn"] - back
             /\ \A x \in ReceiptIds \ {r} :
                  receipts'[x] = receipts[x] /\ entries'[x] = entries[x]
<1> DEFINE r     == req[h].receipt
           after == AfterRefund(seen[h], rec[h])
           back  == Reversed(seen[h], rec[h])
<1>1. /\ pc[h] = "write" /\ req[h].op = "refund"
      /\ receipts' = [receipts EXCEPT ![r].status = "refunded", ![r].afterRefund = after]
      /\ Post(rec[h].card, r, RefundDeltas(seen[h], rec[h]))
  BY DEF WriteRefund, MarkRefunded, db
<1>2. /\ r \in ReceiptIds /\ Sold(rec[h]) /\ Copies(rec[h], receipts[r])
  BY <1>1, CopySold DEF Inv, ReceiptsSound
<1>3. /\ receipts[r] \in Receipt /\ rec[h] \in Receipt
      /\ \A x \in Reasons : entries[r][x] \in Int
  BY <1>2 DEF Inv, TypeOK
<1>4. seen[h] \in Int /\ seen[h] >= 0
  <2>1. CardOf(h) \in Customers /\ seen[h] = points[CardOf(h)]
    BY <1>1, CardKnown DEF Inv, Fresh
  <2>2. QED
    BY <2>1 DEF Inv, TypeOK, NonNegative
<1>5. back \in 0..receipts[r].earn
  BY <1>2, <1>3, <1>4 DEF Sold, Copies, Receipt, Reversed, SmallerOf
<1>6. RefundDeltas(seen[h], rec[h]) =
        [x \in Reasons |-> CASE x = "refund_earn"   -> 0 - back
                             [] x = "refund_redeem" -> rec[h].redeem
                             [] x \notin {"refund_earn", "refund_redeem"} -> 0]
  BY DEF RefundDeltas
<1> HIDE DEF after, back
<1>7. /\ entries'[r]["refund_redeem"] = entries[r]["refund_redeem"] + receipts[r].redeem
      /\ entries'[r]["refund_earn"] = entries[r]["refund_earn"] + (0 - back)
  BY <1>1, <1>2, <1>6 DEF Post, Reasons, Inv, TypeOK, Copies
<1>8. \A x \in ReceiptIds \ {r} : receipts'[x] = receipts[x] /\ entries'[x] = entries[x]
  BY <1>1, <1>2 DEF Post, Inv, TypeOK
<1>9. receipts'[r] = [receipts[r] EXCEPT !.status = "refunded", !.afterRefund = after]
  BY <1>1, <1>2 DEF Inv, TypeOK
<1>10. /\ receipts'[r].status = "refunded"
       /\ receipts'[r].redeem = receipts[r].redeem /\ receipts'[r].earn = receipts[r].earn
  BY <1>3, <1>9 DEF Receipt
<1>11. entries'[r]["refund_earn"] = entries[r]["refund_earn"] - back
  <2>1. entries[r]["refund_earn"] \in Int /\ receipts[r].earn \in Int
    BY <1>3 DEF Reasons, Receipt
  <2>2. QED
    BY <1>5, <1>7, <2>1
<1>12. QED
  BY <1>2, <1>5, <1>7, <1>8, <1>10, <1>11 DEF Copies

(* A purchase posts nothing under the reasons of a refund.                 *)
LEMMA PurchasePosts ==
  ASSUME Inv, NEW h \in Handlers, WriteCommit(h), ~UNCHANGED <<receipts, entries>>
  PROVE  LET r == req[h].receipt
         IN  /\ r \in ReceiptIds
             /\ receipts[r].status = "absent" /\ receipts'[r].status = "committed"
             /\ entries'[r]["refund_redeem"] = entries[r]["refund_redeem"]
             /\ entries'[r]["refund_earn"] = entries[r]["refund_earn"]
             /\ \A x \in ReceiptIds \ {r} :
                  receipts'[x] = receipts[x] /\ entries'[x] = entries[x]
<1> DEFINE r    == req[h].receipt
           earn == EarnOf(h)
           sale == Purchase(req[h], earn, AfterCommit(h))
<1>1. /\ pc[h] = "write" /\ req[h].op = "commit" /\ receipts[r].status = "absent"
      /\ receipts' = [receipts EXCEPT ![r] = sale]
      /\ Post(req[h].card, r, PurchaseDeltas(req[h], earn))
  BY DEF WriteCommit, KeyTaken, db
<1>2. r \in ReceiptIds /\ \A x \in Reasons : entries[r][x] \in Int
  BY <1>1, RequestShape DEF Inv, Serving, TypeOK
<1>3. sale.status = "committed"
  BY DEF Purchase
<1> HIDE DEF earn, sale
<1>4. /\ entries'[r]["refund_redeem"] = entries[r]["refund_redeem"] + 0
      /\ entries'[r]["refund_earn"] = entries[r]["refund_earn"] + 0
  BY <1>1, <1>2 DEF Post, PurchaseDeltas, Reasons, Inv, TypeOK
<1>5. entries[r]["refund_redeem"] \in Int /\ entries[r]["refund_earn"] \in Int
  BY <1>2 DEF Reasons
<1>6. receipts'[r].status = "committed"
      /\ \A x \in ReceiptIds \ {r} : receipts'[x] = receipts[x] /\ entries'[x] = entries[x]
  BY <1>1, <1>2, <1>3 DEF Post, Inv, TypeOK
<1>7. QED
  BY <1>1, <1>2, <1>4, <1>5, <1>6

LEMMA MoneyMoves ==
  ASSUME NEW h \in Handlers, Step(h), ~UNCHANGED <<receipts, entries>>
  PROVE  WriteCommit(h) \/ WriteRefund(h)
<1>1. Writes(h)
  BY OnlyWritesWrite
<1>2. ~WriteAdjust(h)
  BY DEF WriteAdjust, db
<1>3. QED
  BY <1>1, <1>2 DEF Writes

LEMMA MarkedIsPaidStep ==
  ASSUME Inv, MarkedIsPaid, [Next]_vars
  PROVE  MarkedIsPaid'
<1>1. CASE UNCHANGED <<receipts, entries>>
  BY <1>1 DEF MarkedIsPaid
<1>2. ASSUME NEW h \in Handlers, Step(h), ~UNCHANGED <<receipts, entries>>
      PROVE  MarkedIsPaid'
  <2> DEFINE r == req[h].receipt
  <2>1. CASE WriteCommit(h)
    <3>1. /\ r \in ReceiptIds
          /\ receipts[r].status = "absent" /\ receipts'[r].status = "committed"
          /\ entries'[r]["refund_redeem"] = entries[r]["refund_redeem"]
          /\ entries'[r]["refund_earn"] = entries[r]["refund_earn"]
          /\ \A x \in ReceiptIds \ {r} : receipts'[x] = receipts[x] /\ entries'[x] = entries[x]
      BY <1>2, <2>1, PurchasePosts
    <3>2. QED
      BY <3>1 DEF MarkedIsPaid
  <2>2. CASE WriteRefund(h)
    <3>1. /\ r \in ReceiptIds
          /\ receipts'[r].status = "refunded"
          /\ receipts'[r].redeem = receipts[r].redeem
          /\ entries'[r]["refund_redeem"] = entries[r]["refund_redeem"] + receipts[r].redeem
          /\ \A x \in ReceiptIds \ {r} : receipts'[x] = receipts[x] /\ entries'[x] = entries[x]
      BY <1>2, <2>2, RefundPosts
    <3>2. PICK back \in 0..receipts[r].earn :
            entries'[r]["refund_earn"] = entries[r]["refund_earn"] - back
      BY <1>2, <2>2, RefundPosts
    <3>3. /\ receipts[r].redeem \in Int /\ receipts[r].redeem >= 0 /\ receipts[r].earn \in Int
          /\ entries[r]["refund_redeem"] \in Int /\ entries[r]["refund_earn"] \in Int
      <4>1. receipts[r] = NoReceipt \/ Sold(receipts[r])
        BY <3>1 DEF Inv, ReceiptsSound
      <4>2. QED
        BY <3>1, <4>1 DEF Sold, NoReceipt, Inv, TypeOK, Receipt, Reasons
    <3>4. /\ entries'[r]["refund_redeem"] >= receipts'[r].redeem
          /\ entries'[r]["refund_earn"] <= 0
      BY <3>1, <3>2, <3>3 DEF MarkedIsPaid
    <3>5. QED
      BY <3>1, <3>4 DEF MarkedIsPaid
  <2>3. QED
    BY <1>2, <2>1, <2>2, MoneyMoves
<1>3. QED
  BY <1>1, <1>2 DEF Next, Step, vars, db

(* A refund is paid exactly when the receipt is marked, on either database:*)
(* Refund's ledger rows, balance and mark are one transaction.             *)
THEOREM RefundsAreMarked == Spec => []MarkedIsPaid
<1>1. Init => MarkedIsPaid
  BY DEF Init, MarkedIsPaid, NoReceipt, Reasons
<1>2. Inv /\ MarkedIsPaid /\ [Next]_vars => MarkedIsPaid'
  BY MarkedIsPaidStep
<1>3. QED
  BY <1>1, <1>2, Invariance, PTL DEF Spec

-----------------------------------------------------------------------------
(* One connection.                                                         *)

(* While one handler's transaction is open no other handler writes.        *)
LEMMA AloneWrites ==
  ASSUME Inv, MaxOpenConns = 1, NEW h \in Handlers, Step(h),
         NEW g \in Handlers, g # h, InTransaction(g)
  PROVE  ~Writes(h)
<1>1. SUFFICES ASSUME Writes(h) PROVE FALSE
  OBVIOUS
<1>2. pc[h] = "write"
  BY <1>1 DEF Writes, WriteCommit, WriteRefund, WriteAdjust
<1>3. g \in inTx /\ h \in inTx
  BY <1>2 DEF Inv, Pooled, InTransaction
<1>4. QED
  BY <1>3, SingleTransaction DEF Inv

(* How a handler comes to wait for its row.                                *)
LEMMA LockReached ==
  ASSUME Inv, NEW h \in Handlers, Step(h), pc'[h] = "lock"
  PROVE  /\ req' = req /\ receipts' = receipts
         /\ req[h].op = "commit" => receipts[req[h].receipt].status = "absent"
         /\ req[h].op = "refund" => /\ rec'[h] = receipts[req[h].receipt]
                                    /\ receipts[req[h].receipt].status = "committed"
<1> USE DEF Goto, Reply, Refuse
<1>1. TypeOK
  BY DEF Inv
<1>2. CASE Begin(h)
  <2>1. req[h].op = "adjust" /\ req' = req /\ receipts' = receipts
    BY <1>1, <1>2 DEF Begin, FirstInTx, TypeOK, db
  <2>2. QED
    BY <2>1
<1>3. CASE ReadReceiptForCommit(h)
  BY <1>1, <1>3 DEF ReadReceiptForCommit, TypeOK, db
<1>4. CASE ReadReceiptForRefund(h)
  BY <1>1, <1>4 DEF ReadReceiptForRefund, TypeOK, db
<1>5. ~(Accept(h) \/ UpdateCard(h) \/ PutSettings(h) \/ Respond(h) \/ Drop(h))
  BY <1>1 DEF Accept, FirstLabel, UpdateCard, PutSettings, Respond, Drop, TypeOK
<1>6. CASE Before(h) /\ ~Begin(h)
  BY <1>1, <1>6 DEF Before, ResolveCommit, ReadSettings, ResolveAdjust,
                    ResolveBlock, ResolveDelete, Connect, TypeOK
<1>7. ~(Lock(h) \/ Writes(h))
  BY <1>1 DEF Lock, Writes, WriteCommit, WriteRefund, WriteAdjust, TypeOK
<1>8. QED
  BY <1>2, <1>3, <1>4, <1>5, <1>6, <1>7 DEF Step, Work, Inside, Writes

LEMMA ReadStaysTrueStep ==
  ASSUME Inv, ReadStaysTrue, MaxOpenConns = 1, [Next]_vars
  PROVE  ReadStaysTrue'
<1>1. CASE UNCHANGED vars
  BY <1>1 DEF ReadStaysTrue, vars, db, local
<1>2. ASSUME NEW h \in Handlers, Step(h), NEW g \in Handlers, pc'[g] \in {"lock", "write"}
      PROVE  LET r == receipts'[req'[g].receipt]
             IN  /\ req'[g].op = "commit" => r.status = "absent"
                 /\ req'[g].op = "refund" => rec'[g] = r /\ r.status = "committed"
  <2>1. CASE g = h /\ pc'[h] = "lock"
    BY <1>2, <2>1, LockReached
  <2>2. CASE g = h /\ pc'[h] = "write"
    <3>1. Lock(h)
      BY <1>2, <2>2, LockLeadsToWrite DEF Inv
    <3>2. LockVerdict(h) = "OK"
      BY <2>2, <3>1, LockEffect DEF Inv
    <3>3. pc[h] = "lock" /\ rec' = rec /\ req' = req /\ receipts' = receipts
      BY <3>1, <3>2 DEF Lock, db
    <3>4. QED
      BY <2>2, <3>3 DEF ReadStaysTrue
  <2>3. CASE g # h
    <3>1. pc'[g] = pc[g] /\ req'[g] = req[g] /\ rec'[g] = rec[g]
      BY <1>2, <2>3, OthersKept DEF Inv
    <3>2. ~Writes(h)
      BY <1>2, <2>3, <3>1, AloneWrites DEF InTransaction
    <3>3. receipts' = receipts
      BY <1>2, <3>2, OnlyWritesWrite
    <3>4. QED
      BY <1>2, <3>1, <3>3 DEF ReadStaysTrue
  <2>4. QED
    BY <1>2, <2>1, <2>2, <2>3
<1>3. QED
  BY <1>1, <1>2 DEF ReadStaysTrue, Next, Step

(* A refund that is written finds its receipt still committed.             *)
LEMMA RefundFindsCommitted ==
  ASSUME Inv, ReadStaysTrue, NEW h \in Handlers, WriteRefund(h)
  PROVE  /\ req[h].receipt \in ReceiptIds
         /\ rec[h] = receipts[req[h].receipt]
         /\ receipts[req[h].receipt].status = "committed"
         /\ rec[h].card \in Customers /\ rec[h].earn \in Nat /\ rec[h].redeem \in Nat
<1>1. pc[h] = "write" /\ req[h].op = "refund"
  BY DEF WriteRefund
<1>2. Sold(rec[h]) /\ req[h].receipt \in ReceiptIds /\ rec[h] \in Receipt
  BY <1>1, CopySold DEF Inv, TypeOK
<1>3. QED
  BY <1>1, <1>2 DEF ReadStaysTrue, Sold, Receipt

LEMMA RefundedOnceStep ==
  ASSUME Inv, ReadStaysTrue, RefundedOnce, [Next]_vars
  PROVE  RefundedOnce'
<1>1. CASE UNCHANGED <<receipts, entries>>
  BY <1>1 DEF RefundedOnce
<1>2. ASSUME NEW h \in Handlers, Step(h), ~UNCHANGED <<receipts, entries>>
      PROVE  RefundedOnce'
  <2> DEFINE r == req[h].receipt
  <2>1. CASE WriteCommit(h)
    <3>1. /\ r \in ReceiptIds
          /\ receipts[r].status = "absent" /\ receipts'[r].status = "committed"
          /\ entries'[r]["refund_redeem"] = entries[r]["refund_redeem"]
          /\ entries'[r]["refund_earn"] = entries[r]["refund_earn"]
          /\ \A x \in ReceiptIds \ {r} : receipts'[x] = receipts[x] /\ entries'[x] = entries[x]
      BY <1>2, <2>1, PurchasePosts
    <3>2. QED
      BY <3>1 DEF RefundedOnce
  <2>2. CASE WriteRefund(h)
    <3>1. /\ r \in ReceiptIds
          /\ receipts'[r].status = "refunded"
          /\ receipts'[r].redeem = receipts[r].redeem /\ receipts'[r].earn = receipts[r].earn
          /\ entries'[r]["refund_redeem"] = entries[r]["refund_redeem"] + receipts[r].redeem
          /\ \A x \in ReceiptIds \ {r} : receipts'[x] = receipts[x] /\ entries'[x] = entries[x]
      BY <1>2, <2>2, RefundPosts
    <3>2. PICK back \in 0..receipts[r].earn :
            entries'[r]["refund_earn"] = entries[r]["refund_earn"] - back
      BY <1>2, <2>2, RefundPosts
    <3>3. /\ receipts[r].redeem \in Nat /\ receipts[r].earn \in Nat
          /\ entries[r]["refund_redeem"] = 0 /\ entries[r]["refund_earn"] = 0
      BY <2>2, <3>1, RefundFindsCommitted DEF RefundedOnce
    <3>4. /\ entries'[r]["refund_redeem"] = receipts'[r].redeem
          /\ 0 - receipts'[r].earn <= entries'[r]["refund_earn"]
          /\ entries'[r]["refund_earn"] <= 0
      BY <3>1, <3>2, <3>3
    <3>5. QED
      BY <3>1, <3>4 DEF RefundedOnce
  <2>3. QED
    BY <1>2, <2>1, <2>2, MoneyMoves
<1>3. QED
  BY <1>1, <1>2 DEF Next, Step, vars, db

(* How a successful answer to a refund comes about.                        *)
LEMMA RefundAnswered ==
  ASSUME Inv, NEW h \in Handlers, Step(h), pc'[h] = "done",
         req'[h].op = "refund", answer'[h].code = "OK"
  PROVE  /\ req' = req
         /\ \/ /\ receipts[req[h].receipt].status = "refunded"
               /\ answer'[h] = ReplayRefund(receipts[req[h].receipt])
               /\ receipts' = receipts
            \/ /\ WriteRefund(h)
               /\ receipts' = [receipts EXCEPT ![req[h].receipt].status = "refunded",
                                 ![req[h].receipt].afterRefund = AfterRefund(seen[h], rec[h])]
               /\ answer'[h] = Result(AfterRefund(seen[h], rec[h]), 0, FALSE)
<1> USE DEF Goto, Reply, Refuse, Refusal
<1>1. TypeOK
  BY DEF Inv
<1>2. pc \in [Handlers -> Labels] /\ answer \in [Handlers -> Answer]
  BY <1>1 DEF TypeOK
<1>3. ~(Accept(h) \/ Respond(h) \/ Drop(h))
  BY <1>1 DEF TypeOK, Accept, FirstLabel, Respond, Drop
<1>4. req' = req
  BY <1>3 DEF Step, Work, Before, Inside, ResolveCommit, ReadSettings, ResolveAdjust, ResolveBlock,
         ResolveDelete, Begin, Connect, ReadReceiptForCommit, ReadReceiptForRefund, Lock,
         WriteCommit, WriteRefund, WriteAdjust, UpdateCard, PutSettings
<1>5. ~Before(h)
  BY <1>1, <1>4 DEF TypeOK, Before, ResolveCommit, ReadSettings, ResolveAdjust,
         ResolveBlock, ResolveDelete, Begin, Connect, FirstInTx
<1>6. ~(ReadReceiptForCommit(h) \/ WriteCommit(h) \/ WriteAdjust(h) \/ PutSettings(h))
  BY <1>4 DEF ReadReceiptForCommit, WriteCommit, WriteAdjust, PutSettings
<1>7. ~Lock(h)
  BY <1>2 DEF Lock
<1>8. ~UpdateCard(h)
  BY <1>4 DEF UpdateCard
<1>9. CASE ReadReceiptForRefund(h)
  <2>1. ~Refuse(h, "INVALID_REQUEST") /\ ~Goto(h, "lock")
    BY <1>2
  <2>2. ASSUME NEW a, Reply(h, a)
        PROVE  answer'[h] = a
    BY <1>2, <2>2
  <2>3. /\ receipts[req[h].receipt].status = "refunded"
        /\ Reply(h, ReplayRefund(receipts[req[h].receipt]))
        /\ receipts' = receipts
    <3> HIDE DEF Goto, Reply, Refuse
    <3>1. QED
      BY <1>9, <2>1 DEF ReadReceiptForRefund, db
  <2>4. QED
    BY <1>4, <2>2, <2>3
<1>10. CASE WriteRefund(h)
  <2>1. ~Refuse(h, "OUT_OF_RANGE")
    BY <1>2
  <2>2. /\ MarkRefunded(req[h].receipt, AfterRefund(seen[h], rec[h]))
        /\ answer' = [answer EXCEPT ![h] = Result(AfterRefund(seen[h], rec[h]), 0, FALSE)]
    <3> HIDE DEF Refuse
    <3>1. QED
      BY <1>10, <2>1 DEF WriteRefund
  <2>3. QED
    BY <1>2, <1>4, <1>10, <2>2 DEF MarkRefunded
<1>11. QED
  BY <1>3, <1>5, <1>6, <1>7, <1>8, <1>9, <1>10 DEF Step, Work, Inside

LEMMA RefundsAgreeStep ==
  ASSUME Inv, ReadStaysTrue, RefundsAgree, [Next]_vars
  PROVE  RefundsAgree'
<1>1. CASE UNCHANGED vars
  BY <1>1 DEF RefundsAgree, vars, db
<1>2. ASSUME NEW h \in Handlers, Step(h), NEW g \in Handlers,
             pc'[g] = "done", req'[g].op = "refund", answer'[g].code = "OK"
      PROVE  LET r == receipts'[req'[g].receipt]
             IN  r.status = "refunded" /\ answer'[g].points = r.afterRefund
  <2>1. CASE g = h
    <3> DEFINE r     == req[h].receipt
               after == AfterRefund(seen[h], rec[h])
    <3>1. CASE /\ receipts[r].status = "refunded" /\ receipts' = receipts /\ req' = req
               /\ answer'[h] = ReplayRefund(receipts[r])
      BY <2>1, <3>1 DEF ReplayRefund, Result
    <3>2. CASE /\ WriteRefund(h) /\ req' = req
               /\ receipts' = [receipts EXCEPT ![r].status = "refunded", ![r].afterRefund = after]
               /\ answer'[h] = Result(after, 0, FALSE)
      <4> HIDE DEF after
      <4>1. r \in ReceiptIds /\ receipts[r] \in Receipt
        BY <3>2, RefundFindsCommitted DEF Inv, TypeOK
      <4>2. receipts'[r] = [receipts[r] EXCEPT !.status = "refunded", !.afterRefund = after]
        BY <3>2, <4>1 DEF Inv, TypeOK
      <4>3. receipts'[r].status = "refunded" /\ receipts'[r].afterRefund = after
        BY <4>1, <4>2 DEF Receipt
      <4>4. QED
        BY <2>1, <3>2, <4>3 DEF Result
    <3>3. QED
      BY <1>2, <2>1, <3>1, <3>2, RefundAnswered
  <2>2. CASE g # h
    <3>1. /\ pc[g] = "done" /\ req'[g] = req[g] /\ answer'[g] = answer[g]
          /\ req[g].op = "refund" /\ answer[g].code = "OK"
      BY <1>2, <2>2, OthersKept DEF Inv
    <3>2. req[g].receipt \in ReceiptIds
      BY <3>1, RequestShape DEF Inv, Serving
    <3>3. receipts[req[g].receipt].status = "refunded"
          /\ answer[g].points = receipts[req[g].receipt].afterRefund
      BY <3>1 DEF RefundsAgree
    <3>4. receipts'[req[g].receipt] = receipts[req[g].receipt]
      BY <1>2, <3>2, <3>3, ReceiptChange, RefundFindsCommitted
    <3>5. QED
      BY <3>1, <3>3, <3>4
  <2>3. QED
    BY <2>1, <2>2
<1>3. QED
  BY <1>1, <1>2 DEF RefundsAgree, Next, Step

-----------------------------------------------------------------------------
(* Requests that Commit accepts.                                           *)

LEMMA ValidatedStep ==
  ASSUME Inv, Validated, [Next]_vars
  PROVE  Validated'
<1>1. CASE UNCHANGED vars
  BY <1>1 DEF Validated, vars, db
<1>2. ASSUME NEW h \in Handlers, Step(h)
      PROVE  Validated'
  <2>1. ASSUME NEW r \in ReceiptIds
        PROVE  receipts'[r].amount >= 0
    <3>1. CASE receipts'[r] = receipts[r]
      BY <3>1 DEF Validated
    <3>2. CASE receipts'[r] # receipts[r] /\ WriteCommit(h)
      <4>1. ~WriteRefund(h)
        BY <3>2 DEF WriteRefund, WriteCommit
      <4>2. receipts'[r] = Purchase(req[h], EarnOf(h), AfterCommit(h))
        BY <1>2, <3>2, <4>1, ReceiptChange
      <4>3. receipts'[r].amount = req[h].amount
        BY <4>2 DEF Purchase
      <4>4. QED
        BY <3>2, <4>3 DEF Validated, WriteCommit
    <3>3. CASE receipts'[r] # receipts[r] /\ WriteRefund(h)
      <4>1. receipts'[r] = [receipts[r] EXCEPT !.status = "refunded",
                              !.afterRefund = AfterRefund(seen[h], rec[h])]
        BY <1>2, <3>3, ReceiptChange DEF WriteRefund, WriteCommit
      <4>2. receipts[r] \in Receipt
        BY DEF Inv, TypeOK
      <4>3. receipts'[r].amount = receipts[r].amount
        BY <4>1, <4>2 DEF Receipt
      <4>4. QED
        BY <4>3 DEF Validated
    <3>4. QED
      BY <1>2, <3>1, <3>2, <3>3, ReceiptChange
  <2>2. ASSUME NEW g \in Handlers, req'[g].op = "commit",
               pc'[g] \in {"settings", "begin", "receipt", "lock", "write"}
        PROVE  req'[g].amount >= 0 /\ req'[g].redeem >= 0
    <3>1. CASE g # h
      BY <1>2, <2>2, <3>1, OthersKept DEF Inv, Validated
    <3>2. CASE g = h
      <4> USE DEF Goto, Reply, Refuse
      <4>1. TypeOK
        BY DEF Inv
      <4>2. CASE ResolveCommit(h)
        <5>1. CommitVerdict(req[h]) = "OK" /\ req' = req
          BY <2>2, <3>2, <4>1, <4>2 DEF ResolveCommit, TypeOK
        <5>2. req[h].amount \in Int /\ req[h].redeem \in Int
          BY <4>2, RequestShape DEF ResolveCommit, Inv, Serving
        <5>3. QED
          BY <3>2, <5>1, <5>2 DEF CommitVerdict
      <4>3. CASE ReadSettings(h) \/ Begin(h) \/ ReadReceiptForCommit(h) \/ Lock(h)
        BY <2>2, <3>2, <4>3 DEF ReadSettings, Begin, ReadReceiptForCommit, Lock, Validated
      <4>8. CASE Connect(h)
        BY <2>2, <3>2, <4>1, <4>8 DEF Connect, TypeOK
      <4>4. CASE Accept(h)
        BY <2>2, <3>2, <4>1, <4>4 DEF Accept, FirstLabel, TypeOK
      <4>5. CASE ResolveAdjust(h) \/ ResolveBlock(h) \/ ResolveDelete(h) \/ ReadReceiptForRefund(h)
        BY <2>2, <3>2, <4>5 DEF ResolveAdjust, ResolveBlock, ResolveDelete, ReadReceiptForRefund
      <4>6. ~(Writes(h) \/ UpdateCard(h) \/ PutSettings(h) \/ Respond(h) \/ Drop(h))
        BY <2>2, <3>2, <4>1
           DEF Writes, WriteCommit, WriteRefund, WriteAdjust, UpdateCard, PutSettings,
               Respond, Drop, TypeOK
      <4>7. QED
        BY <1>2, <4>2, <4>3, <4>4, <4>5, <4>6, <4>8 DEF Step, Work, Before, Inside, Writes
    <3>3. QED
      BY <3>1, <3>2
  <2>3. QED
    BY <2>1, <2>2 DEF Validated
<1>3. QED
  BY <1>1, <1>2 DEF Next, Step

(* Only requests to block, delete or restore a card change its standing.   *)
LEMMA StandingChanges ==
  ASSUME Inv, NEW h \in Handlers, Step(h), ~UNCHANGED <<blocked, deleted>>
  PROVE  /\ UpdateCard(h) /\ req[h] \in Requests \cap CardRequest
         /\ UNCHANGED <<points, receipts>>
<1>1. ~(Accept(h) \/ PutSettings(h) \/ Respond(h) \/ Drop(h))
  BY DEF Accept, PutSettings, Respond, Drop, db
<1>2. ~Before(h)
  BY DEF Before, ResolveCommit, ReadSettings, ResolveAdjust, ResolveBlock, ResolveDelete, Begin, Connect, db
<1>3. ~(ReadReceiptForCommit(h) \/ ReadReceiptForRefund(h) \/ Lock(h))
  BY DEF ReadReceiptForCommit, ReadReceiptForRefund, Lock, db
<1>4. ~(WriteCommit(h) \/ WriteRefund(h) \/ WriteAdjust(h))
  BY DEF WriteCommit, WriteRefund, WriteAdjust, db
<1>5. UpdateCard(h)
  BY <1>1, <1>2, <1>3, <1>4 DEF Step, Work, Inside
<1>6. req[h] \in Requests /\ req[h].op \in {"block", "delete"}
  BY <1>5 DEF UpdateCard, Inv, Serving
<1>7. req[h] \in CardRequest
  BY <1>6, RequestsAssumption
     DEF AnyRequest, CommitRequest, RefundRequest, AdjustRequest, SettingsRequest
<1>8. QED
  BY <1>5, <1>6, <1>7 DEF UpdateCard

-----------------------------------------------------------------------------
(* The theorems about one connection.                                      *)

LEMMA SingleInit == Init => SingleInv
<1> SUFFICES ASSUME Init PROVE SingleInv
  OBVIOUS
<1>1. ReadStaysTrue /\ Validated
  BY DEF Init, ReadStaysTrue, Validated, NoReceipt
<1>2. RefundedOnce /\ RefundsAgree
  BY DEF Init, RefundedOnce, RefundsAgree, NoReceipt, Reasons
<1>3. QED
  BY <1>1, <1>2, InitInv DEF SingleInv

LEMMA SingleStep ==
  ASSUME MaxOpenConns = 1, SingleInv, [Next]_vars
  PROVE  SingleInv'
  BY InvStep, ReadStaysTrueStep, ValidatedStep, RefundedOnceStep, RefundsAgreeStep
     DEF SingleInv

(* On one connection, as on SQLite, transactions run one after another:    *)
(* what a transaction read of its receipt stays true until it writes.      *)
THEOREM SingleInvariance == ASSUME MaxOpenConns = 1 PROVE Spec => []SingleInv
<1>1. SingleInv /\ [Next]_vars => SingleInv'
  BY SingleStep
<1>2. QED
  BY <1>1, SingleInit, PTL DEF Spec

(* A refund is paid once, however many tills send it.                      *)
THEOREM RefundPaidOnce == ASSUME MaxOpenConns = 1 PROVE Spec => []RefundedOnce
  BY SingleInvariance, PTL DEF SingleInv

(* All successful answers to the refunds of a receipt are the same.        *)
THEOREM RefundAnswersAgree == ASSUME MaxOpenConns = 1 PROVE Spec => []RefundsAgree
  BY SingleInvariance, PTL DEF SingleInv

(* A receipt on record changes once, from committed to refunded, with the  *)
(* balance the refund leaves.                                              *)
LEMMA FinalStep ==
  ASSUME SingleInv, [Next]_vars, NEW r \in ReceiptIds,
         receipts[r].status # "absent", receipts'[r] # receipts[r]
  PROVE  /\ receipts[r].status = "committed"
         /\ receipts'[r] = [receipts[r] EXCEPT !.status = "refunded",
                              !.afterRefund = points'[receipts[r].card]]
<1>1. Inv /\ ReadStaysTrue
  BY DEF SingleInv
<1>2. PICK h \in Handlers : Step(h)
  BY DEF Next, Step, vars, db
<1> DEFINE after == AfterRefund(seen[h], rec[h])
<1>3. /\ WriteRefund(h) /\ r = req[h].receipt
      /\ points' = [points EXCEPT ![rec[h].card] = after]
      /\ receipts'[r] = [receipts[r] EXCEPT !.status = "refunded", !.afterRefund = after]
  BY <1>1, <1>2, ReceiptChange
<1> HIDE DEF after
<1>4. rec[h] = receipts[r] /\ receipts[r].status = "committed" /\ receipts[r].card \in Customers
  BY <1>1, <1>3, RefundFindsCommitted
<1>5. points'[receipts[r].card] = after
  BY <1>1, <1>3, <1>4 DEF Inv, TypeOK
<1>6. QED
  BY <1>3, <1>4, <1>5

THEOREM ReceiptFinal == ASSUME MaxOpenConns = 1 PROVE Spec => ReceiptsAreFinal
<1>1. SingleInv /\ [Next]_vars =>
        [\A r \in ReceiptIds :
           receipts[r].status # "absent" /\ receipts'[r] # receipts[r] =>
             /\ receipts[r].status = "committed"
             /\ receipts'[r] = [receipts[r] EXCEPT !.status = "refunded",
                                  !.afterRefund = points'[receipts[r].card]]]_vars
  BY FinalStep
<1>2. QED
  BY <1>1, SingleInvariance, PTL DEF Spec, ReceiptsAreFinal

(* A repeated purchase is answered from its row, or refused at the first   *)
(* look at a card that is deleted or blocked then.                         *)
LEMMA RepeatStep ==
  ASSUME SingleInv, [Next]_vars, NEW h \in Handlers,
         pc[h] # "done", pc'[h] = "done", req[h].op = "commit",
         receipts[req[h].receipt].status # "absent",
         SameFields(req[h], receipts[req[h].receipt])
  PROVE  \/ /\ answer'[h].code = "OK"
            /\ answer'[h].points = receipts[req[h].receipt].after
            /\ answer'[h].earn = receipts[req[h].receipt].earn
         \/ /\ answer'[h].code = Usable(req[h].card)
            /\ answer'[h].code # "OK"
<1> USE DEF Goto, Reply, Refuse
<1>1. Inv /\ ReadStaysTrue /\ Validated /\ TypeOK
  BY DEF SingleInv, Inv
<1>2. Step(h)
  <2>1. PICK g \in Handlers : Step(g)
    BY DEF Next, Step, vars
  <2>2. g = h
    BY <1>1, <2>1, OthersKept
  <2>3. QED
    BY <2>1, <2>2
<1>3. pc \in [Handlers -> Labels] /\ answer \in [Handlers -> Answer]
  BY <1>1 DEF TypeOK
<1>4. CASE ResolveCommit(h)
  <2>1. req[h] \in Requests /\ req[h].receipt \in ReceiptIds /\ req[h].card \in Customers
    BY <1>1, <1>4, RequestShape DEF ResolveCommit, Inv, Serving
  <2>2. Sold(receipts[req[h].receipt]) /\ receipts[req[h].receipt] \in Receipt
        /\ receipts[req[h].receipt].amount >= 0
    BY <1>1, <2>1 DEF Inv, ReceiptsSound, Validated, TypeOK
  <2>3. CommitVerdict(req[h]) = Usable(req[h].card)
    BY <2>2 DEF CommitVerdict, SameFields, Sold, Receipt
  <2>4. CommitVerdict(req[h]) # "OK" /\ Reply(h, Refusal(CommitVerdict(req[h])))
    BY <1>3, <1>4 DEF ResolveCommit
  <2>5. answer'[h].code = CommitVerdict(req[h])
    BY <1>3, <2>4 DEF Refusal
  <2>6. QED
    BY <2>3, <2>4, <2>5
<1>5. ~(Lock(h) \/ WriteCommit(h))
  BY <1>1 DEF ReadStaysTrue, Lock, WriteCommit
<1>6. ~(Accept(h) \/ ReadSettings(h) \/ Begin(h) \/ Connect(h) \/ Respond(h) \/ Drop(h))
  BY <1>3 DEF Accept, FirstLabel, ReadSettings, Begin, FirstInTx, Connect, Respond, Drop
<1>7. ~(ResolveAdjust(h) \/ ResolveBlock(h) \/ ResolveDelete(h) \/ ReadReceiptForRefund(h)
        \/ WriteRefund(h) \/ WriteAdjust(h) \/ UpdateCard(h) \/ PutSettings(h))
  BY DEF ResolveAdjust, ResolveBlock, ResolveDelete, ReadReceiptForRefund,
         WriteRefund, WriteAdjust, UpdateCard, PutSettings
<1>8. CASE ReadReceiptForCommit(h)
  <2>1. answer' = [answer EXCEPT ![h] = ReplayCommit(receipts[req[h].receipt])]
    BY <1>8 DEF ReadReceiptForCommit
  <2>2. QED
    BY <1>3, <2>1 DEF ReplayCommit, Result
<1>9. QED
  BY <1>2, <1>4, <1>5, <1>6, <1>7, <1>8 DEF Step, Work, Before, Inside

(* On one connection a repeated purchase is answered the recorded result,  *)
(* or is refused for the deletion or the block its card is under: no race, *)
(* no balance and no change of the rules makes another answer of it.       *)
THEOREM RepeatsSettle == ASSUME MaxOpenConns = 1 PROVE Spec => RepeatSettles
<1>1. SingleInv /\ [Next]_vars =>
        [\A h \in Handlers : Repeated(h) =>
           \/ /\ answer'[h].code = "OK"
              /\ answer'[h].points = receipts[req[h].receipt].after
              /\ answer'[h].earn = receipts[req[h].receipt].earn
           \/ /\ answer'[h].code = Usable(req[h].card)
              /\ answer'[h].code # "OK"]_vars
  BY RepeatStep DEF Repeated
<1>2. QED
  BY <1>1, SingleInvariance, PTL DEF Spec, RepeatSettles

-----------------------------------------------------------------------------
(* Refinement: each step that writes is one entry of LoyaltyBook.          *)

LEMMA CommitEnters ==
  ASSUME SingleInv, NonNegative', NEW h \in Handlers, WriteCommit(h),
         ~UNCHANGED <<points, receipts>>
  PROVE  Book!Next
<1> DEFINE q     == req[h]
           earn  == EarnOf(h)
           after == AfterCommit(h)
<1>1. Inv /\ TypeOK /\ Serving
  BY DEF SingleInv, Inv
<1>2. /\ pc[h] = "write" /\ q.op = "commit" /\ receipts[q.receipt].status = "absent"
      /\ Fits(earn) /\ Fits(after)
      /\ receipts' = [receipts EXCEPT ![q.receipt] = Purchase(q, earn, after)]
      /\ points' = [points EXCEPT ![q.card] = after]
      /\ UNCHANGED <<blocked, deleted>>
  BY DEF WriteCommit, KeyTaken, CommitFits, SetPoints, db
<1>3. q \in Requests /\ q.receipt \in ReceiptIds /\ q.card \in Customers
  BY <1>1, <1>2, RequestShape DEF Serving
<1>4. q \in Requests \cap CommitRequest
  BY <1>2, <1>3, RequestsAssumption
     DEF AnyRequest, CommitRequest, RefundRequest, AdjustRequest, CardRequest, SettingsRequest
<1>5. receipts[q.receipt] = Book!Blank
  BY <1>1, <1>2, <1>3 DEF Inv, ReceiptsSound, NoReceipt, Book!Blank
<1>6. /\ q.redeem \in 0..points[q.card] /\ after = points[q.card] - q.redeem + earn
      /\ ~blocked[q.card] /\ ~deleted[q.card]
  <2>1. /\ seen[h] = points[q.card] /\ Usable(q.card) = "OK"
        /\ 0 <= q.redeem /\ q.redeem <= seen[h]
    BY <1>1, <1>2 DEF Inv, Fresh, CardOf
  <2>2. q.redeem \in Int /\ points[q.card] \in Int
    BY <1>1, <1>2, <1>3, RequestShape DEF TypeOK
  <2>3. ~blocked[q.card] /\ ~deleted[q.card]
    BY <2>1, <1>1, <1>3 DEF Usable, TypeOK
  <2>4. QED
    BY <2>1, <2>2, <2>3 DEF AfterCommit
<1>7. earn \in 0..ColMax /\ after \in 0..ColMax
  <2>1. earn \in Nat /\ after \in Int
    BY <1>1, <1>2, PurchaseTypes
  <2>2. points'[q.card] = after
    BY <1>1, <1>2, <1>3 DEF TypeOK
  <2>3. after >= 0
    BY <1>3, <2>2 DEF NonNegative
  <2>4. QED
    BY <1>2, <2>1, <2>3, PoolAssumption DEF Fits
<1> HIDE DEF q, earn, after
<1>8. Book!Purchase(q)
  BY <1>2, <1>5, <1>6, <1>7 DEF Purchase, Book!Purchase, Book!Balance
<1>9. QED
  BY <1>4, <1>8 DEF Book!Next

LEMMA RefundEnters ==
  ASSUME SingleInv, NonNegative', NEW h \in Handlers, WriteRefund(h),
         ~UNCHANGED <<points, receipts>>
  PROVE  Book!Next
<1> DEFINE r     == req[h].receipt
           p     == receipts[r]
           after == AfterRefund(seen[h], rec[h])
<1>1. Inv /\ TypeOK /\ ReadStaysTrue
  BY DEF SingleInv, Inv
<1>2. /\ pc[h] = "write" /\ req[h].op = "refund" /\ Fits(after)
      /\ receipts' = [receipts EXCEPT ![r].status = "refunded", ![r].afterRefund = after]
      /\ points' = [points EXCEPT ![rec[h].card] = after]
      /\ UNCHANGED <<blocked, deleted>>
  BY DEF WriteRefund, MarkRefunded, SetPoints, db
<1>3. /\ r \in ReceiptIds /\ rec[h] = p /\ p.status = "committed"
      /\ p.card \in Customers /\ p.earn \in Nat /\ p.redeem \in Nat
  BY <1>1, RefundFindsCommitted
<1>4. seen[h] = points[p.card] /\ points[p.card] \in Int /\ seen[h] \in Int
  BY <1>1, <1>2, <1>3 DEF Inv, Fresh, CardOf, TypeOK
<1>5. after = (IF points[p.card] - p.earn < 0 THEN 0 ELSE points[p.card] - p.earn) + p.redeem
  BY <1>3, <1>4 DEF AfterRefund, Reversed, SmallerOf
<1> HIDE DEF after
<1>6. after \in 0..ColMax
  <2>1. points'[p.card] = after
    BY <1>1, <1>2, <1>3 DEF TypeOK
  <2>2. after >= 0
    BY <1>3, <2>1 DEF NonNegative
  <2>3. after \in Int
    BY <1>3, <1>4, <1>5
  <2>4. QED
    BY <1>2, <2>2, <2>3, PoolAssumption DEF Fits
<1>7. receipts' = [receipts EXCEPT ![r] = [p EXCEPT !.status = "refunded", !.afterRefund = after]]
  BY <1>1, <1>2, <1>3 DEF TypeOK
<1> HIDE DEF p
<1>8. Book!Cancel(r)
  BY <1>2, <1>3, <1>5, <1>6, <1>7 DEF Book!Cancel, Book!Balance, p
<1>9. QED
  BY <1>3, <1>8 DEF Book!Next

LEMMA AdjustEnters ==
  ASSUME SingleInv, NonNegative', NEW h \in Handlers, WriteAdjust(h),
         ~UNCHANGED <<points, receipts>>
  PROVE  Book!Next
<1> DEFINE q == req[h]
<1>1. Inv /\ TypeOK /\ Serving
  BY DEF SingleInv, Inv
<1>2. /\ pc[h] = "write" /\ q.op = "adjust" /\ Fits(seen[h] + q.delta)
      /\ points' = [points EXCEPT ![q.card] = seen[h] + q.delta]
      /\ UNCHANGED <<blocked, deleted, receipts>>
  BY DEF WriteAdjust, SetPoints, db
<1>3. q \in Requests /\ q.card \in Customers /\ q.delta \in Int
  BY <1>1, <1>2, RequestShape DEF Serving
<1>4. q \in Requests \cap AdjustRequest
  BY <1>2, <1>3, RequestsAssumption
     DEF AnyRequest, CommitRequest, RefundRequest, AdjustRequest, CardRequest, SettingsRequest
<1>5. seen[h] = points[q.card] /\ points[q.card] \in Int
  BY <1>1, <1>2, <1>3 DEF Inv, Fresh, CardOf, TypeOK
<1>6. points'[q.card] = seen[h] + q.delta
  BY <1>1, <1>2, <1>3 DEF TypeOK
<1>7. points[q.card] + q.delta \in 0..ColMax
  BY <1>2, <1>3, <1>5, <1>6, PoolAssumption DEF NonNegative, Fits
<1>8. Book!Correct(q.card, q.delta)
  BY <1>2, <1>5, <1>7 DEF Book!Correct, Book!Balance
<1>9. QED
  BY <1>4, <1>8 DEF Book!Next

LEMMA StandingEnters ==
  ASSUME Inv, NEW h \in Handlers, Step(h), ~UNCHANGED <<blocked, deleted>>
  PROVE  Book!Next
<1> DEFINE c == req[h].card
<1>1. /\ UpdateCard(h) /\ req[h] \in Requests /\ UNCHANGED <<points, receipts>>
      /\ req[h].op \in {"block", "delete"}
  BY StandingChanges DEF UpdateCard
<1>2. c \in Customers /\ req[h].on \in BOOLEAN
  BY <1>1, RequestShape
<1>3. blocked \in [Customers -> BOOLEAN] /\ deleted \in [Customers -> BOOLEAN]
  BY DEF Inv, TypeOK
<1>4. CASE blocked' = [blocked EXCEPT ![c] = req[h].on] /\ UNCHANGED deleted
  <2>1. req[h].on = ~blocked[c]
    <3>1. SUFFICES ASSUME req[h].on = blocked[c] PROVE FALSE
      BY <1>2, <1>3, Zenon
    <3>2. blocked' = blocked
      BY <1>3, <1>4, <3>1
    <3>3. QED
      BY <1>4, <3>2
  <2>2. Book!SetStanding(c)
    BY <1>1, <1>4, <2>1 DEF Book!SetStanding
  <2>3. QED
    BY <1>2, <2>2 DEF Book!Next
<1>5. CASE deleted' = [deleted EXCEPT ![c] = req[h].on] /\ UNCHANGED blocked
  <2>1. req[h].on = ~deleted[c]
    <3>1. SUFFICES ASSUME req[h].on = deleted[c] PROVE FALSE
      BY <1>2, <1>3, Zenon
    <3>2. deleted' = deleted
      BY <1>3, <1>5, <3>1
    <3>3. QED
      BY <1>5, <3>2
  <2>2. Book!SetStanding(c)
    BY <1>1, <1>5, <2>1 DEF Book!SetStanding
  <2>3. QED
    BY <1>2, <2>2 DEF Book!Next
<1>6. QED
  BY <1>1, <1>4, <1>5 DEF UpdateCard

LEMMA StepEnters ==
  ASSUME SingleInv, NonNegative', [Next]_vars
  PROVE  [Book!Next]_(Book!book)
<1>1. SUFFICES ASSUME ~UNCHANGED <<points, blocked, deleted, receipts>> PROVE Book!Next
  BY DEF Book!book
<1>2. PICK h \in Handlers : Step(h)
  BY <1>1 DEF Next, Step, vars, db
<1>3. CASE ~UNCHANGED <<blocked, deleted>>
  BY <1>2, <1>3, StandingEnters DEF SingleInv
<1>4. CASE ~UNCHANGED <<points, receipts>>
  <2>1. Writes(h)
    BY <1>2, <1>4, OnlyWritesWrite
  <2>2. QED
    BY <1>4, <2>1, CommitEnters, RefundEnters, AdjustEnters DEF Writes
<1>5. QED
  BY <1>1, <1>3, <1>4

(* On one connection the handlers of the service, seen from its tables,    *)
(* make every purchase, refund, correction and change of standing at once. *)
THEOREM BookKept == ASSUME MaxOpenConns = 1 PROVE Spec => ImplementsBook
<1>1. Init => Book!Init
  BY DEF Init, Book!Init, NoReceipt, Book!Blank
<1>2. SingleInv /\ SingleInv' /\ [Next]_vars => [Book!Next]_(Book!book)
  BY StepEnters DEF SingleInv, Inv
<1>3. QED
  BY <1>1, <1>2, SingleInvariance, PTL DEF Spec, ImplementsBook, Book!Spec
=============================================================================
