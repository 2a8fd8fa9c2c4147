------------------------------ MODULE MCLedger ------------------------------
(***************************************************************************)
(* Instances of Ledger for TLC: small cards, receipts and request sets.    *)
(***************************************************************************)
EXTENDS LedgerRefines, TLC

CONSTANTS h1, h2, h3, c1, c2, r1, r2

Num(n) == [parses |-> TRUE, num |-> n]

\* Every payable rouble comes back as a point; one point pays one rouble.
FullBack ==
  [k \in SettingKeys |->
     CASE k = "earn_percent"     -> Num(100)
       [] k = "earn_min_receipt" -> Num(0)
       [] k = "redeem_rate"      -> Num(1)
       [] k = "redeem_min"       -> Num(1)
       [] k = "redeem_max_share" -> Num(100)]

Sale(r, c, amount, redeem) ==
  [op |-> "commit", receipt |-> r, card |-> c, amount |-> amount, redeem |-> redeem]
Refund(r)        == [op |-> "refund", receipt |-> r]
Adjust(c, delta) == [op |-> "adjust", card |-> c, delta |-> delta]
Block(c, on)     == [op |-> "block", card |-> c, on |-> on]
Delete(c, on)    == [op |-> "delete", card |-> c, on |-> on]
Put(k, v)        == [op |-> "settings", sent |-> {k},
                     kv |-> [x \in SettingKeys |-> v]]

Standing(c) == {Block(c, TRUE), Block(c, FALSE), Delete(c, TRUE), Delete(c, FALSE)}

\* r1 earns, r2 pays with the points; the last sale reuses r1 for other fields.
\* Meanwhile the card is blocked for good, deleted and restored.
MoneyRequests ==
  {Sale(r1, c1, 1, 0), Sale(r2, c1, 2, 1), Sale(r1, c1, 2, 1),
   Refund(r1), Refund(r2), Adjust(c1, 1), Adjust(c1, 0 - 1),
   Block(c1, TRUE), Delete(c1, TRUE), Delete(c1, FALSE)}

\* The same, with cards and settings that change under the tills; r1 is rung
\* up on two cards.
ShopRequests ==
  {Sale(r1, c1, 1, 0), Sale(r1, c2, 1, 0), Sale(r2, c1, 1, 1), Sale(r2, c1, 1, 0 - 1),
   Refund(r1), Refund(r2), Adjust(c1, 1), Adjust(c1, 0 - 1),
   Put("redeem_min", Num(2)), Put("redeem_min", [parses |-> FALSE, num |-> 0])}
  \cup Standing(c1)

\* A repeat of a purchase on a card whose standing changes.
StandingRequests == {Sale(r1, c1, 1, 0)} \cup Standing(c1)

\* One card that all tills queue for.
QueueRequests == {Sale(r1, c1, 1, 0), Refund(r1), Adjust(c1, 1), Block(c1, TRUE)}

TillSymmetry == Permutations(Handlers)
=============================================================================
