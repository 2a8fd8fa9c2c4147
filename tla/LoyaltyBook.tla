---------------------------- MODULE LoyaltyBook ----------------------------
(***************************************************************************)
(* What the loyalty service promises, with no handlers, transactions or    *)
(* locks: one book of cards and receipts in which every purchase, refund   *)
(* and correction is a single indivisible entry.                           *)
(***************************************************************************)
EXTENDS Integers

CONSTANTS Cards, ReceiptIds, NoCard,
          Sales,        \* purchases that may be asked for
          Corrections,  \* corrections an administrator may ask for
          MaxPoints     \* the most a card or a purchase may hold

VARIABLES points, blocked, deleted, receipts

book == <<points, blocked, deleted, receipts>>

Blank == [status |-> "absent", card |-> NoCard, amount |-> 0,
          redeem |-> 0, earn |-> 0, after |-> 0, afterRefund |-> 0]

Init ==
  /\ points   = [c \in Cards |-> 0]
  /\ blocked  = [c \in Cards |-> FALSE]
  /\ deleted  = [c \in Cards |-> FALSE]
  /\ receipts = [r \in ReceiptIds |-> Blank]

Balance(c, n) == n \in 0..MaxPoints /\ points' = [points EXCEPT ![c] = n]

(* A purchase is entered once, on a card in good standing that covers it.  *)
Purchase(sale) ==
  /\ receipts[sale.receipt] = Blank
  /\ ~blocked[sale.card] /\ ~deleted[sale.card]
  /\ sale.redeem \in 0..points[sale.card]
  /\ \E earn \in 0..MaxPoints :
       LET after == points[sale.card] - sale.redeem + earn
       IN  /\ Balance(sale.card, after)
           /\ receipts' = [receipts EXCEPT ![sale.receipt] =
                [status |-> "committed", card |-> sale.card, amount |-> sale.amount,
                 redeem |-> sale.redeem, earn |-> earn, after |-> after,
                 afterRefund |-> 0]]
  /\ UNCHANGED <<blocked, deleted>>

(* A refund cancels a purchase once; what was earned and already spent is  *)
(* forgiven.                                                               *)
Cancel(r) ==
  LET p     == receipts[r]
      kept  == points[p.card] - p.earn
      after == (IF kept < 0 THEN 0 ELSE kept) + p.redeem
  IN  /\ p.status = "committed"
      /\ Balance(p.card, after)
      /\ receipts' = [receipts EXCEPT ![r] =
                        [p EXCEPT !.status = "refunded", !.afterRefund = after]]
      /\ UNCHANGED <<blocked, deleted>>

Correct(c, delta) ==
  /\ Balance(c, points[c] + delta)
  /\ UNCHANGED <<blocked, deleted, receipts>>

SetStanding(c) ==
  /\ \/ blocked' = [blocked EXCEPT ![c] = ~@] /\ UNCHANGED deleted
     \/ deleted' = [deleted EXCEPT ![c] = ~@] /\ UNCHANGED blocked
  /\ UNCHANGED <<points, receipts>>

Next ==
  \/ \E sale \in Sales : Purchase(sale)
  \/ \E r \in ReceiptIds : Cancel(r)
  \/ \E q \in Corrections : Correct(q.card, q.delta)
  \/ \E c \in Cards : SetStanding(c)

Spec == Init /\ [][Next]_book
=============================================================================
