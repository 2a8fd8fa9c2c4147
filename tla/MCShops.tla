------------------------------- MODULE MCShops -------------------------------
(***************************************************************************)
(* Instances of Shops for TLC: a cashier and an administrator, the         *)
(* flagship and a store that opens and closes, around midnight in Moscow,  *)
(* which is 21:00 UTC.                                                     *)
(***************************************************************************)
EXTENDS Shops, TLC

CONSTANTS h1, h2, mall, plaza, ann, eve, r1, r2, new

HandlerSymmetry == Permutations(Handlers)

Sell(s, r)  == [op |-> "sale", shop |-> s, receipt |-> r]
Refund(r)   == [op |-> "refund", receipt |-> r]
Move(p, s)  == [op |-> "move", who |-> p, shop |-> s]
Patch(s, f) == [op |-> "patch", shop |-> s,
                sent |-> [g \in Fields |-> IF g = f THEN new ELSE NoText]]
Close(s)    == [op |-> "close", shop |-> s]
Hire(s)     == [op |-> "hire", shop |-> s]

\* Sales, refunds, moves, and a store that closes.
ShopRequests == {Sell(NoShop, r1), Sell(plaza, r1), Refund(r1), Move(ann, mall),
                 Move(ann, NoShop), Hire(plaza), Patch(plaza, "name"),
                 Close(plaza)}

\* Both fields of a store.
PatchRequests == {Patch(mall, "name"), Patch(mall, "address")}

\* Two sales without a store, and a move.
MoveRequests == {Sell(NoShop, r1), Sell(NoShop, r2), Move(ann, plaza)}
=============================================================================
