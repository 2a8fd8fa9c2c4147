--------------------------- MODULE MCWalletOutbox ---------------------------
(***************************************************************************)
(* Instances of WalletOutbox for TLC.                                      *)
(***************************************************************************)
EXTENDS WalletOutbox, TLC

CONSTANTS h1, h2, c1, c2, d1, d2

HandlerSymmetry == Permutations(Handlers)
CardSymmetry == HandlerSymmetry \cup Permutations(Customers)
=============================================================================
