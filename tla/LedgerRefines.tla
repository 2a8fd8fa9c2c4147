--------------------------- MODULE LedgerRefines ---------------------------
(***************************************************************************)
(* Ledger implements LoyaltyBook, with the tables as the book: a step that *)
(* writes is one entry, every other step of a handler is a stutter.        *)
(***************************************************************************)
EXTENDS Ledger

Book == INSTANCE LoyaltyBook
          WITH Cards       <- Customers,
               NoCard      <- NoCustomer,
               Sales       <- Requests \cap CommitRequest,
               Corrections <- Requests \cap AdjustRequest,
               MaxPoints   <- ColMax

(* Seen from the tables, concurrent handlers that read, lock, check and    *)
(* write in separate steps behave as if every purchase, refund, correction *)
(* and change of standing happened at once.                                *)
ImplementsBook == Book!Spec
=============================================================================
