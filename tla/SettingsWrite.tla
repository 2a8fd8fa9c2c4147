---------------------------- MODULE SettingsWrite ----------------------------
(***************************************************************************)
(* PUT /admin/loyalty-settings: putSettings (internal/httpapi/admin.go)    *)
(* over PutSettings and SettingsMap (internal/store/customers.go).         *)
(*                                                                         *)
(* PutSettings upserts the keys of a Go map, one statement each, in the    *)
(* random order in which range yields them, inside one READ COMMITTED      *)
(* transaction.  On Postgres an upsert locks its row until the end of the  *)
(* transaction, so two saves may wait for each other.  SQLite has one      *)
(* connection, MaxOpenConns = 1, and transactions follow one another.      *)
(*                                                                         *)
(* A reader of the settings runs one statement, which sees the committed   *)
(* rows: what it computes with is stored, whatever is being saved.         *)
(*                                                                         *)
(* An operator named Slip... is wrong on purpose: a plausible slip in the  *)
(* operator below it, kept to show which property would notice.            *)
(***************************************************************************)
EXTENDS LoyaltyRules, FiniteSets

CONSTANTS
  Handlers,     \* goroutines serving administrators
  Saves,        \* bodies they may send, any number of times
  InitialMaps,  \* what the table may hold at the start
  MaxOpenConns, \* 1 on SQLite, 20 on Postgres (store.go)
  Amounts, Balances, Asked, \* receipts, cards and requests to quote for
  NoHandler, NoSave, NoKey

SettingsMaps == [SettingKeys -> StoredValue]
SaveRequest  == [sent : SUBSET SettingKeys, kv : SettingsMaps]

ASSUME SavesAssumption == Saves \subseteq SaveRequest /\ NoSave \notin Saves
ASSUME MapsAssumption  == InitialMaps \subseteq SettingsMaps
ASSUME PoolAssumption  == IsFiniteSet(Handlers) /\ MaxOpenConns \in Nat \ {0}
ASSUME NobodyAssumption == NoHandler \notin Handlers /\ NoKey \notin SettingKeys
ASSUME QuotesAssumption ==
  Amounts \subseteq Nat /\ Balances \subseteq Nat /\ Asked \subseteq Int

VARIABLES
  stored,    \* the committed rows of loyalty_settings
  draft,     \* the newest version of each row, committed or not
  holder,    \* whose transaction wrote that version and locks the row
  inTx,      \* handlers whose transaction holds a connection
  pc, req,   \* where a handler is, and what it saves
  want, left \* the key it is upserting, and those range has yet to yield

rows  == <<stored, draft, holder>>
loop  == <<want, left>>
vars  == <<rows, inTx, pc, req, loop>>

Labels == {"idle", "begin", "upsert", "commit", "answer"}

Init ==
  /\ stored \in InitialMaps
  /\ draft = stored
  /\ holder = [k \in SettingKeys |-> NoHandler]
  /\ inTx = {}
  /\ pc = [h \in Handlers |-> "idle"]
  /\ req = [h \in Handlers |-> NoSave]
  /\ want = [h \in Handlers |-> NoKey]
  /\ left = [h \in Handlers |-> {}]

ConnectionFree == Cardinality(inTx) < MaxOpenConns

Goto(h, label) == pc' = [pc EXCEPT ![h] = label]

\* range yields any of the keys that are left, until there is none.
Yield(h, keys) ==
  \/ /\ keys = {}
     /\ Goto(h, "commit")
     /\ want' = [want EXCEPT ![h] = NoKey]
     /\ left' = [left EXCEPT ![h] = {}]
  \/ \E k \in keys :
       /\ Goto(h, "upsert")
       /\ want' = [want EXCEPT ![h] = k]
       /\ left' = [left EXCEPT ![h] = keys \ {k}]

SlipLocksKept(h) == inTx' = inTx \ {h} /\ UNCHANGED holder

\* COMMIT or ROLLBACK: the connection and the row locks are given back.
EndTx(h) ==
  /\ inTx' = inTx \ {h}
  /\ holder' = [k \in SettingKeys |-> IF holder[k] = h THEN NoHandler ELSE holder[k]]

\* The handler returns, whatever it answered.
Return(h) ==
  /\ Goto(h, "idle")
  /\ req' = [req EXCEPT ![h] = NoSave]
  /\ want' = [want EXCEPT ![h] = NoKey]
  /\ left' = [left EXCEPT ![h] = {}]

-----------------------------------------------------------------------------
Accept(h) ==
  /\ pc[h] = "idle"
  /\ \E q \in Saves : req' = [req EXCEPT ![h] = q]
  /\ Goto(h, "begin")
  /\ UNCHANGED <<rows, inTx, loop>>

Begin(h) ==
  /\ pc[h] = "begin"
  /\ ConnectionFree
  /\ inTx' = inTx \cup {h}
  /\ Yield(h, req[h].sent)
  /\ UNCHANGED <<rows, req>>

SlipNoWait(k) == k \in SettingKeys
RowFree(k) == holder[k] = NoHandler

(* INSERT ... ON CONFLICT DO UPDATE waits for the row, then writes it.     *)
Upsert(h) ==
  /\ pc[h] = "upsert"
  /\ RowFree(want[h])
  /\ draft' = [draft EXCEPT ![want[h]] = req[h].kv[want[h]]]
  /\ holder' = [holder EXCEPT ![want[h]] = h]
  /\ Yield(h, left[h])
  /\ UNCHANGED <<stored, inTx, req>>

Commit(h) ==
  /\ pc[h] = "commit"
  /\ stored' = [k \in SettingKeys |-> IF holder[k] = h THEN draft[k] ELSE stored[k]]
  /\ EndTx(h)
  /\ Goto(h, "answer")
  /\ UNCHANGED <<draft, req, loop>>

(* recordActivity, then getSettings: a statement each on a connection of   *)
(* its own, and the answer is the whole map.                               *)
Answer(h) ==
  /\ pc[h] = "answer"
  /\ ConnectionFree
  /\ Return(h)
  /\ UNCHANGED <<rows, inTx>>

SlipDraftKept(h) == draft
Undone(h) == [k \in SettingKeys |-> IF holder[k] = h THEN stored[k] ELSE draft[k]]

Rollback(h) ==
  /\ draft' = Undone(h)
  /\ EndTx(h)
  /\ Return(h)
  /\ UNCHANGED stored

(* Postgres looks for a ring of transactions that wait for one another and *)
(* makes a statement of one of them fail.                                  *)
SlipNoDetector(h) == FALSE
Deadlocked(h) ==
  \E ring \in SUBSET Handlers :
    /\ h \in ring
    /\ \A g \in ring : pc[g] = "upsert"
    /\ {holder[want[g]] : g \in ring} = ring

Abort(h) == Deadlocked(h) /\ Rollback(h)

(* The deadline, a client gone, a failing statement or a crash.            *)
Drop(h) == pc[h] # "idle" /\ Rollback(h)

Work(h) == Begin(h) \/ Upsert(h) \/ Commit(h) \/ Answer(h) \/ Abort(h)

Next == \E h \in Handlers : Accept(h) \/ Work(h) \/ Drop(h)

Spec == Init /\ [][Next]_vars

(* The pool and the lock queues serve waiters in the order they came.      *)
FairSpec == Spec /\ \A h \in Handlers : SF_vars(Work(h))

-----------------------------------------------------------------------------
(* Properties.                                                             *)

(* Every column and variable keeps its type.                               *)
TypeOK ==
  /\ stored \in SettingsMaps /\ draft \in SettingsMaps
  /\ holder \in [SettingKeys -> Handlers \cup {NoHandler}]
  /\ inTx \in SUBSET Handlers
  /\ pc \in [Handlers -> Labels]
  /\ req \in [Handlers -> Saves \cup {NoSave}]
  /\ want \in [Handlers -> SettingKeys \cup {NoKey}]
  /\ left \in [Handlers -> SUBSET SettingKeys]

(* A handler past Accept has a save to make, and is upserting one of its   *)
(* keys while the others wait their turn.                                  *)
Saving ==
  \A h \in Handlers :
    /\ pc[h] # "idle" => req[h] \in Saves
    /\ pc[h] = "upsert" => /\ want[h] \in req[h].sent \ left[h]
                           /\ left[h] \subseteq req[h].sent
    /\ pc[h] = "commit" => left[h] = {} /\ want[h] = NoKey

\* The keys a transaction has written so far.
Done(h) == IF pc[h] \in {"upsert", "commit"}
           THEN req[h].sent \ (left[h] \cup {want[h]}) ELSE {}

(* The rows a transaction has written are the rows it holds, no other      *)
(* transaction writes them meanwhile, and a row nobody holds is committed. *)
Isolated ==
  /\ inTx = {h \in Handlers : pc[h] \in {"upsert", "commit"}}
  /\ \A k \in SettingKeys :
       /\ holder[k] = NoHandler => draft[k] = stored[k]
       /\ \A h \in Handlers : /\ holder[k] = h <=> k \in Done(h)
                              /\ holder[k] = h => draft[k] = req[h].kv[k]

(* What PutSettings relies on: its transaction owns the rows it wrote.     *)
Inv == TypeOK /\ Saving /\ Isolated

Book == INSTANCE SettingsBook WITH Keys <- SettingKeys

(* Saves that write their keys one by one, in any order, overtaking and    *)
(* aborting one another, look as if each happened at once or not at all: a *)
(* purchase is never priced by half of a save.                             *)
SavedAtOnce == Book!Spec

(* Every save ends, answered or refused: a ring of saves waiting for one   *)
(* another's rows is broken, and what the refused one held is released.    *)
SavesEnd == \A h \in Handlers : pc[h] # "idle" ~> pc[h] = "idle"

-----------------------------------------------------------------------------
(* What the rules guarantee under any history of saves, values that do not *)
(* parse and values nobody should store included.                          *)
Rules == ParseSettings(stored)

(* The till offers exactly what a commit accepts (MaxRedeemable against    *)
(* CheckRedeem), for every receipt, balance and request.                   *)
OffersAreSharp ==
  \A amount \in Amounts, p \in Balances, n \in Asked : OfferIsSharp(p, amount, n, Rules)

(* A quote the till shows adds up to the receipt, and points pay no more   *)
(* than the programme's share of it.                                       *)
QuotesAddUp ==
  \A amount \in Amounts, p \in Balances, n \in Asked : QuoteAddsUp(p, amount, n, Rules)

(* Nobody earns more by splitting a receipt in two (ComputeEarn).          *)
SplitsLose == \A a \in Amounts, b \in Amounts : SplittingLoses(a, b, Rules)

(* Nobody earns more by paying with points (ComputeEarn).                  *)
RedeemsEarnNothing ==
  \A amount \in Amounts, n \in Balances : PointsEarnNothing(amount, n, Rules)

=============================================================================
