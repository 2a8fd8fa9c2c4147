---------------------------- MODULE WalletOutbox ----------------------------
(***************************************************************************)
(* The queue of wallet updates: internal/jobs/queue.go over the table      *)
(* wallet_jobs (internal/store/apple_jobs.go) and wallet.UpdateWallet.     *)
(*                                                                         *)
(* A handler that changed a card's points enqueues an update after its     *)
(* transaction; one goroutine, the worker, drains the table, wakes the     *)
(* Apple devices of the card by a push and shows the balance in Google     *)
(* Wallet.  Opening a card saves its whole object there too.  A balance is *)
(* represented by its number: how many times the points of the card have   *)
(* changed.                                                                *)
(*                                                                         *)
(* An operator named Slip... is wrong on purpose: a plausible slip in the  *)
(* operator below it, kept to show which property would notice.            *)
(***************************************************************************)
EXTENDS Naturals, FiniteSets, Functions

CONSTANTS
  Handlers,    \* goroutines serving requests
  Customers,   \* cards
  NoCustomer,
  ClaimLimit,  \* rows one drain claims, 50 in drain
  Devices,     \* the Apple devices, registered for every card
  Deaf,        \* those whose push always fails: token revoked, app removed
  Faults,      \* what may go wrong: "database", "google", "apple", "crash"
  Links,       \* TRUE when cards are opened (SaveURL) as well
  MaxChanges,  \* bound: changes of all cards' points
  MaxCrashes   \* bound: restarts of the process

ASSUME OutboxAssumption ==
  /\ IsFiniteSet(Handlers) /\ NoCustomer \notin Customers
  /\ ClaimLimit \in Nat \ {0} /\ MaxChanges \in Nat /\ MaxCrashes \in Nat
  /\ Faults \subseteq {"database", "google", "apple", "crash"} /\ Links \in BOOLEAN

VARIABLES
  balance,       \* the number of the balance in customers.points
  jobs,          \* wallet_jobs rows not processed yet
  clock,         \* the created_at of the next row
  google,        \* the number of the balance Google Wallet shows
  told,          \* per card and device: the balance when it was last woken
  missed,        \* the balance when it last went unlisted; read by no step,
                 \* kept for QueuedIsShown
  hpc, card, own,\* a handler, the card it serves, the balance it holds
  wake,          \* a token in the channel of capacity one
  wpc,           \* where the worker is
  batch,         \* claimed rows it has not looked at
  worked,        \* the map seen of drain
  cust, read,    \* the card it updates and the balance it read
  crashes

handling == <<hpc, card, own>>
working  == <<wpc, batch, worked, cust, read>>
table    == <<jobs, clock>>
shown    == <<google, told, missed>>
vars     == <<balance, table, shown, handling, wake, working, crashes>>

(* A row: whose card, the balance its handler had written, and its place   *)
(* in the order of created_at.                                             *)
Job == [cust : Customers, at : Nat, no : Nat]

HandlerLabels == {"idle", "count", "insert", "wake", "save"}
WorkerLabels  == {"wait", "claim", "next", "push", "patch", "complete"}

Init ==
  /\ balance = [c \in Customers |-> 0]
  /\ jobs = {} /\ clock = 0
  /\ google = [c \in Customers |-> 0]
  /\ told = [c \in Customers |-> [d \in Devices |-> 0]]
  /\ missed = [c \in Customers |-> [d \in Devices |-> 0]]
  /\ hpc = [h \in Handlers |-> "idle"]
  /\ card = [h \in Handlers |-> NoCustomer]
  /\ own = [h \in Handlers |-> 0]
  /\ wake = FALSE
  /\ wpc = "wait" /\ batch = {} /\ worked = {} /\ cust = NoCustomer /\ read = 0
  /\ crashes = 0

PendingFor(c) == {j \in jobs : j.cust = c}

Finish(h) ==
  /\ hpc' = [hpc EXCEPT ![h] = "idle"]
  /\ card' = [card EXCEPT ![h] = NoCustomer]
  /\ own' = [own EXCEPT ![h] = 0]

-----------------------------------------------------------------------------
(* A handler.                                                              *)

(* Commit, Refund or Adjust has written a new balance and committed it.    *)
Change(h, c) ==
  /\ hpc[h] = "idle" /\ SumFunction(balance) < MaxChanges
  /\ balance' = [balance EXCEPT ![c] = @ + 1]
  /\ hpc' = [hpc EXCEPT ![h] = "count"]
  /\ card' = [card EXCEPT ![h] = c]
  /\ own' = [own EXCEPT ![h] = balance[c] + 1]
  /\ UNCHANGED <<table, shown, wake, working, crashes>>

SlipAlwaysInsert(c) == TRUE
MustInsert(c) == PendingFor(c) = {}

(* EnqueueWalletJob counts the rows of the card, then inserts: two         *)
(* statements on two connections.                                          *)
Count(h) ==
  /\ hpc[h] = "count"
  /\ hpc' = [hpc EXCEPT ![h] = IF MustInsert(card[h]) THEN "insert" ELSE "wake"]
  /\ UNCHANGED <<balance, table, shown, card, own, wake, working, crashes>>

Insert(h) ==
  /\ hpc[h] = "insert"
  /\ jobs' = jobs \cup {[cust |-> card[h], at |-> own[h], no |-> clock]}
  /\ clock' = clock + 1
  /\ hpc' = [hpc EXCEPT ![h] = "wake"]
  /\ UNCHANGED <<balance, shown, card, own, wake, working, crashes>>

SlipUnbuffered == wpc = "wait"
Token == TRUE

(* The send that does not block: the token is in the channel afterwards,   *)
(* put there now or before.                                                *)
Wake(h) ==
  /\ hpc[h] = "wake"
  /\ wake' = (wake \/ Token)
  /\ Finish(h)
  /\ UNCHANGED <<balance, table, shown, working, crashes>>

(* The request's deadline or the database ends the enqueue: logged only.   *)
EnqueueFails(h) ==
  /\ "database" \in Faults
  /\ hpc[h] \in {"count", "insert"}
  /\ Finish(h)
  /\ UNCHANGED <<balance, table, shown, wake, working, crashes>>

(* Opening a card, or enrolling: SaveURL stores the whole object, points   *)
(* included, as they were when the card was read.                          *)
OpenCard(h, c) ==
  /\ Links
  /\ hpc[h] = "idle"
  /\ hpc' = [hpc EXCEPT ![h] = "save"]
  /\ card' = [card EXCEPT ![h] = c]
  /\ own' = [own EXCEPT ![h] = balance[c]]
  /\ UNCHANGED <<balance, table, shown, wake, working, crashes>>

SaveObject(h) ==
  /\ hpc[h] = "save"
  /\ \/ google' = [google EXCEPT ![card[h]] = own[h]]
     \/ "google" \in Faults /\ UNCHANGED google
  /\ Finish(h)
  /\ UNCHANGED <<balance, table, told, missed, wake, working, crashes>>

-----------------------------------------------------------------------------
(* The worker.                                                             *)
Goto(label) == wpc' = label /\ UNCHANGED <<batch, worked, cust, read>>

Rouse ==
  /\ wpc = "wait" /\ wake
  /\ wake' = FALSE
  /\ Goto("claim")
  /\ UNCHANGED <<balance, table, shown, handling, crashes>>

Tick ==
  /\ wpc = "wait"
  /\ Goto("claim")
  /\ UNCHANGED <<balance, table, shown, handling, wake, crashes>>

OldestRows == {j \in jobs : Cardinality({k \in jobs : k.no < j.no}) < ClaimLimit}

Claim ==
  /\ wpc = "claim"
  /\ batch' = OldestRows
  /\ wpc' = "next"
  /\ UNCHANGED <<balance, table, shown, handling, wake, worked, cust, read, crashes>>

ClaimFails ==
  /\ "database" \in Faults
  /\ wpc = "claim"
  /\ Goto("wait")
  /\ UNCHANGED <<balance, table, shown, handling, wake, crashes>>

NextRow(j) == j \in batch /\ \A k \in batch : j.no <= k.no

Skip ==
  /\ wpc = "next"
  /\ \E j \in batch : NextRow(j) /\ j.cust \in worked /\ batch' = batch \ {j}
  /\ UNCHANGED <<balance, table, shown, handling, wake, wpc, worked, cust, read, crashes>>

(* UpdateWallet reads the card.                                            *)
Read ==
  /\ wpc = "next"
  /\ \E j \in batch :
       /\ NextRow(j) /\ j.cust \notin worked
       /\ batch' = batch \ {j}
       /\ worked' = worked \cup {j.cust}
       /\ cust' = j.cust
       /\ read' = balance[j.cust]
  /\ wpc' = "push"
  /\ UNCHANGED <<balance, table, shown, handling, wake, crashes>>

(* It cannot: FailWalletJob counts an attempt that nothing ever reads.     *)
ReadFails ==
  /\ "database" \in Faults
  /\ wpc = "next"
  /\ \E j \in batch :
       /\ NextRow(j) /\ j.cust \notin worked
       /\ batch' = batch \ {j}
       /\ worked' = worked \cup {j.cust}
  /\ UNCHANGED <<balance, table, shown, handling, wake, wpc, cust, read, crashes>>

SlipStopAtFirst == IF Deaf = {} THEN Devices ELSE {}
Reached == Devices \ Deaf

(* A push to each device: one that fails is passed over, a fault of Apple's*)
(* or of the bearer token may end the loop anywhere; any error is logged   *)
(* and forgotten.  The push carries nothing; the device asks for its pass  *)
(* and finds the points the card has by then.                              *)
Push ==
  /\ wpc = "push"
  /\ \E woken \in IF "apple" \in Faults THEN SUBSET Reached ELSE {Reached} :
       told' = [told EXCEPT ![cust] =
                  [d \in Devices |-> IF d \in woken THEN balance[cust] ELSE told[cust][d]]]
  /\ Goto("patch")
  /\ UNCHANGED <<balance, table, google, missed, handling, wake, crashes>>

(* ListAppleDevices fails: logged, and no device is woken for these rows,  *)
(* which are completed all the same.                                       *)
ListFails ==
  /\ "database" \in Faults
  /\ wpc = "push"
  /\ missed' = [missed EXCEPT ![cust] = [d \in Devices |-> balance[cust]]]
  /\ Goto("patch")
  /\ UNCHANGED <<balance, table, google, told, handling, wake, crashes>>

(* PatchPoints; an error of Google's is logged and forgotten.              *)
Patch ==
  /\ wpc = "patch"
  /\ \/ google' = [google EXCEPT ![cust] = read]
     \/ "google" \in Faults /\ UNCHANGED google
  /\ Goto("complete")
  /\ UNCHANGED <<balance, table, told, missed, handling, wake, crashes>>

Leave == /\ cust' = NoCustomer /\ read' = 0
         /\ wpc' = "next" /\ UNCHANGED <<batch, worked>>

(* Every row of the card is marked processed, claimed or not.              *)
Complete ==
  /\ wpc = "complete"
  /\ jobs' = jobs \ PendingFor(cust)
  /\ Leave
  /\ UNCHANGED <<balance, clock, shown, handling, wake, crashes>>

CompleteFails ==
  /\ "database" \in Faults
  /\ wpc = "complete"
  /\ Leave
  /\ UNCHANGED <<balance, table, shown, handling, wake, crashes>>

\* The map seen lives as long as one drain.
SlipSeenKept == worked
FreshSeen == {}

Drained ==
  /\ wpc = "next" /\ batch = {}
  /\ wpc' = "wait" /\ worked' = FreshSeen
  /\ UNCHANGED <<balance, table, shown, handling, wake, batch, cust, read, crashes>>

-----------------------------------------------------------------------------
(* The process dies: the tables and Google keep what they have.            *)
Crash ==
  /\ "crash" \in Faults /\ crashes < MaxCrashes
  /\ crashes' = crashes + 1
  /\ hpc' = [h \in Handlers |-> "idle"]
  /\ card' = [h \in Handlers |-> NoCustomer]
  /\ own' = [h \in Handlers |-> 0]
  /\ wake' = FALSE
  /\ wpc' = "wait" /\ batch' = {} /\ worked' = {} /\ cust' = NoCustomer /\ read' = 0
  /\ UNCHANGED <<balance, table, shown>>

Handle(h) == \/ \E c \in Customers : Change(h, c) \/ OpenCard(h, c)
             \/ Count(h) \/ Insert(h) \/ Wake(h) \/ EnqueueFails(h) \/ SaveObject(h)

Worker == Rouse \/ Tick \/ Claim \/ ClaimFails \/ Skip \/ Read \/ ReadFails
          \/ Push \/ ListFails \/ Patch \/ Complete \/ CompleteFails \/ Drained

Next == (\E h \in Handlers : Handle(h)) \/ Worker \/ Crash

Spec == Init /\ [][Next]_vars

(* The worker's goroutine runs, its ticker ticks, and the database does    *)
(* not refuse the same statement for ever.                                 *)
FairSpec == /\ Spec
            /\ WF_vars(Worker) /\ SF_vars(Claim) /\ SF_vars(Read) /\ SF_vars(Complete)
-----------------------------------------------------------------------------
(* Properties.                                                             *)

(* Every column, handler and worker variable keeps its type.               *)
TypeOK ==
  /\ balance \in [Customers -> Nat]
  /\ jobs \subseteq Job /\ batch \subseteq Job /\ clock \in Nat
  /\ google \in [Customers -> Nat] /\ told \in [Customers -> [Devices -> Nat]]
  /\ missed \in [Customers -> [Devices -> Nat]]
  /\ hpc \in [Handlers -> HandlerLabels]
  /\ card \in [Handlers -> Customers \cup {NoCustomer}]
  /\ own \in [Handlers -> Nat]
  /\ wake \in BOOLEAN
  /\ wpc \in WorkerLabels
  /\ worked \subseteq Customers
  /\ cust \in Customers \cup {NoCustomer} /\ read \in Nat
  /\ crashes \in Nat

(* Rows and handlers hold balances that were written.                      *)
Written ==
  /\ \A j \in jobs : j.at <= balance[j.cust]
  /\ \A h \in Handlers : hpc[h] \in {"count", "insert"} =>
       card[h] \in Customers /\ own[h] <= balance[card[h]]

(* Why no row is skipped: while the worker is between reading a card and   *)
(* marking its rows there is a row of the card on the table, so handlers   *)
(* that count now insert nothing, and those about to insert counted before *)
(* the read.                                                               *)
Covered ==
  /\ \A j \in batch : j.cust \notin worked => j \in jobs
  /\ wpc \in {"push", "patch", "complete"} =>
       /\ cust \in worked
       /\ PendingFor(cust) # {}
       /\ \A j \in PendingFor(cust) : j.at <= read
       /\ \A h \in Handlers : hpc[h] = "insert" /\ card[h] = cust => own[h] <= read

(* Every step keeps the three together: what EnqueueWalletJob, drain and   *)
(* CompleteWalletJobsForCustomer rely on of one another.                   *)
Sound == TypeOK /\ Written /\ Covered

(* A row about to be inserted counts as one already: the handlers of a     *)
(* card that saw an empty table each add one row to it, and none can join  *)
(* them once a row is there.                                               *)
Inserting(c) == {h \in Handlers : hpc[h] = "insert" /\ card[h] = c}

Coalesced ==
  /\ IsFiniteSet(jobs)
  /\ \A c \in Customers :
       Cardinality(PendingFor(c)) + Cardinality(Inserting(c)) <= Cardinality(Handlers)

(* The inductive invariant of the queue.                                   *)
Inv == Sound /\ Coalesced

(* The worker marks every row of the card, rows it never claimed and rows  *)
(* inserted behind its back included.  None of them is for a balance newer *)
(* than the one it read: because a row is only inserted when the handler   *)
(* saw none, no update on the table is dropped unserved.                   *)
JobsNotSkipped == [][\A j \in jobs \ jobs' : j.at <= read]_vars

(* Coalescing bounds the table: a card has at most one row per handler     *)
(* waiting, however fast its points change.                                *)
BacklogBounded ==
  \A c \in Customers : Cardinality(PendingFor(c)) <= Cardinality(Handlers)

(* The channel holds one token and senders never block, yet no wake-up is  *)
(* lost: rows waiting on an idle worker mean a token is waiting too, and   *)
(* the 400 ms ticker is only there for what failed.                        *)
WakeIsKept ==
  wpc = "wait" /\ jobs # {} /\ (\A h \in Handlers : hpc[h] # "wake") => wake

(* An update that reached the table reaches Google and wakes every device  *)
(* of the card, a restart or a failing database notwithstanding, whatever  *)
(* becomes of the pushes to other devices.  One failure is not made good:  *)
(* rows served when the devices could not be listed wake none of them.     *)
QueuedIsShown ==
  \A c \in Customers : \A n \in 1..MaxChanges :
    (\E j \in jobs : j.cust = c /\ j.at = n)
      ~> /\ google[c] >= n
         /\ \A d \in Devices \ Deaf : told[c][d] >= n \/ missed[c][d] >= n

(* Every change is followed by an update (docs/api.md:448): when no handler*)
(* is about to enqueue for a card, no row waits for it and the worker is   *)
(* not at it, Google shows the balance.                                    *)
NothingForgotten ==
  \A c \in Customers :
    /\ \A h \in Handlers : card[h] # c
    /\ PendingFor(c) = {}
    /\ cust # c
    => google[c] = balance[c]

=============================================================================
