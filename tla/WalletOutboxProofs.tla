------------------------- MODULE WalletOutboxProofs -------------------------
(***************************************************************************)
(* Proofs about WalletOutbox: Inv is inductive, and from it no update that *)
(* reached the table is dropped unserved, for any number of handlers,      *)
(* cards and rows, whatever fails and however often the process restarts.  *)
(***************************************************************************)
EXTENDS WalletOutbox, FiniteSetTheorems, TLAPS

USE DEF HandlerLabels, WorkerLabels

LEMMA InitSound == Init => Sound
<1>. SUFFICES ASSUME Init PROVE Sound
  OBVIOUS
<1>1. TypeOK
  <2>1. balance \in [Customers -> Nat] /\ google \in [Customers -> Nat]
    BY DEF Init
  <2>4. told \in [Customers -> [Devices -> Nat]] /\ missed \in [Customers -> [Devices -> Nat]]
    BY DEF Init
  <2>2. card \in [Handlers -> Customers \cup {NoCustomer}] /\ own \in [Handlers -> Nat]
    BY DEF Init
  <2>3. hpc \in [Handlers -> HandlerLabels]
    BY DEF Init
  <2>. QED BY <2>1, <2>2, <2>3, <2>4 DEF Init, TypeOK
<1>2. Written /\ Covered
  BY DEF Init, Written, Covered
<1>. QED BY <1>1, <1>2 DEF Sound

(* A handler's step leaves the worker alone, except that it may add a row. *)
LEMMA HandlerSound ==
  ASSUME Sound, NEW h \in Handlers, Handle(h)
  PROVE  Sound'
<1>1. ASSUME NEW c \in Customers, Change(h, c) PROVE Sound'
  <2>1. TypeOK'
    BY <1>1 DEF Sound, TypeOK, Change, working, Job, table, shown
  <2>2. Written'
    BY <1>1 DEF Sound, TypeOK, Written, Change, table, shown, Job
  <2>3. Covered'
    BY <1>1 DEF Sound, TypeOK, Covered, Change, table, shown, working, PendingFor, Job
  <2>. QED BY <2>1, <2>2, <2>3 DEF Sound
<1>2. ASSUME NEW c \in Customers, OpenCard(h, c) PROVE Sound'
  <2>1. TypeOK'
    BY <1>2 DEF Sound, TypeOK, OpenCard, working, Job, table, shown
  <2>2. Written'
    BY <1>2 DEF Sound, TypeOK, Written, OpenCard, table, shown
  <2>3. Covered'
    BY <1>2 DEF Sound, TypeOK, Covered, OpenCard, table, shown, working, PendingFor
  <2>. QED BY <2>1, <2>2, <2>3 DEF Sound
<1>3. CASE Count(h)
  <2>1. TypeOK'
    BY <1>3 DEF Sound, TypeOK, Count, working, Job, table, shown
  <2>2. Written'
    BY <1>3 DEF Sound, TypeOK, Written, Count, table, shown
  <2>3. Covered'
    \* A handler that counts a row of the card inserts none.
    BY <1>3 DEF Sound, TypeOK, Covered, Count, MustInsert, table, shown, working, PendingFor
  <2>. QED BY <2>1, <2>2, <2>3 DEF Sound
<1>4. CASE Insert(h)
  <2> DEFINE new == [cust |-> card[h], at |-> own[h], no |-> clock]
  <2>1. card[h] \in Customers /\ own[h] <= balance[card[h]] /\ own[h] \in Nat
    BY <1>4 DEF Sound, TypeOK, Written, Insert
  <2>2. new \in Job /\ jobs' = jobs \cup {new}
    BY <1>4, <2>1 DEF Insert, Sound, TypeOK, Job
  <2>3. TypeOK'
    BY <1>4, <2>2 DEF Sound, TypeOK, Insert, working, shown
  <2>4. Written'
    BY <1>4, <2>1, <2>2 DEF Sound, TypeOK, Written, Insert
  <2>5. Covered'
    BY <1>4, <2>1, <2>2 DEF Sound, TypeOK, Covered, Insert, working, PendingFor
  <2>. QED BY <2>3, <2>4, <2>5 DEF Sound
<1>5. CASE Wake(h) \/ EnqueueFails(h) \/ SaveObject(h)
  <2>1. TypeOK'
    <3>1. wake' \in BOOLEAN
      BY <1>5, Zenon DEF Sound, TypeOK, Wake, Token, EnqueueFails, SaveObject
    <3>2. /\ UNCHANGED <<balance, jobs, clock, told, missed, wpc, batch, worked, cust, read, crashes>>
          /\ Finish(h)
      BY <1>5 DEF Wake, EnqueueFails, SaveObject, working, table, shown
    <3>3. google' \in [Customers -> Nat]
      BY <1>5 DEF Sound, TypeOK, Wake, EnqueueFails, SaveObject, shown
    <3>4. /\ hpc' \in [Handlers -> HandlerLabels] /\ own' \in [Handlers -> Nat]
          /\ card' \in [Handlers -> Customers \cup {NoCustomer}]
      BY <3>2 DEF Sound, TypeOK, Finish, HandlerLabels
    <3>. QED BY <3>1, <3>2, <3>3, <3>4 DEF Sound, TypeOK
  <2>2. Written'
    BY <1>5 DEF Sound, TypeOK, Written, Wake, EnqueueFails, SaveObject, Finish, table, shown
  <2>3. Covered'
    BY <1>5 DEF Sound, TypeOK, Covered, Wake, EnqueueFails, SaveObject, Finish,
                table, shown, working, PendingFor
  <2>. QED BY <2>1, <2>2, <2>3 DEF Sound
<1>. QED BY <1>1, <1>2, <1>3, <1>4, <1>5 DEF Handle

(* The worker's steps; reading a card is the one that founds Covered.      *)
LEMMA WorkerSound == ASSUME Sound, Worker PROVE Sound'
<1>1. CASE Rouse \/ Tick \/ ClaimFails
  <2>1. TypeOK' /\ Written'
    BY <1>1 DEF Sound, TypeOK, Written, Rouse, Tick, ClaimFails, Goto, handling, table, shown
  <2>2. Covered'
    BY <1>1 DEF Sound, Covered, Rouse, Tick, ClaimFails, Goto, handling, table, shown
  <2>. QED BY <2>1, <2>2 DEF Sound
<1>2. CASE Claim
  <2>1. TypeOK' /\ Written'
    BY <1>2 DEF Sound, TypeOK, Written, Claim, OldestRows, handling, table, shown
  <2>2. Covered'
    BY <1>2 DEF Sound, Covered, Claim, OldestRows, handling, table, shown
  <2>. QED BY <2>1, <2>2 DEF Sound
<1>3. CASE Skip \/ ReadFails
  <2>1. TypeOK' /\ Written'
    BY <1>3 DEF Sound, TypeOK, Written, Skip, ReadFails, handling, table, shown, Job
  <2>2. Covered'
    BY <1>3 DEF Sound, Covered, Skip, ReadFails, handling, table, shown
  <2>. QED BY <2>1, <2>2 DEF Sound
<1>4. CASE Read
  <2>1. PICK j \in batch : /\ j.cust \notin worked
                           /\ batch' = batch \ {j}
                           /\ worked' = worked \cup {j.cust}
                           /\ cust' = j.cust
                           /\ read' = balance[j.cust]
    BY <1>4 DEF Read
  <2>2. j \in jobs /\ j.cust \in Customers /\ balance[j.cust] \in Nat
    BY <2>1 DEF Sound, TypeOK, Covered, Job
  <2>3. UNCHANGED <<balance, jobs, clock, google, hpc, card, own, wake, told, missed, crashes>> /\ wpc' = "push"
    BY <1>4 DEF Read, handling, table, shown
  <2>4. TypeOK' /\ Written'
    BY <2>1, <2>2, <2>3 DEF Sound, TypeOK, Written
  <2>5. Covered'
    BY <2>1, <2>2, <2>3 DEF Sound, TypeOK, Written, Covered, PendingFor
  <2>. QED BY <2>4, <2>5 DEF Sound
<1>9. CASE Push
  <2>1. PICK woken \in SUBSET Reached :
          told' = [told EXCEPT ![cust] =
                     [d \in Devices |-> IF d \in woken THEN balance[cust] ELSE told[cust][d]]]
    BY <1>9, Zenon DEF Push
  <2>2. told' \in [Customers -> [Devices -> Nat]]
    <3>1. cust \in Customers => balance[cust] \in Nat /\ told[cust] \in [Devices -> Nat]
      BY DEF Sound, TypeOK
    <3>. QED BY <2>1, <3>1 DEF Sound, TypeOK
  <2>3. UNCHANGED <<balance, jobs, clock, google, missed, hpc, card, own, wake, crashes, batch, worked, cust, read>>
        /\ wpc' = "patch"
    BY <1>9 DEF Push, Goto, handling, table, shown
  <2>4. TypeOK' /\ Written'
    BY <2>2, <2>3 DEF Sound, TypeOK, Written
  <2>5. Covered'
    BY <1>9, <2>3 DEF Sound, Covered, Push, PendingFor
  <2>. QED BY <2>4, <2>5 DEF Sound
<1>10. CASE ListFails
  <2>1. missed' \in [Customers -> [Devices -> Nat]]
    <3>1. cust \in Customers => balance[cust] \in Nat
      BY DEF Sound, TypeOK
    <3>. QED BY <1>10, <3>1 DEF Sound, TypeOK, ListFails
  <2>2. UNCHANGED <<balance, jobs, clock, google, told, hpc, card, own, wake, crashes, batch, worked, cust, read>>
        /\ wpc' = "patch"
    BY <1>10 DEF ListFails, Goto, handling, table
  <2>3. TypeOK' /\ Written'
    BY <2>1, <2>2 DEF Sound, TypeOK, Written
  <2>4. Covered'
    BY <1>10, <2>2 DEF Sound, Covered, ListFails, PendingFor
  <2>. QED BY <2>3, <2>4 DEF Sound
<1>5. CASE Patch
  <2>1. TypeOK' /\ Written'
    BY <1>5 DEF Sound, TypeOK, Written, Patch, Goto, handling, table, shown
  <2>2. Covered'
    BY <1>5 DEF Sound, Covered, Patch, Goto, handling, table, shown, PendingFor
  <2>. QED BY <2>1, <2>2 DEF Sound
<1>6. CASE Complete
  <2>1. TypeOK' /\ Written'
    BY <1>6 DEF Sound, TypeOK, Written, Complete, Leave, handling, shown
  <2>2. Covered'
    \* The rows that leave the table are those of a card already worked on.
    BY <1>6 DEF Sound, Covered, Complete, Leave, handling, PendingFor
  <2>. QED BY <2>1, <2>2 DEF Sound
<1>7. CASE CompleteFails
  BY <1>7 DEF Sound, TypeOK, Written, Covered, CompleteFails, Leave, handling, table, shown
<1>8. CASE Drained
  BY <1>8 DEF Sound, TypeOK, Written, Covered, Drained, FreshSeen, handling, table, shown
<1>. QED BY <1>1, <1>2, <1>3, <1>4, <1>5, <1>6, <1>7, <1>8, <1>9, <1>10 DEF Worker

LEMMA CrashSound == ASSUME Sound, Crash PROVE Sound'
<1>1. TypeOK'
  <2>1. hpc' \in [Handlers -> HandlerLabels] /\ own' \in [Handlers -> Nat]
    BY DEF Crash
  <2>2. card' \in [Handlers -> Customers \cup {NoCustomer}]
    BY DEF Crash
  <2>3. UNCHANGED <<balance, jobs, clock, google, told, missed>> /\ wake' \in BOOLEAN /\ wpc' = "wait"
    BY DEF Crash, table, shown
  <2>4. batch' = {} /\ worked' = {} /\ cust' = NoCustomer /\ read' = 0 /\ crashes' = crashes + 1
    BY DEF Crash
  <2>. QED BY <2>1, <2>2, <2>3, <2>4 DEF Sound, TypeOK, Job
<1>2. Written'
  BY DEF Sound, Written, Crash, table, shown
<1>3. Covered'
  BY DEF Crash, Covered
<1>. QED BY <1>1, <1>2, <1>3 DEF Sound

LEMMA StutterSound == ASSUME Sound, UNCHANGED vars PROVE Sound'
  BY DEF Sound, TypeOK, Written, Covered, vars, table, shown, handling, working, PendingFor

-----------------------------------------------------------------------------
(* The length of the table.                                                *)

(* The rows and the handlers that are counted are finitely many.           *)
LEMMA CountsAreNat ==
  ASSUME IsFiniteSet(jobs), NEW c \in Customers
  PROVE  /\ IsFiniteSet(PendingFor(c)) /\ Cardinality(PendingFor(c)) \in Nat
         /\ IsFiniteSet(Inserting(c)) /\ Cardinality(Inserting(c)) \in Nat
         /\ Cardinality(Inserting(c)) <= Cardinality(Handlers)
         /\ Cardinality(Handlers) \in Nat
<1>1. PendingFor(c) \in SUBSET jobs /\ Inserting(c) \in SUBSET Handlers
  BY DEF PendingFor, Inserting
<1>2. IsFiniteSet(Handlers)
  BY OutboxAssumption
<1>. QED BY <1>1, <1>2, FS_Subset, FS_CardinalityType

(* Fewer rows and fewer handlers about to insert keep the bound.           *)
LEMMA FewerCoalesced ==
  ASSUME Coalesced, jobs' \subseteq jobs,
         \A c \in Customers : Inserting(c)' \subseteq Inserting(c)
  PROVE  Coalesced'
<1>1. IsFiniteSet(jobs')
  BY FS_Subset DEF Coalesced
<1>2. ASSUME NEW c \in Customers
      PROVE  Cardinality(PendingFor(c)') + Cardinality(Inserting(c)') <= Cardinality(Handlers)
  <2>1. PendingFor(c)' \in SUBSET PendingFor(c) /\ Inserting(c)' \in SUBSET Inserting(c)
    BY <1>2 DEF PendingFor
  <2>2. /\ IsFiniteSet(PendingFor(c)) /\ Cardinality(PendingFor(c)) \in Nat
        /\ IsFiniteSet(Inserting(c)) /\ Cardinality(Inserting(c)) \in Nat
        /\ Cardinality(Handlers) \in Nat
    BY CountsAreNat DEF Coalesced
  <2>3. /\ Cardinality(PendingFor(c)') <= Cardinality(PendingFor(c))
        /\ Cardinality(Inserting(c)') <= Cardinality(Inserting(c))
        /\ Cardinality(PendingFor(c)') \in Nat /\ Cardinality(Inserting(c)') \in Nat
    BY <2>1, <2>2, FS_Subset, FS_CardinalityType
  <2>4. Cardinality(PendingFor(c)) + Cardinality(Inserting(c)) <= Cardinality(Handlers)
    BY DEF Coalesced
  <2>. QED BY <2>2, <2>3, <2>4
<1>. QED BY <1>1, <1>2 DEF Coalesced

(* A handler may only join those about to insert while the card has no row.*)
LEMMA CountCoalesced ==
  ASSUME Sound, Coalesced, NEW h \in Handlers, Count(h)
  PROVE  Coalesced'
<1>1. jobs' = jobs /\ card' = card
  BY DEF Count, table
<1>2. ASSUME NEW c \in Customers
      PROVE  Cardinality(PendingFor(c)') + Cardinality(Inserting(c)') <= Cardinality(Handlers)
  <2>1. PendingFor(c)' = PendingFor(c)
    BY <1>1 DEF PendingFor
  <2>2. CASE card[h] = c /\ MustInsert(c)
    <3>1. PendingFor(c) = {}
      BY <2>2 DEF MustInsert
    <3>2. IsFiniteSet(jobs')
      BY <1>1 DEF Coalesced
    <3>3. Inserting(c)' \in SUBSET Handlers
      BY DEF Inserting
    <3>4. /\ IsFiniteSet(Handlers) /\ Cardinality(Handlers) \in Nat
          /\ Cardinality(Inserting(c)') <= Cardinality(Handlers)
          /\ Cardinality(Inserting(c)') \in Nat
      BY <3>3, OutboxAssumption, FS_Subset, FS_CardinalityType
    <3>. QED BY <2>1, <3>1, <3>4, FS_EmptySet
  <2>3. CASE ~(card[h] = c /\ MustInsert(c))
    <3>1. Inserting(c)' = Inserting(c)
      BY <1>1, <2>3 DEF Sound, TypeOK, Inserting, Count
    <3>. QED BY <2>1, <3>1 DEF Coalesced
  <2>. QED BY <2>2, <2>3
<1>. QED BY <1>1, <1>2 DEF Coalesced

(* Inserting turns a handler about to insert into a row.                   *)
LEMMA InsertCoalesced ==
  ASSUME Sound, Coalesced, NEW h \in Handlers, Insert(h)
  PROVE  Coalesced'
<1> DEFINE new == [cust |-> card[h], at |-> own[h], no |-> clock]
<1>1. /\ jobs' = jobs \cup {new} /\ card' = card /\ hpc' = [hpc EXCEPT ![h] = "wake"]
      /\ hpc[h] = "insert"
  BY DEF Insert
<1>2. new.cust = card[h]
  OBVIOUS
<1> HIDE DEF new
<1>3. IsFiniteSet(jobs')
  BY <1>1, FS_AddElement DEF Coalesced
<1>4. ASSUME NEW c \in Customers
      PROVE  Cardinality(PendingFor(c)') + Cardinality(Inserting(c)') <= Cardinality(Handlers)
  <2>1. /\ IsFiniteSet(PendingFor(c)) /\ Cardinality(PendingFor(c)) \in Nat
        /\ IsFiniteSet(Inserting(c)) /\ Cardinality(Inserting(c)) \in Nat
        /\ Cardinality(Handlers) \in Nat
        /\ Cardinality(PendingFor(c)) + Cardinality(Inserting(c)) <= Cardinality(Handlers)
    BY CountsAreNat DEF Coalesced
  <2>2. CASE card[h] = c
    <3>1. PendingFor(c)' = PendingFor(c) \cup {new}
      BY <1>1, <1>2, <2>2 DEF PendingFor
    <3>2. Inserting(c)' = Inserting(c) \ {h} /\ h \in Inserting(c)
      BY <1>1, <2>2 DEF Sound, TypeOK, Inserting
    <3>3. /\ Cardinality(PendingFor(c)') <= Cardinality(PendingFor(c)) + 1
          /\ Cardinality(PendingFor(c)') \in Nat
      <4>1. /\ IsFiniteSet(PendingFor(c)')
            /\ Cardinality(PendingFor(c)') = IF new \in PendingFor(c)
                                              THEN Cardinality(PendingFor(c))
                                              ELSE Cardinality(PendingFor(c)) + 1
        BY <2>1, <3>1, FS_AddElement
      <4>2. Cardinality(PendingFor(c)') \in Nat
        BY <4>1, FS_CardinalityType
      <4>. QED BY <2>1, <4>1, <4>2
    <3>4. Cardinality(Inserting(c)') = Cardinality(Inserting(c)) - 1
      BY <2>1, <3>2, FS_RemoveElement
    <3>. QED BY <2>1, <3>3, <3>4
  <2>3. CASE card[h] # c
    <3>1. PendingFor(c)' = PendingFor(c)
      BY <1>1, <1>2, <2>3 DEF PendingFor
    <3>2. Inserting(c)' = Inserting(c)
      BY <1>1, <2>3 DEF Sound, TypeOK, Inserting
    <3>. QED BY <2>1, <3>1, <3>2
  <2>. QED BY <2>2, <2>3
<1>. QED BY <1>3, <1>4 DEF Coalesced

LEMMA CoalescedStep ==
  ASSUME Sound, Coalesced, [Next]_vars
  PROVE  Coalesced'
<1>1. ASSUME NEW h \in Handlers, Handle(h), ~Count(h), ~Insert(h)
      PROVE  Coalesced'
  <2>1. jobs' = jobs
    BY <1>1 DEF Handle, Change, OpenCard, Wake, EnqueueFails, SaveObject, table
  <2>2. ASSUME NEW c \in Customers PROVE Inserting(c)' \subseteq Inserting(c)
    <3>1. PICK s \in HandlerLabels \ {"insert"} : \E d : /\ hpc' = [hpc EXCEPT ![h] = s]
                                                       /\ card' = [card EXCEPT ![h] = d]
      BY <1>1 DEF Handle, Change, OpenCard, Wake, EnqueueFails, SaveObject, Finish
    <3>. QED BY <3>1 DEF Sound, TypeOK, Inserting
  <2>. QED BY <2>1, <2>2, FewerCoalesced
<1>2. CASE Worker
  <2>1. jobs' \subseteq jobs /\ hpc' = hpc /\ card' = card
    BY <1>2 DEF Worker, Rouse, Tick, Claim, ClaimFails, Skip, Read, ReadFails, Push, ListFails, Patch,
                Complete, CompleteFails, Drained, table, handling
  <2>. QED BY <2>1, FewerCoalesced DEF Inserting
<1>3. CASE Crash
  BY <1>3, FewerCoalesced DEF Crash, table, Inserting
<1>4. CASE UNCHANGED vars
  BY <1>4, FewerCoalesced DEF vars, table, handling, Inserting
<1>. QED BY <1>1, <1>2, <1>3, <1>4, CountCoalesced, InsertCoalesced DEF Next

LEMMA InitInv == Init => Inv
<1>. SUFFICES ASSUME Init PROVE Inv
  OBVIOUS
<1>1. ASSUME NEW c \in Customers PROVE PendingFor(c) = {} /\ Inserting(c) = {}
  BY DEF Init, PendingFor, Inserting
<1>2. Cardinality(Handlers) \in Nat
  BY OutboxAssumption, FS_CardinalityType
<1>3. Coalesced
  BY <1>1, <1>2, FS_EmptySet DEF Init, Coalesced
<1>. QED BY <1>3, InitSound DEF Inv

(* The queue's invariant holds in every reachable state: what the counting *)
(* in EnqueueWalletJob and the worker's read rely on of one another.       *)
THEOREM Invariance == Spec => []Inv
<1>1. Sound /\ [Next]_vars => Sound'
  BY HandlerSound, WorkerSound, CrashSound, StutterSound DEF Next
<1>2. Inv /\ [Next]_vars => Inv'
  BY <1>1, CoalescedStep DEF Inv
<1>. QED BY InitInv, <1>2, PTL DEF Spec

(* However fast the points of a card change, EnqueueWalletJob leaves it at *)
(* most one row per handler in wallet_jobs: those that had counted when    *)
(* the first row arrived.                                                  *)
THEOREM BacklogBound == Spec => []BacklogBounded
<1>1. Inv => BacklogBounded
  <2>. SUFFICES ASSUME Inv, NEW c \in Customers
                PROVE  Cardinality(PendingFor(c)) <= Cardinality(Handlers)
    BY DEF BacklogBounded
  <2>1. Cardinality(PendingFor(c)) + Cardinality(Inserting(c)) <= Cardinality(Handlers)
    BY DEF Inv, Coalesced
  <2>. QED BY <2>1, CountsAreNat DEF Inv, Coalesced
<1>. QED BY <1>1, Invariance, PTL

(* A row leaves the table only when the worker has read a balance at least *)
(* as new as the row's: CompleteWalletJobsForCustomer, which marks rows by *)
(* card and not by id, drops no update.                                    *)
THEOREM NoneSkipped == Spec => JobsNotSkipped
<1>1. ASSUME Inv, [Next]_vars, NEW j \in jobs \ jobs' PROVE j.at <= read
  <2>1. CASE Complete
    BY <1>1, <2>1 DEF Inv, Sound, Covered, Complete
  <2>2. CASE ~Complete
    <3>1. ASSUME NEW h \in Handlers, Handle(h) PROVE jobs \subseteq jobs'
      BY <3>1 DEF Handle, Change, OpenCard, Count, Insert, Wake, EnqueueFails, SaveObject, table, shown
    <3>2. ASSUME Worker PROVE jobs \subseteq jobs'
      BY <2>2, <3>2 DEF Worker, Rouse, Tick, Claim, ClaimFails, Skip, Read, ReadFails, Push, ListFails, Patch,
                        CompleteFails, Drained, table, shown
    <3>3. ASSUME Crash \/ UNCHANGED vars PROVE jobs \subseteq jobs'
      BY <3>3 DEF Crash, vars, table, shown
    <3>. QED BY <1>1, <3>1, <3>2, <3>3 DEF Next
  <2>. QED BY <2>1, <2>2
<1>2. Inv /\ [Next]_vars => [\A j \in jobs \ jobs' : j.at <= read]_vars
  BY <1>1
<1>. QED BY Invariance, <1>2, PTL DEF Spec, JobsNotSkipped
=============================================================================
