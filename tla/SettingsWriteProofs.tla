------------------------ MODULE SettingsWriteProofs -------------------------
(***************************************************************************)
(* Theorems about SettingsWrite: concurrent saves implement SettingsBook,  *)
(* and the rules of LoyaltyRules hold under every history of saves.        *)
(***************************************************************************)
EXTENDS SettingsWrite, LoyaltyRulesProofs

(* range yields a key that is left, or finds none: the key it is at and    *)
(* those to come are the keys it was given.                                *)
LEMMA YieldParts ==
  ASSUME TypeOK, NEW h \in Handlers, NEW keys \in SUBSET SettingKeys, Yield(h, keys)
  PROVE  /\ pc' = [pc EXCEPT ![h] = pc'[h]] /\ pc'[h] \in {"upsert", "commit"}
         /\ want' = [want EXCEPT ![h] = want'[h]]
         /\ want'[h] \in SettingKeys \cup {NoKey}
         /\ left' = [left EXCEPT ![h] = left'[h]] /\ left'[h] \subseteq keys
         /\ pc'[h] = "upsert" => want'[h] \in keys \ left'[h]
         /\ pc'[h] = "commit" => left'[h] = {} /\ want'[h] = NoKey
         /\ \A k \in SettingKeys : k \in left'[h] \cup {want'[h]} <=> k \in keys
<1>1. CASE keys = {} /\ Goto(h, "commit") /\ want' = [want EXCEPT ![h] = NoKey]
           /\ left' = [left EXCEPT ![h] = {}]
  BY <1>1, NobodyAssumption DEF TypeOK, Goto, Labels
<1>2. CASE \E k \in keys : /\ Goto(h, "upsert")
                           /\ want' = [want EXCEPT ![h] = k]
                           /\ left' = [left EXCEPT ![h] = keys \ {k}]
  <2>1. PICK k \in keys : /\ Goto(h, "upsert")
                          /\ want' = [want EXCEPT ![h] = k]
                          /\ left' = [left EXCEPT ![h] = keys \ {k}]
    BY <1>2
  <2> QED
    BY <2>1 DEF TypeOK, Goto, Labels
<1> QED
  BY <1>1, <1>2 DEF Yield

LEMMA Initially == Init => Inv
<1> SUFFICES ASSUME Init PROVE Inv
  OBVIOUS
<1> USE DEF Init
<1>1. TypeOK
  BY MapsAssumption DEF TypeOK, Labels
<1>2. Saving
  BY DEF Saving
<1>3. Isolated
  BY NobodyAssumption DEF Isolated, Done
<1> QED
  BY <1>1, <1>2, <1>3 DEF Inv

-----------------------------------------------------------------------------
(* The steps of one handler.                                               *)

LEMMA AcceptKeeps ==
  ASSUME Inv, NEW h \in Handlers, Accept(h)
  PROVE  Inv'
<1> USE DEF Inv, Accept, Goto, rows, loop
<1>1. TypeOK'
  BY DEF TypeOK, Labels
<1>2. Saving'
  BY DEF Saving, TypeOK
<1>3. \A g \in Handlers : Done(g)' = Done(g)
  BY DEF Done, TypeOK
<1>4. Isolated'
  <2>1. inTx' = {g \in Handlers : pc'[g] \in {"upsert", "commit"}}
    BY DEF Isolated, TypeOK
  <2>2. ASSUME NEW k \in SettingKeys, NEW g \in Handlers, holder[k] = g
        PROVE  req'[g] = req[g]
    BY <2>2 DEF Isolated, Done, TypeOK
  <2> QED
    BY <1>3, <2>1, <2>2 DEF Isolated
<1> QED
  BY <1>1, <1>2, <1>4

(* A turn of the loop: the handler holds what it has written, the keys it  *)
(* has yet to write are those given to Yield, and it took a row from       *)
(* nobody else.                                                            *)
LEMMA TurnKeeps ==
  ASSUME Inv, NEW h \in Handlers, NEW keys \in SUBSET SettingKeys, Yield(h, keys),
         req[h] \in Saves, keys \subseteq req[h].sent,
         inTx' = inTx \cup {h}, stored' = stored, req' = req,
         draft' \in SettingsMaps, holder' \in [SettingKeys -> Handlers \cup {NoHandler}],
         \A k \in SettingKeys :
           /\ holder'[k] = h <=> k \in req[h].sent \ keys
           /\ holder'[k] = h => draft'[k] = req[h].kv[k] /\ holder[k] \in {h, NoHandler}
           /\ holder'[k] # h => holder'[k] = holder[k] /\ draft'[k] = draft[k]
  PROVE  Inv'
<1>0. TypeOK /\ Saving /\ Isolated
  BY DEF Inv
<1>1. /\ pc' = [pc EXCEPT ![h] = pc'[h]] /\ pc'[h] \in {"upsert", "commit"}
      /\ want' = [want EXCEPT ![h] = want'[h]]
      /\ want'[h] \in SettingKeys \cup {NoKey}
      /\ left' = [left EXCEPT ![h] = left'[h]] /\ left'[h] \subseteq keys
      /\ pc'[h] = "upsert" => want'[h] \in keys \ left'[h]
      /\ pc'[h] = "commit" => left'[h] = {} /\ want'[h] = NoKey
      /\ \A k \in SettingKeys : k \in left'[h] \cup {want'[h]} <=> k \in keys
  BY <1>0, YieldParts
<1>2. TypeOK'
  BY <1>0, <1>1 DEF TypeOK, Labels
<1>3. Saving'
  BY <1>0, <1>1 DEF TypeOK, Saving
<1>4. \A g \in Handlers \ {h} : Done(g)' = Done(g)
  <2>1. \A g \in Handlers \ {h} : /\ pc'[g] = pc[g] /\ want'[g] = want[g]
                                   /\ left'[g] = left[g] /\ req'[g] = req[g]
    BY <1>0, <1>1 DEF TypeOK
  <2> QED
    BY <2>1 DEF Done
<1>5. \A k \in SettingKeys : k \in Done(h)' <=> k \in req[h].sent \ keys
  BY <1>0, <1>1 DEF Done, TypeOK
<1>6. inTx' = {g \in Handlers : pc'[g] \in {"upsert", "commit"}}
  BY <1>0, <1>1 DEF Isolated, TypeOK
<1>7. ASSUME NEW k \in SettingKeys
      PROVE  /\ holder'[k] = NoHandler => draft'[k] = stored'[k]
             /\ \A g \in Handlers : /\ holder'[k] = g <=> k \in Done(g)'
                                    /\ holder'[k] = g => draft'[k] = req'[g].kv[k]
  <2>1. CASE holder'[k] = h
    <3>1. \A g \in Handlers \ {h} : k \notin Done(g)
      BY <1>0, <2>1, NobodyAssumption DEF Isolated
    <3> QED
      BY <1>4, <1>5, <2>1, <3>1, NobodyAssumption
  <2>2. CASE holder'[k] # h
    BY <1>0, <1>4, <1>5, <2>2 DEF Isolated
  <2> QED
    BY <2>1, <2>2
<1> QED
  BY <1>2, <1>3, <1>6, <1>7 DEF Inv, Isolated

LEMMA BeginKeeps ==
  ASSUME Inv, NEW h \in Handlers, Begin(h)
  PROVE  Inv'
<1>1. /\ req[h] \in Saves /\ req[h].sent \in SUBSET SettingKeys /\ pc[h] = "begin"
      /\ draft \in SettingsMaps /\ holder \in [SettingKeys -> Handlers \cup {NoHandler}]
  BY SavesAssumption DEF Inv, Saving, Begin, SaveRequest, TypeOK
<1>2. \A k \in SettingKeys : holder[k] # h
  BY <1>1 DEF Inv, Isolated, Done
<1> QED
  BY <1>1, <1>2, TurnKeeps DEF Begin, rows

LEMMA UpsertKeeps ==
  ASSUME Inv, NEW h \in Handlers, Upsert(h)
  PROVE  Inv'
<1>1. /\ req[h] \in Saves /\ req[h].sent \in SUBSET SettingKeys
      /\ req[h].kv \in SettingsMaps /\ left[h] \subseteq req[h].sent
      /\ want[h] \in req[h].sent \ left[h] /\ TypeOK
  BY SavesAssumption DEF Inv, Saving, Upsert, SaveRequest
<1>2. /\ draft' \in SettingsMaps
      /\ holder' \in [SettingKeys -> Handlers \cup {NoHandler}]
  BY <1>1 DEF Upsert, TypeOK, SettingsMaps
<1>3. \A k \in SettingKeys :
        /\ holder'[k] = h <=> k \in req[h].sent \ left[h]
        /\ holder'[k] = h => draft'[k] = req[h].kv[k] /\ holder[k] \in {h, NoHandler}
        /\ holder'[k] # h => holder'[k] = holder[k] /\ draft'[k] = draft[k]
  BY <1>1 DEF Upsert, RowFree, Inv, Isolated, Done, TypeOK, SettingsMaps
<1>4. inTx' = inTx \cup {h}
  BY DEF Upsert, Inv, Isolated
<1> QED
  BY <1>1, <1>2, <1>3, <1>4, TurnKeeps DEF Upsert

(* The end of a transaction: what the handler held is free and committed   *)
(* or restored, and what others hold is untouched.                         *)
LEMMA EndKeeps ==
  ASSUME Inv, NEW h \in Handlers, EndTx(h),
         pc' \in [Handlers -> Labels], req' \in [Handlers -> Saves \cup {NoSave}],
         want' \in [Handlers -> SettingKeys \cup {NoKey}],
         left' \in [Handlers -> SUBSET SettingKeys],
         stored' \in SettingsMaps, draft' \in SettingsMaps,
         pc'[h] \in {"idle", "answer"}, pc'[h] # "idle" => req'[h] \in Saves,
         \A g \in Handlers \ {h} : /\ pc'[g] = pc[g] /\ req'[g] = req[g]
                                   /\ want'[g] = want[g] /\ left'[g] = left[g],
         \A k \in SettingKeys :
           IF holder[k] = h THEN draft'[k] = stored'[k]
                            ELSE draft'[k] = draft[k] /\ stored'[k] = stored[k]
  PROVE  Inv'
<1>0. TypeOK /\ Saving /\ Isolated
  BY DEF Inv
<1>1. holder' \in [SettingKeys -> Handlers \cup {NoHandler}] /\ inTx' = inTx \ {h}
  BY <1>0 DEF EndTx, TypeOK
<1>2. TypeOK'
  BY <1>0, <1>1 DEF TypeOK
<1>3. Saving'
  BY <1>0 DEF Saving, TypeOK
<1>4. /\ \A g \in Handlers \ {h} : Done(g)' = Done(g)
      /\ Done(h)' = {}
  BY <1>0 DEF Done
<1>5. inTx' = {g \in Handlers : pc'[g] \in {"upsert", "commit"}}
  BY <1>0, <1>1 DEF Isolated
<1>6. ASSUME NEW k \in SettingKeys
      PROVE  /\ holder'[k] = NoHandler => draft'[k] = stored'[k]
             /\ \A g \in Handlers : /\ holder'[k] = g <=> k \in Done(g)'
                                    /\ holder'[k] = g => draft'[k] = req'[g].kv[k]
  <2>1. CASE holder[k] = h
    <3>1. holder'[k] = NoHandler /\ draft'[k] = stored'[k]
      BY <2>1 DEF EndTx
    <3>2. \A g \in Handlers \ {h} : k \notin Done(g)
      BY <1>0, <2>1 DEF Isolated
    <3> QED
      BY <1>4, <3>1, <3>2, NobodyAssumption
  <2>2. CASE holder[k] # h
    <3>1. holder'[k] = holder[k] /\ draft'[k] = draft[k] /\ stored'[k] = stored[k]
      BY <2>2 DEF EndTx
    <3> QED
      BY <1>0, <1>4, <2>2, <3>1 DEF Isolated
  <2> QED
    BY <2>1, <2>2
<1> QED
  BY <1>2, <1>3, <1>5, <1>6 DEF Inv, Isolated

LEMMA CommitKeeps ==
  ASSUME Inv, NEW h \in Handlers, Commit(h)
  PROVE  Inv'
<1>1. TypeOK /\ req[h] \in Saves
  BY DEF Inv, Saving, Commit
<1>2. stored' \in SettingsMaps /\ draft' \in SettingsMaps
  BY <1>1 DEF TypeOK, Commit, SettingsMaps
<1>3. /\ pc' \in [Handlers -> Labels] /\ pc'[h] = "answer"
      /\ \A g \in Handlers \ {h} : pc'[g] = pc[g]
  BY <1>1 DEF TypeOK, Commit, Goto, Labels
<1>4. \A k \in SettingKeys :
        IF holder[k] = h THEN draft'[k] = stored'[k]
                         ELSE draft'[k] = draft[k] /\ stored'[k] = stored[k]
  BY DEF Commit
<1> QED
  BY <1>1, <1>2, <1>3, <1>4, EndKeeps DEF Commit, TypeOK, loop

LEMMA ReturnParts ==
  ASSUME TypeOK, NEW h \in Handlers, Return(h)
  PROVE  /\ pc' \in [Handlers -> Labels] /\ req' \in [Handlers -> Saves \cup {NoSave}]
         /\ want' \in [Handlers -> SettingKeys \cup {NoKey}]
         /\ left' \in [Handlers -> SUBSET SettingKeys]
         /\ pc'[h] = "idle"
         /\ \A g \in Handlers \ {h} : /\ pc'[g] = pc[g] /\ req'[g] = req[g]
                                      /\ want'[g] = want[g] /\ left'[g] = left[g]
  BY DEF TypeOK, Return, Goto, Labels

LEMMA AnswerKeeps ==
  ASSUME Inv, NEW h \in Handlers, Answer(h)
  PROVE  Inv'
<1>1. TypeOK /\ pc[h] = "answer" /\ Return(h) /\ UNCHANGED <<rows, inTx>>
  BY DEF Inv, Answer
<1>2. Done(h) = {} /\ h \notin inTx
  BY <1>1 DEF Inv, Isolated, Done
<1>3. \A k \in SettingKeys : holder[k] # h
  BY <1>2 DEF Inv, Isolated
<1>4. EndTx(h)
  BY <1>1, <1>2, <1>3 DEF EndTx, rows, TypeOK
<1> QED
  BY <1>1, <1>3, <1>4, ReturnParts, EndKeeps DEF TypeOK, rows

LEMMA RollbackKeeps ==
  ASSUME Inv, NEW h \in Handlers, Rollback(h)
  PROVE  Inv'
<1>1. TypeOK /\ Return(h) /\ EndTx(h) /\ stored' = stored
  BY DEF Inv, Rollback
<1>2. /\ draft' \in SettingsMaps
      /\ \A k \in SettingKeys :
           IF holder[k] = h THEN draft'[k] = stored'[k]
                            ELSE draft'[k] = draft[k] /\ stored'[k] = stored[k]
  BY <1>1 DEF Rollback, Undone, TypeOK, SettingsMaps
<1> QED
  BY <1>1, <1>2, ReturnParts, EndKeeps DEF TypeOK

LEMMA StutterKeeps ==
  ASSUME Inv, UNCHANGED vars
  PROVE  Inv'
<1>1. \A g \in Handlers : Done(g)' = Done(g)
  BY DEF Done, vars, loop
<1> QED
  BY <1>1 DEF Inv, TypeOK, Saving, Isolated, vars, rows, loop

LEMMA StepKeeps == Inv /\ [Next]_vars => Inv'
<1> SUFFICES ASSUME Inv, [Next]_vars PROVE Inv'
  OBVIOUS
<1>1. CASE UNCHANGED vars
  BY <1>1, StutterKeeps
<1>2. ASSUME NEW h \in Handlers, Accept(h) \/ Work(h) \/ Drop(h)
      PROVE  Inv'
  <2>1. CASE Accept(h)
    BY <2>1, AcceptKeeps
  <2>2. CASE Begin(h)
    BY <2>2, BeginKeeps
  <2>3. CASE Upsert(h)
    BY <2>3, UpsertKeeps
  <2>4. CASE Commit(h)
    BY <2>4, CommitKeeps
  <2>5. CASE Answer(h)
    BY <2>5, AnswerKeeps
  <2>6. CASE Abort(h) \/ Drop(h)
    BY <2>6, RollbackKeeps DEF Abort, Drop
  <2> QED
    BY <1>2, <2>1, <2>2, <2>3, <2>4, <2>5, <2>6 DEF Work
<1> QED
  BY <1>1, <1>2 DEF Next

(* The inductive invariant holds always: a transaction owns the rows it    *)
(* wrote (PutSettings under the row locks of the database).                *)
THEOREM Invariance == Spec => []Inv
<1>1. Init => Inv
  BY Initially
<1>2. Inv /\ [Next]_vars => Inv'
  BY StepKeeps
<1> QED
  BY <1>1, <1>2, PTL DEF Spec

-----------------------------------------------------------------------------
(* Refinement: only a commit changes the committed rows, and it writes the *)
(* whole of its save and nothing else.                                     *)
LEMMA CommitSaves ==
  ASSUME Inv, NEW h \in Handlers, Commit(h)
  PROVE  Book!Next
<1>1. /\ req[h] \in Saves /\ left[h] = {} /\ want[h] = NoKey /\ pc[h] = "commit"
      /\ TypeOK /\ Isolated
  BY DEF Inv, Saving, Commit
<1>2. ASSUME NEW k \in SettingKeys
      PROVE  /\ holder[k] = h <=> k \in req[h].sent
             /\ holder[k] = h => draft[k] = req[h].kv[k]
  BY <1>1, NobodyAssumption DEF Isolated, Done
<1>3. stored' = [k \in SettingKeys |-> IF k \in req[h].sent THEN req[h].kv[k] ELSE stored[k]]
  BY <1>2 DEF Commit
<1> QED
  BY <1>1, <1>3 DEF Book!Next, Book!Save, Book!Replaced

LEMMA StepRefines == Inv /\ [Next]_vars => [Book!Next]_stored
<1> SUFFICES ASSUME Inv, [Next]_vars PROVE Book!Next \/ stored' = stored
  OBVIOUS
<1>1. CASE UNCHANGED vars
  BY <1>1 DEF vars, rows
<1>2. ASSUME NEW h \in Handlers, Accept(h) \/ Work(h) \/ Drop(h)
      PROVE  Book!Next \/ stored' = stored
  <2>1. CASE Commit(h)
    BY <2>1, CommitSaves
  <2>2. CASE ~Commit(h)
    BY <1>2, <2>2 DEF Accept, Work, Drop, Begin, Upsert, Answer, Abort, Rollback, rows
  <2> QED
    BY <2>1, <2>2
<1> QED
  BY <1>1, <1>2 DEF Next

(* Saves written row by row, in any order and by any number of handlers,   *)
(* behave as saves that happen at once (PutSettings implements what Ledger *)
(* takes for granted).                                                     *)
THEOREM Refinement == Spec => SavedAtOnce
<1>1. Init => Book!Init
  BY DEF Init, Book!Init
<1>2. Inv /\ [Next]_vars => [Book!Next]_stored
  BY StepRefines
<1> QED
  BY <1>1, <1>2, Invariance, PTL DEF Spec, SavedAtOnce, Book!Spec

-----------------------------------------------------------------------------
(* The rules, under any history of saves.                                  *)
LEMMA RulesParse == Inv => Rules \in Settings
<1>1. DefaultSettings \in Settings
  BY DEF DefaultSettings, Settings, SettingKeys
<1> QED
  BY <1>1 DEF Inv, TypeOK, Rules, ParseSettings, Settings, SettingsMaps, StoredValue

(* For every receipt, balance and request, at any time, the till offers    *)
(* exactly what a commit accepts (MaxRedeemable, CheckRedeem).             *)
THEOREM AlwaysSharp == Spec => []OffersAreSharp
<1>1. Inv => OffersAreSharp
  BY RulesParse, OfferSharp, QuotesAssumption DEF OffersAreSharp
<1> QED
  BY <1>1, Invariance, PTL

(* A quote adds up to its receipt at any time (QuoteRedeem).               *)
THEOREM AlwaysExact == Spec => []QuotesAddUp
<1>1. Inv => QuotesAddUp
  BY RulesParse, QuoteExact, QuotesAssumption DEF QuotesAddUp
<1> QED
  BY <1>1, Invariance, PTL

(* Splitting a receipt never pays (ComputeEarn).                           *)
THEOREM SplittingNeverPays == Spec => []SplitsLose
<1>1. Inv => SplitsLose
  BY RulesParse, SplitLoses, QuotesAssumption DEF SplitsLose
<1> QED
  BY <1>1, Invariance, PTL

(* Paying with points never earns more (ComputeEarn).                      *)
THEOREM PointsNeverEarn == Spec => []RedeemsEarnNothing
<1>1. Inv => RedeemsEarnNothing
  BY RulesParse, RedeemEarnsNothing, QuotesAssumption DEF RedeemsEarnNothing
<1> QED
  BY <1>1, Invariance, PTL

=============================================================================
