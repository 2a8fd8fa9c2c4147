--------------------------- MODULE PassKitProofs ----------------------------
(***************************************************************************)
(* Proofs about PassKit, for any number of devices and cards, any second,  *)
(* any deadline and any clock: a change of points that comes later than a  *)
(* device's times by a second and a deadline is listed and is never        *)
(* answered 304.                                                           *)
(***************************************************************************)
EXTENDS PassKit, WellFoundedInduction, TLAPS

(* A time in a header is never later than the time it stands for.          *)
LEMMA TruncatedIsEarlier ==
  ASSUME NEW t \in Nat PROVE Truncated(t) \in Nat /\ Truncated(t) <= t
<1>1. t % PerSecond \in 0..(PerSecond - 1) /\ t % PerSecond <= t
  BY PassKitAssumption
<1>. QED BY <1>1 DEF Truncated

(* The numbers of a state.                                                 *)
LEMMA Numbers ==
  ASSUME TypeOK
  PROVE  /\ PerSecond \in Nat /\ Deadline \in Nat /\ now \in Nat /\ NoTime \notin Nat
         /\ \A c \in Cards : /\ updated[c] \in Nat /\ stamp[c] \in Nat \cup {NoTime}
                             /\ points[c] \in Nat
         /\ \A d \in Devices : since[d] \in Nat \cup {NoTime}
         /\ \A d \in Devices, c \in Cards : dated[d][c] \in Nat
  BY PassKitAssumption DEF TypeOK

(* What Behind and OwedIsSeen say of one pass.                             *)
Seen(d, c) ==
  /\ \/ c \in todo[d]
     \/ since[d] = NoTime
     \/ since[d] + Deadline < now /\ since[d] < updated[c]
  /\ dated[d][c] + PerSecond + Deadline < now
  /\ dated[d][c] + PerSecond < updated[c]

LEMMA OwedAreSeen ==
  ASSUME Inv, NEW d \in Devices, NEW c \in Cards, <<d, c>> \in owed PROVE Seen(d, c)
<1>1. /\ c \in todo[d] \/ After(updated[c], since[d])
      /\ Modified(updated[c], dated[d][c])
      /\ c \notin todo[d] /\ since[d] # NoTime => since[d] + Deadline < now
      /\ dated[d][c] + PerSecond + Deadline < now
  BY DEF Inv, OwedIsSeen, Behind
<1>. QED BY <1>1, Numbers DEF Seen, After, Modified, Inv

LEMMA SeenIsInv ==
  ASSUME TypeOK', Times', \A d \in Devices, c \in Cards : <<d, c>> \in owed' => Seen(d, c)'
  PROVE  Inv'
<1>1. ASSUME NEW d \in Devices, NEW c \in Cards, <<d, c>> \in owed'
      PROVE  /\ c \in todo'[d] \/ After(updated'[c], since'[d])
             /\ Modified(updated'[c], dated'[d][c])
             /\ c \notin todo'[d] /\ since'[d] # NoTime => since'[d] + Deadline < now'
             /\ dated'[d][c] + PerSecond + Deadline < now'
  <2>1. Seen(d, c)'
    BY <1>1
  <2>. QED BY <2>1 DEF Seen, After, Modified
<1>. QED BY <1>1 DEF Inv, OwedIsSeen, Behind

LEMMA InitInv == Init => Inv
<1>. SUFFICES ASSUME Init PROVE Inv
  OBVIOUS
<1>1. TypeOK
  BY PassKitAssumption DEF Init, TypeOK
<1>2. Times /\ owed = {}
  BY DEF Init, Times
<1>. QED BY <1>1, <1>2 DEF Inv, Behind, OwedIsSeen

(* A pass that waits to be fetched stays visible: the card is left alone or*)
(* gets a time within the deadline, and the device is told of it whenever  *)
(* it is told a later time.                                                *)
LEMMA SeenKept ==
  ASSUME Inv, TypeOK', NEW d \in Devices, NEW c \in Cards, <<d, c>> \in owed,
         dated'[d][c] = dated[d][c], now <= now',
         updated'[c] = updated[c] \/ now <= updated'[c] + Deadline,
         c \in todo'[d] \/ (c \notin todo[d] /\ since'[d] = since[d])
  PROVE  Seen(d, c)'
<1>1. Seen(d, c) /\ TypeOK
  BY OwedAreSeen DEF Inv
<1>2. now' \in Nat /\ updated'[c] \in Nat
  BY DEF TypeOK
<1>3. dated[d][c] + PerSecond + Deadline < now' /\ dated[d][c] + PerSecond < updated'[c]
  BY <1>1, <1>2, Numbers DEF Seen
<1>4. CASE c \in todo'[d]
  BY <1>3, <1>4 DEF Seen
<1>5. CASE c \notin todo[d] /\ since'[d] = since[d]
  <2>1. since[d] # NoTime => since[d] + Deadline < now' /\ since[d] < updated'[c]
    BY <1>1, <1>2, <1>5, Numbers DEF Seen
  <2>. QED BY <1>3, <1>5, <2>1 DEF Seen
<1>. QED BY <1>4, <1>5

-----------------------------------------------------------------------------
(* The writers.                                                            *)

(* What leaves the devices, and writes times within the deadline.          *)
LEMMA WriteInv ==
  ASSUME Inv, TypeOK', Times', UNCHANGED <<device, owed>>, now <= now',
         \A c \in Cards : updated'[c] = updated[c] \/ now <= updated'[c] + Deadline
  PROVE  Inv'
<1>1. ASSUME NEW d \in Devices, NEW c \in Cards, <<d, c>> \in owed' PROVE Seen(d, c)'
  BY <1>1, SeenKept DEF device
<1>. QED BY <1>1, SeenIsInv

LEMMA TickInv == ASSUME Inv, Tick PROVE Inv'
<1>1. now' = now + 1 /\ UNCHANGED <<updated, stamp, device, owed>>
  BY DEF Tick, programme
<1>2. TypeOK'
  BY DEF Inv, TypeOK, Tick, programme, device
<1>3. Times' /\ now <= now'
  BY <1>1, Numbers DEF Inv, Times
<1>. QED BY <1>1, <1>2, <1>3, WriteInv

LEMMA QuietInv ==
  ASSUME Inv, TypeOK', Times', UNCHANGED <<now, updated, device, owed>> PROVE Inv'
  BY WriteInv, Numbers DEF Inv

LEMMA DrawInv == ASSUME Inv, NEW c \in Cards, Draw(c) PROVE Inv'
<1>1. TypeOK'
  BY DEF Inv, TypeOK, Draw, device
<1>2. Times'
  <2>1. /\ stamp' = [stamp EXCEPT ![c] = now] /\ stamp \in [Cards -> Nat \cup {NoTime}]
        /\ UNCHANGED <<now, updated>>
    BY DEF Draw, Inv, TypeOK
  <2>. QED BY <2>1, Numbers DEF Inv, Times
<1>. QED BY <1>1, <1>2, QuietInv DEF Draw

(* A change of points: what is older than it by a second and a deadline    *)
(* sees it, since its time is within the deadline.                         *)
LEMMA CommitPointsInv == ASSUME Inv, NEW c \in Cards, CommitPoints(c) PROVE Inv'
<1>1. /\ updated' = [updated EXCEPT ![c] = stamp[c]] /\ stamp[c] \in Nat
      /\ now <= stamp[c] + Deadline /\ stamp[c] <= now
      /\ stamp' = [stamp EXCEPT ![c] = NoTime]
      /\ UNCHANGED <<now, device>>
  BY DEF Inv, TypeOK, Times, CommitPoints
<1>2. TypeOK'
  <2>1. /\ points' \in [Cards -> Nat] /\ updated' \in [Cards -> Nat]
        /\ stamp' \in [Cards -> Nat \cup {NoTime}]
    BY <1>1 DEF Inv, TypeOK, CommitPoints
  <2>2. owed' \subseteq registered
    BY DEF Inv, TypeOK, CommitPoints, Silent
  <2>. QED BY <1>1, <2>1, <2>2 DEF Inv, TypeOK, CommitPoints, device
<1>3. Times'
  BY <1>1, Numbers DEF Inv, TypeOK, Times
<1>4. ASSUME NEW d \in Devices, NEW b \in Cards, <<d, b>> \in owed' PROVE Seen(d, b)'
  <2>1. CASE <<d, b>> \in owed
    <3>1. updated'[b] = updated[b] \/ now <= updated'[b] + Deadline
      BY <1>1 DEF Inv, TypeOK
    <3>2. now <= now'
      BY <1>1, Numbers DEF Inv
    <3>. QED BY <1>1, <1>2, <2>1, <3>1, <3>2, SeenKept DEF device
  <2>2. CASE b = c /\ Silent(d, c)
    <3>1. updated'[c] = stamp[c]
      BY <1>1 DEF Inv, TypeOK
    <3>2. /\ since[d] = NoTime \/ now > since[d] + Deadline
          /\ now > dated[d][c] + PerSecond + Deadline
      BY <2>2 DEF Silent
    <3>3. /\ since[d] = NoTime \/ (since[d] + Deadline < now /\ since[d] < stamp[c])
          /\ dated[d][c] + PerSecond + Deadline < now
          /\ dated[d][c] + PerSecond < stamp[c]
      BY <1>1, <3>2, Numbers DEF Inv
    <3>. QED BY <1>1, <2>2, <3>1, <3>3 DEF Seen, device
  <2>. QED BY <1>4, <2>1, <2>2 DEF CommitPoints
<1>. QED BY <1>2, <1>3, <1>4, SeenIsInv

LEMMA RollbackInv == ASSUME Inv, NEW c \in Cards, Rollback(c) PROVE Inv'
<1>1. TypeOK'
  BY DEF Inv, TypeOK, Rollback, device
<1>2. Times'
  BY DEF Inv, TypeOK, Times, Rollback
<1>. QED BY <1>1, <1>2, QuietInv DEF Rollback

LEMMA SetStandingInv == ASSUME Inv, NEW c \in Cards, SetStanding(c) PROVE Inv'
<1>1. PICK drawn \in 0..now : /\ drawn + Deadline >= now
                              /\ updated' = [updated EXCEPT ![c] = drawn]
  BY DEF SetStanding
<1>2. UNCHANGED <<now, points, rules, stamp, device, owed>>
  BY DEF SetStanding
<1>3. \A b \in Cards : updated'[b] = IF b = c THEN drawn ELSE updated[b]
  BY <1>1 DEF Inv, TypeOK
<1>4. drawn \in Nat /\ drawn <= now /\ now <= drawn + Deadline /\ now <= now'
  BY <1>1, <1>2, Numbers DEF Inv
<1>5. TypeOK'
  BY <1>1, <1>2, <1>4 DEF Inv, TypeOK, device
<1>6. Times'
  BY <1>2, <1>3, <1>4, Numbers DEF Inv, Times
<1>. QED BY <1>2, <1>3, <1>4, <1>5, <1>6, WriteInv

LEMMA PutSettingsInv == ASSUME Inv, PutSettings PROVE Inv'
<1>1. TypeOK' /\ Times'
  BY DEF Inv, TypeOK, Times, PutSettings, device
<1>. QED BY <1>1, QuietInv DEF PutSettings

-----------------------------------------------------------------------------
(* The device.                                                             *)

(* Exchanges of a device d: whatever still waits to be fetched has its date*)
(* and is on the list, or is not and the device was told nothing.          *)
LEMMA DeviceInv ==
  ASSUME Inv, TypeOK', UNCHANGED <<now, programme>>, owed' \subseteq owed,
         \A d \in Devices, c \in Cards : <<d, c>> \in owed' =>
           /\ dated'[d][c] = dated[d][c]
           /\ c \in todo'[d] \/ (c \notin todo[d] /\ since'[d] = since[d])
  PROVE  Inv'
<1>1. Times' /\ now <= now' /\ UNCHANGED updated
  BY Numbers DEF Inv, Times, programme
<1>2. ASSUME NEW d \in Devices, NEW c \in Cards, <<d, c>> \in owed' PROVE Seen(d, c)'
  BY <1>1, <1>2, SeenKept
<1>. QED BY <1>1, <1>2, SeenIsInv

(* A pass is built, or removed: it waits no longer.                        *)
LEMMA HoldInv ==
  ASSUME Inv, UNCHANGED <<now, programme, since>>, registered' \subseteq Devices \X Cards,
         NEW d \in Devices, NEW c \in Cards,
         todo' \in [Devices -> SUBSET Cards],
         \A e \in Devices, b \in Cards : e # d \/ b # c => (b \in todo'[e] <=> b \in todo[e]),
         owed' = owed \ {<<d, c>>}, owed' \subseteq registered',
         \/ Hold(d, c, Built(c), Truncated(updated[c]))
         \/ Hold(d, c, NoPass, 0)
  PROVE  Inv'
<1>1. Built(c) \in Pass /\ Truncated(updated[c]) \in Nat
  BY TruncatedIsEarlier DEF Inv, TypeOK, Built, Pass
<1>2. PICK pass \in Pass \cup {NoPass}, t \in Nat : Hold(d, c, pass, t)
  BY <1>1
<1>3. /\ held' \in [Devices -> [Cards -> Pass \cup {NoPass}]]
      /\ dated' \in [Devices -> [Cards -> Nat]]
      /\ \A e \in Devices, b \in Cards : e # d \/ b # c => dated'[e][b] = dated[e][b]
  BY <1>2 DEF Inv, TypeOK, Hold
<1>4. TypeOK'
  BY <1>3 DEF Inv, TypeOK, programme
<1>5. ASSUME NEW e \in Devices, NEW b \in Cards, <<e, b>> \in owed'
      PROVE  e # d \/ b # c
  BY <1>5
<1>. QED BY <1>3, <1>4, <1>5, DeviceInv

LEMMA DownloadInv == ASSUME Inv, NEW d \in Devices, NEW c \in Cards, Download(d, c) PROVE Inv'
  BY HoldInv DEF Inv, TypeOK, Download

LEMMA RegisterInv == ASSUME Inv, NEW d \in Devices, NEW c \in Cards, Register(d, c) PROVE Inv'
<1>1. TypeOK'
  BY DEF Inv, TypeOK, Register, programme
<1>. QED BY <1>1, DeviceInv DEF Register, programme

LEMMA UnregisterInv == ASSUME Inv, NEW d \in Devices, NEW c \in Cards, Unregister(d, c) PROVE Inv'
<1>1. /\ registered' \subseteq Devices \X Cards /\ owed' \subseteq registered'
      /\ todo' \in [Devices -> SUBSET Cards]
      /\ \A e \in Devices, b \in Cards : e # d \/ b # c => (b \in todo'[e] <=> b \in todo[e])
  BY DEF Inv, TypeOK, Unregister
<1>. QED BY <1>1, HoldInv DEF Unregister

(* Of dates that are past, the latest is one of them.                      *)
LEMMA LatestIsPast ==
  ASSUME NEW S, S \subseteq Nat, S # {}, NEW n \in Nat, \A t \in S : t <= n
  PROVE  Max(S) \in S
<1>. DEFINE T == {n - t : t \in S}
<1>1. \A t \in S : n - t \in Nat
  OBVIOUS
<1>b. T # {}
  OBVIOUS
<1>a. T \subseteq Nat
  BY <1>1
<1>2. PICK x \in T : \A y \in T : <<y, x>> \notin OpToRel(<, Nat)
  BY <1>b, <1>a, NatLessThanWellFounded, WFMin
<1>3. ASSUME NEW y \in T PROVE x <= y
  <2>1. ~(y < x)
    BY <1>a, <1>2 DEF OpToRel
  <2>. QED BY <1>a, <2>1
<1>4. PICK t \in S : x = n - t
  BY <1>2
<1>5. ASSUME NEW u \in S PROVE t >= u
  <2>1. n - t <= n - u
    BY <1>3, <1>4
  <2>2. n \in Nat /\ t \in Nat /\ u \in Nat
    BY <1>4
  <2>. QED BY <2>1, <2>2
<1>. QED BY <1>4, <1>5 DEF Max

(* The lastUpdated of an answer is the time of a card that is on it.       *)
LEMMA AskedSince ==
  ASSUME Inv, NEW d \in Devices, Ask(d)
  PROVE  \E c \in UpdatedSerials(d) :
           since' = [since EXCEPT ![d] = Truncated(updated[c])]
<1>. DEFINE S == {updated[c] : c \in UpdatedSerials(d)}
<1>1. UpdatedSerials(d) \subseteq Cards /\ UpdatedSerials(d) # {}
  BY DEF Ask, UpdatedSerials
<1>2. S \subseteq Nat /\ S # {} /\ now \in Nat /\ \A t \in S : t <= now
  BY <1>1, Numbers DEF Inv, Times
<1>3. Max(S) \in S
  BY <1>2, LatestIsPast
<1>. QED BY <1>3 DEF Ask, LastUpdated

(* A pass that waits is on the list the device is told.                    *)
LEMMA AskInv == ASSUME Inv, NEW d \in Devices, Ask(d) PROVE Inv'
<1>1. PICK c \in UpdatedSerials(d) : since' = [since EXCEPT ![d] = Truncated(updated[c])]
  BY AskedSince
<1>2. UpdatedSerials(d) \in SUBSET Cards /\ Truncated(updated[c]) \in Nat
  BY <1>1, Numbers, TruncatedIsEarlier DEF Inv, UpdatedSerials
<1>3. TypeOK'
  BY <1>1, <1>2 DEF Inv, TypeOK, Ask, programme
<1>4. ASSUME NEW e \in Devices, NEW b \in Cards, <<e, b>> \in owed
      PROVE  b \in todo'[e] \/ (b \notin todo[e] /\ since'[e] = since[e])
  <2>1. CASE e # d
    BY <1>1, <2>1, <1>3 DEF Inv, TypeOK, Ask
  <2>2. CASE e = d
    <3>1. <<d, b>> \in registered /\ After(updated[b], since[d])
      BY <1>4, <2>2 DEF Inv, TypeOK, OwedIsSeen, Ask
    <3>2. todo'[d] = UpdatedSerials(d)
      BY DEF Inv, TypeOK, Ask
    <3>. QED BY <2>2, <3>1, <3>2 DEF UpdatedSerials
  <2>. QED BY <2>1, <2>2
<1>. QED BY <1>3, <1>4, DeviceInv DEF Ask

(* A 304 is no answer to a pass that waits.                                *)
LEMMA GetPassInv == ASSUME Inv, NEW d \in Devices, NEW c \in Cards, GetPass(d, c) PROVE Inv'
<1>1. /\ todo' \in [Devices -> SUBSET Cards]
      /\ \A e \in Devices, b \in Cards : e # d \/ b # c => (b \in todo'[e] <=> b \in todo[e])
      /\ UNCHANGED <<now, programme, registered, since>>
  BY DEF Inv, TypeOK, GetPass
<1>2. CASE /\ Hold(d, c, Built(c), Truncated(updated[c]))
           /\ owed' = owed \ {<<d, c>>}
  <2>1. registered' \subseteq Devices \X Cards /\ owed' \subseteq registered'
    BY <1>1, <1>2 DEF Inv, TypeOK
  <2>. QED BY <1>1, <1>2, <2>1, HoldInv
<1>3. CASE ~Modified(updated[c], dated[d][c]) /\ UNCHANGED <<held, dated, owed>>
  <2>1. <<d, c>> \notin owed
    BY <1>3 DEF Inv, OwedIsSeen
  <2>2. TypeOK'
    BY <1>1, <1>3 DEF Inv, TypeOK, programme
  <2>. QED BY <1>1, <1>3, <2>1, <2>2, DeviceInv
<1>. QED BY <1>2, <1>3 DEF GetPass

-----------------------------------------------------------------------------
LEMMA NextInv == ASSUME Inv, [Next]_vars PROVE Inv'
<1>1. CASE UNCHANGED vars
  <2>1. TypeOK' /\ Times'
    BY <1>1 DEF Inv, TypeOK, Times, vars, programme, device
  <2>. QED BY <1>1, <2>1, QuietInv DEF vars, programme
<1>2. ASSUME NEW c \in Cards, Write(c) PROVE Inv'
  BY <1>2, DrawInv, CommitPointsInv, RollbackInv, SetStandingInv DEF Write
<1>3. ASSUME NEW d \in Devices, NEW c \in Cards,
             Download(d, c) \/ Register(d, c) \/ Unregister(d, c)
      PROVE  Inv'
  BY <1>3, DownloadInv, RegisterInv, UnregisterInv
<1>4. ASSUME NEW d \in Devices, Sync(d) PROVE Inv'
  BY <1>4, AskInv, GetPassInv DEF Sync
<1>. QED BY <1>1, <1>2, <1>3, <1>4, TickInv, PutSettingsInv DEF Next

(* The times of a device whose pass waits stay behind every time a request *)
(* in its deadline can write, for every number of devices and cards.       *)
THEOREM Invariance == Spec => []Inv
<1>1. Inv /\ [Next]_vars => Inv'
  BY NextInv
<1>. QED BY InitInv, <1>1, PTL DEF Spec

(* ... so a change later than the device's times by a second and a deadline*)
(* is listed (ListUpdatedSerials) and never answered 304 (writePKPass),    *)
(* whatever blocks, unblocks and other purchases are written meanwhile.    *)
THEOREM ChangesAreSeen == Spec => []OwedIsSeen
<1>1. Inv => OwedIsSeen
  BY DEF Inv
<1>. QED BY <1>1, Invariance, PTL
=============================================================================
