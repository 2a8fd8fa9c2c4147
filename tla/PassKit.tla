------------------------------ MODULE PassKit -------------------------------
(***************************************************************************)
(* Apple Wallet passes kept up to date: the web service of                 *)
(* internal/httpapi/apple.go, the download in public.go and the queries of *)
(* internal/store/apple_jobs.go, by the times in customers.updated_at.     *)
(*                                                                         *)
(* A device asks which of its passes changed since the time it was told    *)
(* last, then downloads each unless it is told 304.  Times are ticks,      *)
(* PerSecond of them a second; what travels in headers and queries has     *)
(* whole seconds.  A pass prints the points and the rules of the programme,*)
(* both numbered by how often they changed.  An exchange is one step, taken*)
(* at the statement that answers it; one that is lost changes nothing and  *)
(* is tried again.                                                         *)
(*                                                                         *)
(* An operator named Slip... is wrong on purpose: a plausible slip in the  *)
(* operator below it, kept to show which property would notice.            *)
(***************************************************************************)
EXTENDS Integers, FiniteSets, FiniteSetsExt

CONSTANTS
  Devices, Cards,
  PerSecond,   \* ticks in a second
  Deadline,    \* ticks after which a request is given up, withTimeout
  NoTime, NoPass,
  MaxTime,     \* bound: the clock
  MaxPoints,   \* bound: changes of the points, by card
  MaxRules     \* bound: changes of the rules

ASSUME PassKitAssumption ==
  /\ PerSecond \in Nat \ {0}
  /\ Deadline \in Nat /\ NoTime \notin Nat
  /\ MaxTime \in Nat /\ MaxPoints \in [Cards -> Nat] /\ MaxRules \in Nat

Pass == [points : Nat, rules : Nat]

ASSUME NoPassAssumption == NoPass \notin Pass

VARIABLES
  now,         \* the clock
  points,      \* the number of the points in customers, by card
  rules,       \* the number of the rules in loyalty_settings
  updated,     \* updated_at as committed, by card
  stamp,       \* the time drawn by a transaction that changes the points
  registered,  \* rows of apple_devices
  since,       \* lastUpdated as the device was told
  todo,        \* serials it was told and has not asked for yet
  held, dated, \* the pass it has, and the Last-Modified that came with it
  owed         \* history: registered passes whose points changed later than
               \* the device's times by a second and a deadline, and that
               \* were not fetched since; no action reads it

programme == <<points, rules, updated, stamp>>
device    == <<registered, since, todo, held, dated>>
vars      == <<now, programme, device, owed>>

Init ==
  /\ now = 0
  /\ points = [c \in Cards |-> 0] /\ rules = 0
  /\ updated = [c \in Cards |-> 0]
  /\ stamp = [c \in Cards |-> NoTime]
  /\ registered = {}
  /\ since = [d \in Devices |-> NoTime]
  /\ todo = [d \in Devices |-> {}]
  /\ held = [d \in Devices |-> [c \in Cards |-> NoPass]]
  /\ dated = [d \in Devices |-> [c \in Cards |-> 0]]
  /\ owed = {}

\* RFC1123 and Unix seconds drop the fraction.
Truncated(t) == t - (t % PerSecond)

Tick == now < MaxTime /\ now' = now + 1 /\ UNCHANGED <<programme, device, owed>>

-----------------------------------------------------------------------------
(* The writers.  A transaction that changes the points draws its time with *)
(* the row locked, and others see what it wrote when it commits; once its  *)
(* request is past the deadline it can only roll back.                     *)
Draw(c) ==
  /\ stamp[c] = NoTime /\ points[c] < MaxPoints[c]
  /\ stamp' = [stamp EXCEPT ![c] = now]
  /\ UNCHANGED <<now, points, rules, updated, device, owed>>

\* Registered for the card, with times that are older by a second and a deadline.
Silent(d, c) ==
  /\ <<d, c>> \in registered
  /\ since[d] = NoTime \/ now > since[d] + Deadline
  /\ now > dated[d][c] + PerSecond + Deadline

SlipUnstamped(c) ==
  /\ stamp[c] # NoTime /\ now <= stamp[c] + Deadline
  /\ points' = [points EXCEPT ![c] = @ + 1]
  /\ stamp' = [stamp EXCEPT ![c] = NoTime]
  /\ owed' = owed \cup {<<d, c>> : d \in {e \in Devices : Silent(e, c)}}
  /\ UNCHANGED <<now, rules, updated, device>>

CommitPoints(c) ==
  /\ stamp[c] # NoTime /\ now <= stamp[c] + Deadline
  /\ points' = [points EXCEPT ![c] = @ + 1]
  /\ updated' = [updated EXCEPT ![c] = stamp[c]]
  /\ stamp' = [stamp EXCEPT ![c] = NoTime]
  /\ owed' = owed \cup {<<d, c>> : d \in {e \in Devices : Silent(e, c)}}
  /\ UNCHANGED <<now, rules, device>>

Rollback(c) ==
  /\ stamp[c] # NoTime
  /\ stamp' = [stamp EXCEPT ![c] = NoTime]
  /\ UNCHANGED <<now, points, rules, updated, device, owed>>

(* SetCustomerBlocked and SetCustomerDeleted draw the time before their    *)
(* one statement gets the row, which it waits for until the deadline; a    *)
(* pass does not show what they write.                                     *)
SetStanding(c) ==
  /\ stamp[c] = NoTime
  /\ \E drawn \in 0..now : /\ drawn + Deadline >= now
                          /\ updated' = [updated EXCEPT ![c] = drawn]
  /\ UNCHANGED <<now, points, rules, stamp, device, owed>>

PutSettings ==
  /\ rules < MaxRules
  /\ rules' = rules + 1
  /\ UNCHANGED <<now, points, updated, stamp, device, owed>>

-----------------------------------------------------------------------------
(* A device.                                                               *)

\* The pass that BuildPKPass makes of a card.
Built(c) == [points |-> points[c], rules |-> rules]

Hold(d, c, pass, t) ==
  /\ held' = [held EXCEPT ![d][c] = pass]
  /\ dated' = [dated EXCEPT ![d][c] = t]

\* The pass from the card's page.
Download(d, c) ==
  /\ Hold(d, c, Built(c), Truncated(updated[c]))
  /\ owed' = owed \ {<<d, c>>}
  /\ UNCHANGED <<now, programme, registered, since, todo>>

Register(d, c) ==
  /\ held[d][c] # NoPass
  /\ registered' = registered \cup {<<d, c>>}
  /\ UNCHANGED <<now, programme, since, todo, held, dated, owed>>

Unregister(d, c) ==
  /\ <<d, c>> \in registered
  /\ registered' = registered \ {<<d, c>>}
  /\ todo' = [todo EXCEPT ![d] = @ \ {c}]
  /\ Hold(d, c, NoPass, 0)
  /\ owed' = owed \ {<<d, c>>}
  /\ UNCHANGED <<now, programme, since>>

\* ListUpdatedSerials.
SlipSlack(t, s) == s = NoTime \/ t > s + PerSecond
After(t, s) == s = NoTime \/ t > s
UpdatedSerials(d) == {c \in Cards : <<d, c>> \in registered /\ After(updated[c], since[d])}

LastUpdated(t) == Truncated(t)

Ask(d) ==
  /\ todo[d] = {} /\ UpdatedSerials(d) # {}
  /\ todo' = [todo EXCEPT ![d] = UpdatedSerials(d)]
  /\ since' = [since EXCEPT ![d] = LastUpdated(Max({updated[c] : c \in UpdatedSerials(d)}))]
  /\ UNCHANGED <<now, programme, registered, held, dated, owed>>

\* The test in writePKPass that decides between 304 and a pass.
SlipTwoSeconds(t, header) == t > header + 2 * PerSecond
Modified(t, header) == t > header + PerSecond

GetPass(d, c) ==
  /\ c \in todo[d]
  /\ todo' = [todo EXCEPT ![d] = @ \ {c}]
  /\ \/ /\ Modified(updated[c], dated[d][c])
        /\ Hold(d, c, Built(c), Truncated(updated[c]))
        /\ owed' = owed \ {<<d, c>>}
     \/ /\ ~Modified(updated[c], dated[d][c])
        /\ UNCHANGED <<held, dated, owed>>
  /\ UNCHANGED <<now, programme, registered, since>>

-----------------------------------------------------------------------------
Write(c) == Draw(c) \/ CommitPoints(c) \/ Rollback(c) \/ SetStanding(c)

Sync(d) == Ask(d) \/ \E c \in Cards : GetPass(d, c)

Next == \/ Tick \/ PutSettings
        \/ \E c \in Cards : Write(c)
        \/ \E d \in Devices, c \in Cards : Download(d, c) \/ Register(d, c) \/ Unregister(d, c)
        \/ \E d \in Devices : Sync(d)

Spec == Init /\ [][Next]_vars

(* A device that was pushed to, or whose user pulls, asks in the end.      *)
FairSpec == Spec /\ \A d \in Devices : WF_vars(Sync(d))

-----------------------------------------------------------------------------
(* Properties.                                                             *)

(* Every column and every field a device keeps has its type.               *)
TypeOK ==
  /\ now \in Nat
  /\ points \in [Cards -> Nat] /\ rules \in Nat
  /\ updated \in [Cards -> Nat]
  /\ stamp \in [Cards -> Nat \cup {NoTime}]
  /\ registered \subseteq Devices \X Cards
  /\ since \in [Devices -> Nat \cup {NoTime}]
  /\ todo \in [Devices -> SUBSET Cards]
  /\ held \in [Devices -> [Cards -> Pass \cup {NoPass}]]
  /\ dated \in [Devices -> [Cards -> Nat]]
  /\ owed \subseteq registered

Has(d, c) == held[d][c] # NoPass
UpToDate(d, c) == Has(d, c) /\ held[d][c].points = points[c]

(* A change of points later than a device's times by a second and a        *)
(* deadline is hidden by no comparison of times, whatever is written to the*)
(* card or told of other cards before the device asks: it is on the list it*)
(* has or the next one (ListUpdatedSerials), and its question for the pass *)
(* is not answered 304 (writePKPass).                                      *)
OwedIsSeen ==
  \A d \in Devices, c \in Cards : <<d, c>> \in owed =>
    /\ c \in todo[d] \/ After(updated[c], since[d])
    /\ Modified(updated[c], dated[d][c])

(* ... and the device gets the points, or removes the pass.                *)
PassesConverge ==
  \A d \in Devices, c \in Cards :
    <<d, c>> \in owed ~> (~Has(d, c) \/ UpToDate(d, c))

(* Why: whoever waits to be fetched has times that are behind every time   *)
(* that a request in its deadline can still write.                         *)
Behind == \A d \in Devices, c \in Cards : <<d, c>> \in owed =>
  /\ c \notin todo[d] /\ since[d] # NoTime => since[d] + Deadline < now
  /\ dated[d][c] + PerSecond + Deadline < now

\* No time is in the future.
Times == \A c \in Cards : updated[c] <= now /\ (stamp[c] # NoTime => stamp[c] <= now)

Inv == TypeOK /\ Times /\ Behind /\ OwedIsSeen

-----------------------------------------------------------------------------
(* What docs/api.md says without these terms, and what the code breaks.    *)

(* Whoever is told 304 has the card's points as they are (docs/api.md:460).*)
NotModifiedIsTrue ==
  \A d \in Devices, c \in Cards :
    Has(d, c) /\ ~Modified(updated[c], dated[d][c]) => UpToDate(d, c)

(* ... and the rules printed on it as they are.                            *)
RulesAreCurrent ==
  \A d \in Devices, c \in Cards :
    Has(d, c) /\ ~Modified(updated[c], dated[d][c]) => held[d][c].rules = rules

(* A device that is told there is nothing new (docs/api.md:459) has nothing*)
(* old: a registered pass whose points changed is on its list or will be.  *)
ChangesAreListed ==
  \A d \in Devices, c \in Cards :
    <<d, c>> \in registered /\ ~UpToDate(d, c) =>
      c \in todo[d] \/ After(updated[c], since[d])
=============================================================================
