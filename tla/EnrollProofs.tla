---------------------------- MODULE EnrollProofs ----------------------------
(***************************************************************************)
(* Proofs about Enroll: Inv is inductive, and with it the programme never  *)
(* gives two cards to one number, for any number of visitors, spellings,   *)
(* handlers and cards, whatever numbers are typed at one browser.          *)
(***************************************************************************)
EXTENDS Enroll, TLAPS

USE DEF Labels, Codes

LEMMA InitInv == Init => Inv
<1>. SUFFICES ASSUME Init PROVE Inv
  OBVIOUS
<1>1. TypeOK
  <2>1. customers \in [Cards -> Row]
    BY DEF Init, Row
  <2>2. cookie \in [Visitors -> Cards \cup {NoCard}] /\ given = {}
    BY DEF Init
  <2>3. /\ pc \in [Handlers -> Labels]
        /\ req \in [Handlers -> EnrollRequest \cup {NoRequest}]
        /\ answer \in [Handlers -> Cards \cup {NoCard} \cup Codes]
    BY DEF Init
  <2>. QED BY <2>1, <2>2, <2>3 DEF TypeOK
<1>2. Holds
  BY EnrollAssumption DEF Init, Holds
<1>3. UniquePhones
  BY DEF Init, UniquePhones, Exists
<1>. QED BY <1>1, <1>2, <1>3 DEF Inv

-----------------------------------------------------------------------------
(* What each step keeps.                                                   *)

(* Whatever is on record of a number stays so while phones are not         *)
(* rewritten: rows are only ever added.                                    *)
CardsKept ==
  /\ \A c, p : CardOfPhone(c, p) => CardOfPhone(c, p)'
  /\ \A v, c : OwnCard(v, c) => OwnCard(v, c)'
  /\ \A k, p, c : RightCard(k, p, c) => RightCard(k, p, c)'

LEMMA CardsStay ==
  ASSUME \A c \in Cards : customers[c].phone # NoPhone => customers'[c].phone = customers[c].phone
  PROVE  CardsKept
<1>1. \A c, p : CardOfPhone(c, p) => CardOfPhone(c, p)'
  BY DEF CardOfPhone
<1>2. \A v, c : OwnCard(v, c) => OwnCard(v, c)'
  BY <1>1 DEF OwnCard, NormalizePhone
<1>3. \A k, p, c : RightCard(k, p, c) => RightCard(k, p, c)'
  BY <1>1 DEF RightCard, Exists
<1>. QED BY <1>1, <1>2, <1>3 DEF CardsKept

(* A step that leaves the phones alone keeps what they imply.              *)
LEMMA PhonesKept ==
  ASSUME Inv, \A c \in Cards : customers'[c].phone = customers[c].phone
  PROVE  UniquePhones' /\ CardsKept
<1>1. UniquePhones'
  BY DEF Inv, UniquePhones, Exists
<1>. QED BY <1>1, CardsStay

(* What a busy handler serves.                                             *)
LEMMA Served ==
  ASSUME Inv, NEW h \in Handlers, pc[h] # "idle"
  PROVE  /\ req[h] \in EnrollRequest
         /\ req[h].from \in Visitors /\ req[h].phone \in Typed[req[h].from]
         /\ req[h].cookie \in Cards \cup {NoCard}
         /\ req[h].cookie # NoCard => OwnCard(req[h].from, req[h].cookie)
         /\ PhoneOf(h) = NormalizePhone(req[h].phone)
         /\ PhoneOf(h) \in Phones \cup {NoPhone}
<1>1. /\ req[h] \in EnrollRequest /\ req[h].phone \in Typed[req[h].from]
      /\ req[h].cookie # NoCard => OwnCard(req[h].from, req[h].cookie)
  BY DEF Inv, Holds
<1>. QED BY <1>1, EnrollAssumption DEF EnrollRequest, PhoneOf, NormalizePhone, Spellings

(* A handler's part of Holds.                                              *)
HandlerHolds(h) ==
  /\ pc[h] # "idle" => /\ req[h] \in EnrollRequest
                       /\ req[h].phone \in Typed[req[h].from]
                       /\ req[h].cookie # NoCard => OwnCard(req[h].from, req[h].cookie)
  /\ pc[h] \in {"phone", "insert"} => req[h].cookie = NoCard
  /\ pc[h] = "insert" => PhoneOf(h) # NoPhone
  /\ answer[h] \in Cards => /\ pc[h] = "reply"
                            /\ RightCard(req[h].cookie, PhoneOf(h), answer[h])

LEMMA OthersHold ==
  ASSUME Inv, CardsKept, NEW g \in Handlers,
         pc'[g] = pc[g], req'[g] = req[g], answer'[g] = answer[g]
  PROVE  HandlerHolds(g)'
  BY DEF Inv, Holds, HandlerHolds, CardsKept, PhoneOf

LEMMA HoldsParts ==
  ASSUME \A v \in Visitors : cookie[v] # NoCard => OwnCard(v, cookie[v]),
         \A h \in Handlers : HandlerHolds(h),
         \A g \in given : RightCard(g.cookie, g.phone, g.card)
  PROVE  Holds
  BY DEF Holds, HandlerHolds

LEMMA StillHolds ==
  ASSUME Inv, CardsKept, UNCHANGED <<cookie, given>>, NEW h \in Handlers, HandlerHolds(h)',
         \A g \in Handlers \ {h} : pc'[g] = pc[g] /\ req'[g] = req[g] /\ answer'[g] = answer[g]
  PROVE  Holds'
<1>1. \A g \in Handlers : HandlerHolds(g)'
  BY OthersHold
<1>2. /\ \A v \in Visitors : cookie'[v] # NoCard => OwnCard(v, cookie[v])'
      /\ \A g \in given' : RightCard(g.cookie, g.phone, g.card)'
  BY DEF Inv, Holds, CardsKept
<1>. QED BY <1>1, <1>2 DEF Holds, HandlerHolds

(* A reply: the answer is an error code or the right card.                 *)
LEMMA ReplyInv ==
  ASSUME Inv, NEW h \in Handlers, pc[h] # "idle", NEW a \in Cards \cup Codes, Reply(h, a),
         customers' \in [Cards -> Row], UniquePhones', CardsKept,
         a \in Cards => RightCard(req[h].cookie, PhoneOf(h), a)'
  PROVE  Inv'
<1>1. /\ pc' = [pc EXCEPT ![h] = "reply"] /\ answer' = [answer EXCEPT ![h] = a]
      /\ UNCHANGED <<cookie, given, req>>
  BY DEF Reply, Goto
<1>2. TypeOK'
  BY <1>1 DEF Inv, TypeOK
<1>3. pc'[h] = "reply" /\ answer'[h] = a /\ req'[h] = req[h]
  BY <1>1 DEF Inv, TypeOK
<1>4. HandlerHolds(h)'
  <2>1. /\ req[h] \in EnrollRequest /\ req[h].phone \in Typed[req[h].from]
        /\ req[h].cookie # NoCard => OwnCard(req[h].from, req[h].cookie)'
    BY <1>1, Served DEF CardsKept, OwnCard
  <2>2. a \in Cards => RightCard(req[h].cookie, PhoneOf(h), a)'
    OBVIOUS
  <2>. QED BY <1>3, <2>1, <2>2, CodesAssumption DEF HandlerHolds, PhoneOf
<1>5. Holds'
  BY <1>1, <1>4, StillHolds DEF Inv, TypeOK
<1>. QED BY <1>2, <1>5 DEF Inv

LEMMA AcceptInv == ASSUME Inv, NEW h \in Handlers, Accept(h) PROVE Inv'
<1>1. UniquePhones' /\ CardsKept
  BY PhonesKept DEF Accept
<1>a. PICK v \in Visitors : \E spelling \in Typed[v], public \in BOOLEAN :
        /\ req' = [req EXCEPT ![h] = [from |-> v, phone |-> spelling, cookie |-> cookie[v],
                                      setCookie |-> public]]
        /\ Goto(h, IF cookie[v] = NoCard THEN "phone" ELSE "cookie")
  BY DEF Accept
<1>2. PICK spelling \in Typed[v], public \in BOOLEAN :
        /\ req' = [req EXCEPT ![h] = [from |-> v, phone |-> spelling, cookie |-> cookie[v],
                                      setCookie |-> public]]
        /\ Goto(h, IF cookie[v] = NoCard THEN "phone" ELSE "cookie")
  BY <1>a
<1>3. PICK q \in EnrollRequest :
        /\ q = [from |-> v, phone |-> spelling, cookie |-> cookie[v], setCookie |-> public]
  <2>1. spelling \in Spellings
    BY EnrollAssumption
  <2>2. cookie[v] \in Cards \cup {NoCard}
    BY DEF Inv, TypeOK
  <2>. QED BY <2>1, <2>2 DEF EnrollRequest
<1>4. /\ q.phone \in Typed[q.from] /\ q.cookie = cookie[v]
      /\ q.cookie # NoCard => OwnCard(q.from, q.cookie)
  BY <1>3 DEF Inv, Holds
<1>5. req' = [req EXCEPT ![h] = q]
  BY <1>2, <1>3
<1>6. UNCHANGED <<customers, cookie, answer, given>> /\ pc[h] = "idle"
  BY DEF Accept
<1>7. TypeOK'
  BY <1>2, <1>3, <1>5, <1>6 DEF Inv, TypeOK, Goto
<1>8. HandlerHolds(h)'
  <2>1. req'[h] = q /\ answer'[h] \notin Cards
    BY <1>5, <1>6 DEF Inv, TypeOK, Holds
  <2>2. /\ q.cookie # NoCard => pc'[h] = "cookie"
        /\ pc'[h] \in {"phone", "cookie"}
    BY <1>2, <1>4 DEF Goto, Inv, TypeOK
  <2>3. q.cookie # NoCard => OwnCard(q.from, q.cookie)'
    BY <1>1, <1>4 DEF CardsKept
  <2>. QED BY <1>3, <1>4, <2>1, <2>2, <2>3 DEF HandlerHolds
<1>9. Holds'
  BY <1>1, <1>2, <1>5, <1>6, <1>8, StillHolds DEF Inv, TypeOK, Goto
<1>. QED BY <1>1, <1>7, <1>9 DEF Inv

LEMMA LookupInv == ASSUME Inv, NEW h \in Handlers, ByCookie(h) \/ ByPhone(h) PROVE Inv'
<1>0. /\ UniquePhones' /\ CardsKept /\ UNCHANGED customers /\ customers' \in [Cards -> Row]
      /\ pc[h] \in {"cookie", "phone"}
  BY PhonesKept DEF Inv, TypeOK, ByCookie, ByPhone
<1>1. ASSUME NEW label \in {"phone", "insert"}, Goto(h, label), req[h].cookie = NoCard,
             UNCHANGED <<cookie, req, answer, given>>,
             label = "insert" => PhoneOf(h) # NoPhone
      PROVE  Inv'
  <2>1. TypeOK'
    BY <1>0, <1>1 DEF Inv, TypeOK, Goto
  <2>2. /\ pc'[h] = label /\ req'[h] = req[h] /\ answer'[h] = answer[h]
        /\ answer[h] \notin Cards
    BY <1>0, <1>1 DEF Inv, TypeOK, Goto, Holds
  <2>3. HandlerHolds(h)'
    BY <1>0, <1>1, <2>2, Served DEF HandlerHolds, PhoneOf
  <2>4. Holds'
    BY <1>0, <1>1, <2>3, StillHolds DEF Inv, TypeOK, Goto
  <2>. QED BY <1>0, <2>1, <2>4 DEF Inv
<1>2. ASSUME NEW c \in Cards, RightCard(req[h].cookie, PhoneOf(h), c), Reply(h, CardOrDeleted(c))
      PROVE  Inv'
  <2>1. RightCard(req[h].cookie, PhoneOf(h), c)'
    BY <1>0, <1>2 DEF CardsKept, Reply, RightCard, CardOfPhone, PhoneOf
  <2>2. CASE customers[c].deleted
    BY <1>0, <1>2, <2>2, ReplyInv, CodesAssumption DEF CardOrDeleted
  <2>3. CASE ~customers[c].deleted
    BY <1>0, <1>2, <2>1, <2>3, ReplyInv DEF CardOrDeleted
  <2>. QED BY <2>2, <2>3
<1>3. CASE ByCookie(h)
  <2>1. pc[h] = "cookie" /\ req[h].cookie \in Cards \cup {NoCard}
    BY <1>3, Served DEF ByCookie
  <2>2. CASE Exists(req[h].cookie) /\ Reply(h, CardOrDeleted(req[h].cookie))
    BY <1>2, <2>1, <2>2 DEF Exists, RightCard
  <2>3. CASE ~Exists(req[h].cookie)
    <3>1. req[h].cookie = NoCard
      BY <2>1, <2>3, Served DEF Exists, OwnCard, CardOfPhone
    <3>. QED BY <1>1, <1>3, <2>3, <3>1 DEF ByCookie
  <2>. QED BY <1>3, <2>2, <2>3 DEF ByCookie
<1>4. CASE ByPhone(h)
  <2>1. req[h].cookie = NoCard
    BY <1>4 DEF ByPhone, Inv, Holds
  <2>2. CASE PhoneOf(h) = NoPhone /\ Reply(h, "INVALID_REQUEST")
    BY <1>0, <2>2, ReplyInv, CodesAssumption
  <2>3. ASSUME NEW c \in Holders(PhoneOf(h)), PhoneOf(h) # NoPhone, Reply(h, CardOrDeleted(c))
        PROVE  Inv'
    BY <1>2, <2>1, <2>3, EnrollAssumption DEF Holders, RightCard, CardOfPhone, Exists
  <2>4. CASE PhoneOf(h) # NoPhone /\ Holders(PhoneOf(h)) = {} /\ Goto(h, "insert")
             /\ UNCHANGED <<cookie, req, answer, given>>
    BY <1>1, <2>1, <2>4
  <2>. QED BY <1>4, <2>2, <2>3, <2>4 DEF ByPhone
<1>. QED BY <1>3, <1>4

(* The insertion: the index lets a number in only once.                    *)
LEMMA CreateInv == ASSUME Inv, NEW h \in Handlers, CreateCustomer(h) PROVE Inv'
<1>0. /\ pc[h] = "insert" /\ PhoneOf(h) # NoPhone /\ PhoneOf(h) \in Phones
      /\ req[h].cookie = NoCard
  BY Served DEF CreateCustomer, Inv, Holds
<1>1. CASE IndexAllows(PhoneOf(h))
  <2>1. PICK c \in Cards : /\ ~Exists(c)
                           /\ customers' = [customers EXCEPT ![c].phone = PhoneOf(h)]
                           /\ Reply(h, c)
    BY <1>1 DEF CreateCustomer
  <2>2. c # NoCard /\ customers[c].phone = NoPhone /\ customers[c] \in Row
    BY <2>1, EnrollAssumption DEF Exists, Inv, TypeOK
  <2>3. customers' \in [Cards -> Row] /\ customers'[c].phone = PhoneOf(h)
        /\ \A d \in Cards \ {c} : customers'[d] = customers[d]
    BY <1>0, <2>1, <2>2 DEF Inv, TypeOK, Row
  <2>4. \A d \in Cards : customers[d].phone # PhoneOf(h)
    BY <1>1 DEF IndexAllows, Holders
  <2>5. UniquePhones'
    BY <1>0, <2>2, <2>3, <2>4 DEF Inv, UniquePhones, Exists
  <2>6. CardsKept
    BY <2>2, <2>3, CardsStay
  <2>7. RightCard(req[h].cookie, PhoneOf(h), c)'
    BY <1>0, <2>1, <2>2, <2>3 DEF RightCard, CardOfPhone, Exists, Reply, PhoneOf
  <2>. QED BY <1>0, <2>1, <2>3, <2>5, <2>6, <2>7, ReplyInv
<1>2. CASE ~IndexAllows(PhoneOf(h))
  <2>1. Reply(h, "INTERNAL") /\ UNCHANGED customers
    BY <1>2 DEF CreateCustomer
  <2>. QED BY <1>0, <2>1, PhonesKept, ReplyInv, CodesAssumption DEF Inv, TypeOK
<1>. QED BY <1>1, <1>2

LEMMA EndInv ==
  ASSUME Inv, NEW h \in Handlers, End(h), UNCHANGED customers,
         cookie' \in [Visitors -> Cards \cup {NoCard}],
         given' \subseteq [phone : Phones \cup {NoPhone}, cookie : Cards \cup {NoCard}, card : Cards],
         \A v \in Visitors : cookie'[v] # NoCard => OwnCard(v, cookie'[v]),
         \A g \in given' : RightCard(g.cookie, g.phone, g.card)
  PROVE  Inv'
<1>1. UniquePhones' /\ CardsKept
  BY PhonesKept DEF Inv, TypeOK
<1>2. TypeOK'
  BY DEF Inv, TypeOK, End, Goto
<1>3. \A g \in Handlers \ {h} : HandlerHolds(g)'
  BY <1>1, OthersHold DEF Inv, TypeOK, End, Goto
<1>4. HandlerHolds(h)'
  BY EnrollAssumption DEF Inv, TypeOK, End, Goto, HandlerHolds
<1>5. /\ \A v \in Visitors : cookie'[v] # NoCard => OwnCard(v, cookie[v])'
      /\ \A g \in given' : RightCard(g.cookie, g.phone, g.card)'
  BY <1>1 DEF CardsKept, OwnCard, RightCard, CardOfPhone
<1>6. Holds'
  BY <1>3, <1>4, <1>5 DEF Holds, HandlerHolds
<1>. QED BY <1>1, <1>2, <1>6 DEF Inv

(* A cookie is given for a card of a number typed at the browser.          *)
LEMMA RespondInv == ASSUME Inv, NEW h \in Handlers, Respond(h) PROVE Inv'
<1>1. CASE answer[h] \in Codes /\ UNCHANGED <<cookie, given>>
  BY <1>1, EndInv DEF Respond, Inv, TypeOK, Holds
<1>2. CASE /\ answer[h] \in Cards
           /\ given' = given \cup {Answered(h)}
           /\ cookie' = IF req[h].setCookie THEN [cookie EXCEPT ![req[h].from] = answer[h]]
                                            ELSE cookie
  <2>1. pc[h] = "reply" /\ RightCard(req[h].cookie, PhoneOf(h), answer[h])
    BY <1>2 DEF Respond, Inv, Holds
  <2>2. OwnCard(req[h].from, answer[h])
    BY <2>1, Served DEF RightCard, OwnCard
  <2>3. /\ Answered(h) \in [phone : Phones \cup {NoPhone}, cookie : Cards \cup {NoCard}, card : Cards]
        /\ RightCard(Answered(h).cookie, Answered(h).phone, Answered(h).card)
    BY <1>2, <2>1, Served DEF Answered
  <2>4. /\ cookie' \in [Visitors -> Cards \cup {NoCard}]
        /\ \A v \in Visitors : cookie'[v] # NoCard => OwnCard(v, cookie'[v])
    BY <1>2, <2>1, <2>2, Served DEF Inv, TypeOK, Holds
  <2>. QED BY <1>2, <2>3, <2>4, EndInv DEF Respond, Inv, TypeOK, Holds
<1>. QED BY <1>1, <1>2 DEF Respond

LEMMA DropInv == ASSUME Inv, NEW h \in Handlers, Drop(h) PROVE Inv'
  BY EndInv DEF Drop, Inv, TypeOK, Holds

LEMMA DeleteInv == ASSUME Inv, NEW c \in Cards, SetDeleted(c) PROVE Inv'
<1>1. customers' \in [Cards -> Row] /\ \A d \in Cards : customers'[d].phone = customers[d].phone
  BY DEF SetDeleted, Inv, TypeOK, Row
<1>2. UniquePhones' /\ CardsKept
  BY <1>1, PhonesKept
<1>3. TypeOK'
  BY <1>1 DEF Inv, TypeOK, SetDeleted
<1>4. Holds'
  BY <1>2 DEF Inv, Holds, SetDeleted, PhoneOf, CardsKept
<1>. QED BY <1>2, <1>3, <1>4 DEF Inv

LEMMA StutterInv == ASSUME Inv, UNCHANGED vars PROVE Inv'
<1>1. UniquePhones' /\ CardsKept
  BY PhonesKept DEF vars
<1>2. TypeOK' /\ Holds'
  BY <1>1 DEF Inv, TypeOK, Holds, PhoneOf, vars, CardsKept
<1>. QED BY <1>1, <1>2 DEF Inv

-----------------------------------------------------------------------------
(* A number has one card; a request is answered its cookie's card or the   *)
(* card of its number; and a browser's cookie is of a number typed there.  *)
THEOREM Invariance == Spec => []Inv
<1>1. Inv /\ [Next]_vars => Inv'
  BY AcceptInv, LookupInv, CreateInv, RespondInv, DropInv, DeleteInv, StutterInv DEF Next, Step
<1>. QED BY InitInv, <1>1, PTL DEF Spec

(* However often, from where and in whichever spelling a number asks, and  *)
(* whatever is lost or races, it is given one card, unless the browser's   *)
(* cookie is of another number.                                            *)
THEOREM NoSecondCard == Spec => []OneCard
<1>1. Inv => OneCard
  <2>. SUFFICES ASSUME Inv, NEW f \in given, NEW g \in given, Plain(f), Plain(g), f.phone = g.phone
                PROVE  f.card = g.card
    BY DEF OneCard
  <2>1. ASSUME NEW e \in given, Plain(e) PROVE CardOfPhone(e.card, e.phone)
    <3>1. RightCard(e.cookie, e.phone, e.card)
      BY DEF Inv, Holds
    <3>2. CASE e.cookie = NoCard
      BY <3>1, <3>2 DEF RightCard
    <3>3. CASE e.cookie # NoCard /\ customers[e.cookie].phone = e.phone
      BY <3>1, <3>3 DEF RightCard, CardOfPhone, Exists
    <3>. QED BY <2>1, <3>2, <3>3 DEF Plain
  <2>. QED BY <2>1, EnrollAssumption DEF Inv, UniquePhones, Exists, CardOfPhone
<1>. QED BY Invariance, <1>1, PTL
=============================================================================
