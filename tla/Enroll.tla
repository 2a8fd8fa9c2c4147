------------------------------- MODULE Enroll -------------------------------
(***************************************************************************)
(* Issuing a card: Service.Enroll (internal/loyalty/service.go) behind the *)
(* handler enroll (internal/httpapi/public.go), over the table customers.  *)
(*                                                                         *)
(* A visitor is a browser; whoever sits at it types a phone number and may *)
(* type another the next time.  Requests are repeated at will, twice at a  *)
(* time or after a lost answer.  The browser keeps the cookie that the     *)
(* public endpoint gives and sends it to both endpoints, the tills' too.   *)
(* Enroll looks for the cookie, then for the phone, then inserts: three    *)
(* statements, no transaction.                                             *)
(*                                                                         *)
(* An operator named Slip... is wrong on purpose: a plausible slip in the  *)
(* operator below it, kept to show which property would notice.            *)
(***************************************************************************)
EXTENDS Naturals, FiniteSets

CONSTANTS
  Handlers,   \* goroutines serving requests
  Cards,      \* ids of customers, fresh ones drawn at random
  Visitors,   \* browsers
  Tills,      \* those with a cashier's token: they may use /cashier/enroll
  Phones,     \* valid numbers: +7 and ten digits
  Typed,      \* what is typed at each visitor: numbers in some spelling
  Number,     \* the number a spelling stands for; NoPhone when it is none
  NoCard, NoPhone, NoRequest

Spellings == DOMAIN Number

(* A request: from whom, the number typed, the cookie that came along, and *)
(* whether it came by the public endpoint, which sets the cookie.          *)
EnrollRequest == [from : Visitors, phone : Spellings, cookie : Cards \cup {NoCard},
                  setCookie : BOOLEAN]

ASSUME EnrollAssumption ==
  /\ Tills \subseteq Visitors
  /\ NoCard \notin Cards /\ NoPhone \notin Phones /\ NoRequest \notin EnrollRequest
  /\ Typed \in [Visitors -> SUBSET Spellings]
  /\ Number \in [Spellings -> Phones \cup {NoPhone}]

VARIABLES
  customers, \* rows; phone = NoPhone before they exist
  cookie,    \* the merch_cid a visitor keeps
  pc, req,   \* a handler and what it serves
  answer,    \* the card or the error code it will answer
  given      \* for the properties: what was answered to which request

vars == <<customers, cookie, pc, req, answer, given>>

Codes == {"CUSTOMER_DELETED", "INVALID_REQUEST", "INTERNAL"}

\* Ids are UUIDs, no error code among them.
ASSUME CodesAssumption == Codes \cap (Cards \cup {NoCard}) = {}

Labels == {"idle", "cookie", "phone", "insert", "reply"}

Row == [phone : Phones \cup {NoPhone}, deleted : BOOLEAN]

Init ==
  /\ customers = [c \in Cards |-> [phone |-> NoPhone, deleted |-> FALSE]]
  /\ cookie = [v \in Visitors |-> NoCard]
  /\ pc = [h \in Handlers |-> "idle"]
  /\ req = [h \in Handlers |-> NoRequest]
  /\ answer = [h \in Handlers |-> NoCard]
  /\ given = {}

Exists(c) == c # NoCard /\ customers[c].phone # NoPhone
Goto(h, label) == pc' = [pc EXCEPT ![h] = label]

Reply(h, a) ==
  /\ Goto(h, "reply")
  /\ answer' = [answer EXCEPT ![h] = a]
  /\ UNCHANGED <<cookie, given, req>>

End(h) ==
  /\ Goto(h, "idle")
  /\ req' = [req EXCEPT ![h] = NoRequest]
  /\ answer' = [answer EXCEPT ![h] = NoCard]

\* NormalizePhone and IsValidPhone: one number for all its spellings.
NormalizePhone(spelling) == Number[spelling]

PhoneOf(h) == NormalizePhone(req[h].phone)

SlipLiveHolders(p) == {c \in Cards : customers[c].phone = p /\ ~customers[c].deleted}
Holders(p) == {c \in Cards : customers[c].phone = p}

-----------------------------------------------------------------------------
Accept(h) ==
  /\ pc[h] = "idle"
  /\ \E v \in Visitors : \E spelling \in Typed[v], public \in BOOLEAN :
       /\ public \/ v \in Tills
       /\ req' = [req EXCEPT ![h] = [from |-> v, phone |-> spelling, cookie |-> cookie[v],
                                     setCookie |-> public]]
       /\ Goto(h, IF cookie[v] = NoCard THEN "phone" ELSE "cookie")
  /\ UNCHANGED <<customers, cookie, answer, given>>

CardOrDeleted(c) == IF customers[c].deleted THEN "CUSTOMER_DELETED" ELSE c

(* A cookie decides alone: the number typed is not looked at.              *)
ByCookie(h) ==
  LET c == req[h].cookie
  IN /\ pc[h] = "cookie"
     /\ \/ Exists(c) /\ Reply(h, CardOrDeleted(c))
        \/ /\ ~Exists(c)
           /\ Goto(h, "phone")
           /\ UNCHANGED <<cookie, req, answer, given>>
     /\ UNCHANGED customers

ByPhone(h) ==
  /\ pc[h] = "phone"
  /\ \/ PhoneOf(h) = NoPhone /\ Reply(h, "INVALID_REQUEST")
     \/ \E c \in Holders(PhoneOf(h)) : /\ PhoneOf(h) # NoPhone
                                       /\ Reply(h, CardOrDeleted(c))
     \/ /\ PhoneOf(h) # NoPhone /\ Holders(PhoneOf(h)) = {}
        /\ Goto(h, "insert")
        /\ UNCHANGED <<cookie, req, answer, given>>
  /\ UNCHANGED customers

\* The unique index customers_phone_uq.
SlipNoIndex(p) == TRUE
IndexAllows(p) == Holders(p) = {}

CreateCustomer(h) ==
  /\ pc[h] = "insert"
  /\ \/ /\ IndexAllows(PhoneOf(h))
        /\ \E c \in Cards : /\ ~Exists(c)
                            /\ customers' = [customers EXCEPT ![c].phone = PhoneOf(h)]
                            /\ Reply(h, c)
     \/ /\ ~IndexAllows(PhoneOf(h))
        /\ Reply(h, "INTERNAL")
        /\ UNCHANGED customers

(* The answer arrives, and with it the cookie, but not at a till's         *)
(* endpoint.                                                               *)
Answered(h) == [phone |-> PhoneOf(h), cookie |-> req[h].cookie, card |-> answer[h]]

Respond(h) ==
  LET v == req[h].from
      a == answer[h]
  IN /\ pc[h] = "reply"
     /\ \/ a \in Codes /\ UNCHANGED <<cookie, given>>
        \/ /\ a \in Cards
           /\ given' = given \cup {Answered(h)}
           /\ cookie' = IF req[h].setCookie THEN [cookie EXCEPT ![v] = a] ELSE cookie
     /\ End(h)
     /\ UNCHANGED customers

(* A deadline, a failing statement, a barcode that is taken, a lost answer *)
(* or a crash: what was inserted stays.                                    *)
Drop(h) == pc[h] # "idle" /\ End(h) /\ UNCHANGED <<customers, cookie, given>>

(* The administrator deletes and restores cards (setCustomerDeleted).      *)
SetDeleted(c) ==
  /\ Exists(c)
  /\ customers' = [customers EXCEPT ![c].deleted = ~@]
  /\ UNCHANGED <<cookie, pc, req, answer, given>>

Step(h) == Accept(h) \/ ByCookie(h) \/ ByPhone(h) \/ CreateCustomer(h) \/ Respond(h)

Next == (\E h \in Handlers : Step(h) \/ Drop(h)) \/ \E c \in Cards : SetDeleted(c)

Spec == Init /\ [][Next]_vars

-----------------------------------------------------------------------------
(* Properties.                                                             *)

(* Every variable keeps its type.                                          *)
TypeOK ==
  /\ customers \in [Cards -> Row]
  /\ cookie \in [Visitors -> Cards \cup {NoCard}]
  /\ pc \in [Handlers -> Labels]
  /\ req \in [Handlers -> EnrollRequest \cup {NoRequest}]
  /\ answer \in [Handlers -> Cards \cup {NoCard} \cup Codes]
  /\ given \subseteq [phone : Phones \cup {NoPhone}, cookie : Cards \cup {NoCard}, card : Cards]

(* The card, deleted or not, of a number.                                  *)
CardOfPhone(c, p) == c \in Cards /\ p # NoPhone /\ customers[c].phone = p

(* A browser holds no card but of a number typed there.                    *)
OwnCard(v, c) == \E spelling \in Typed[v] : CardOfPhone(c, NormalizePhone(spelling))

(* What a request may be answered: the card of its cookie if it brings one,*)
(* else the card of the number typed.                                      *)
RightCard(brought, p, c) ==
  /\ c \in Cards /\ Exists(c)
  /\ IF brought # NoCard THEN c = brought ELSE CardOfPhone(c, p)

Holds ==
  /\ \A v \in Visitors : cookie[v] # NoCard => OwnCard(v, cookie[v])
  /\ \A h \in Handlers :
       /\ pc[h] # "idle" => /\ req[h] \in EnrollRequest
                            /\ req[h].phone \in Typed[req[h].from]
                            /\ req[h].cookie # NoCard => OwnCard(req[h].from, req[h].cookie)
       /\ pc[h] \in {"phone", "insert"} => req[h].cookie = NoCard
       /\ pc[h] = "insert" => PhoneOf(h) # NoPhone
       /\ answer[h] \in Cards => /\ pc[h] = "reply"
                                 /\ RightCard(req[h].cookie, PhoneOf(h), answer[h])
  /\ \A g \in given : RightCard(g.cookie, g.phone, g.card)

UniquePhones == \A c, d \in Cards : Exists(c) /\ customers[c].phone = customers[d].phone => c = d

(* The invariant that keeps OneCard, through lost answers and races.       *)
Inv == TypeOK /\ Holds /\ UniquePhones

(* The same phone, or a cookie, never makes a second card (docs/api.md:90):*)
(* whoever types a number, with no cookie or with that of the number's own *)
(* card, is answered one card, whatever spelling is typed, whichever of    *)
(* the requests were lost or ran at once.                                  *)
Plain(g) == g.cookie = NoCard \/ customers[g.cookie].phone = g.phone

OneCard == \A f, g \in given : Plain(f) /\ Plain(g) /\ f.phone = g.phone => f.card = g.card

(* A till that enrols a client is answered the card of the number typed,   *)
(* for /cashier/enroll has no cookie (docs/api.md:294).                    *)
TillGetsNumber ==
  \A h \in Handlers :
    answer[h] \in Cards /\ ~req[h].setCookie => CardOfPhone(answer[h], PhoneOf(h))

(* A repeated request is answered the card it repeats (docs/api.md:109):   *)
(* nobody is answered an internal error while a card of their number is in *)
(* use.                                                                    *)
RepeatGetsCard ==
  \A h \in Handlers : answer[h] = "INTERNAL" =>
    \A c \in Holders(PhoneOf(h)) : customers[c].deleted
=============================================================================
