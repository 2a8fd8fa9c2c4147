---------------------------- MODULE LoyaltyRules ----------------------------
(***************************************************************************)
(* The point arithmetic of internal/loyalty/rules.go: what a receipt earns *)
(* and how many points it may redeem under the settings of the programme.  *)
(* Pure operators; amounts are whole roubles, points are whole points.     *)
(* Go's integer division truncates and \div floors: every dividend here is *)
(* non-negative where the result is used, so the two agree.                *)
(* An operator named Slip... is wrong on purpose: a plausible slip in the  *)
(* operator below it, kept to show which property would notice.            *)
(***************************************************************************)
EXTENDS Integers

SettingKeys == {"earn_percent", "earn_min_receipt", "redeem_rate",
                "redeem_min", "redeem_max_share"}

(* The settings the arithmetic reads.  earn_round, earn_base and           *)
(* expire_days are stored too, but no computation looks at them.           *)
Settings == [SettingKeys -> Int]

DefaultSettings ==
  [k \in SettingKeys |->
     CASE k = "earn_percent"     -> 5
       [] k = "earn_min_receipt" -> 0
       [] k = "redeem_rate"      -> 1
       [] k = "redeem_min"       -> 100
       [] k = "redeem_max_share" -> 50]

(* A stored value is a string; num is what strconv.Atoi makes of it when   *)
(* parses holds.  A value that does not parse leaves the default.          *)
StoredValue == [parses : BOOLEAN, num : Int]

ParseSettings(m) ==
  [k \in SettingKeys |->
     IF k \in DOMAIN m /\ m[k].parses THEN m[k].num ELSE DefaultSettings[k]]

AtLeastZero(n) == IF n < 0 THEN 0 ELSE n
SmallerOf(a, b) == IF a < b THEN a ELSE b

(* Settings.withDefaults: the admin endpoint stores whatever it is sent,   *)
(* these clamps are the only validation.                                   *)
SlipRawPercent(s) == s["earn_percent"]
SlipRawShare(s) == AtLeastZero(s["redeem_max_share"])

Rate(s) == IF s["redeem_rate"] <= 0 THEN 1 ELSE s["redeem_rate"]
Percent(s) == AtLeastZero(s["earn_percent"])
Share(s) == SmallerOf(AtLeastZero(s["redeem_max_share"]), 100)

(* The roubles of a receipt that points may pay for.                       *)
MaxRub(amount, s) == (amount * Share(s)) \div 100

SlipRoundUp(amount, redeem, s) ==
  IF amount < s["earn_min_receipt"]
  THEN 0
  ELSE (AtLeastZero(amount - redeem * Rate(s)) * Percent(s) + 99) \div 100

ComputeEarn(amount, redeem, s) ==
  IF amount < s["earn_min_receipt"]
  THEN 0
  ELSE (AtLeastZero(amount - redeem * Rate(s)) * Percent(s)) \div 100

SlipAboveMin(points, amount, s) ==
  LET max == SmallerOf(points, MaxRub(amount, s) \div Rate(s))
  IN  IF points <= 0 \/ amount <= 0 \/ max <= s["redeem_min"] THEN 0 ELSE max

MaxRedeemable(points, amount, s) ==
  LET max == SmallerOf(points, MaxRub(amount, s) \div Rate(s))
  IN  IF points <= 0 \/ amount <= 0 \/ max < s["redeem_min"] THEN 0 ELSE max

(* The code an attempt to redeem is refused with, "OK" when it is allowed. *)
CheckRedeem(points, amount, requested, s) ==
  CASE requested = 0                          -> "OK"
    [] requested < 0                          -> "INVALID_REQUEST"
    [] requested > 0
       /\ requested < s["redeem_min"]         -> "BELOW_MIN_REDEEM"
    [] requested > 0
       /\ requested >= s["redeem_min"]
       /\ requested > points                  -> "INSUFFICIENT_POINTS"
    [] requested > 0
       /\ requested >= s["redeem_min"]
       /\ requested <= points
       /\ requested * Rate(s) > MaxRub(amount, s) -> "EXCEEDS_RECEIPT_SHARE"
    [] OTHER                                  -> "OK"

(* QuoteRedeem: what the cashier is shown before the commit.               *)
QuoteRedeem(points, amount, requested, s) ==
  LET verdict == CheckRedeem(points, amount, requested, s)
      ok      == verdict = "OK"
  IN  [allowed |-> ok,
       code    |-> verdict,
       max     |-> MaxRedeemable(points, amount, s),
       redeem  |-> IF ok THEN requested ELSE 0,
       rub     |-> IF ok THEN requested * Rate(s) ELSE 0,
       earn    |-> IF ok THEN ComputeEarn(amount, requested, s) ELSE 0,
       payable |-> IF ok THEN AtLeastZero(amount - requested * Rate(s)) ELSE 0]

-----------------------------------------------------------------------------
(* What the cashier relies on.                                             *)

(* The most the till offers is exactly the most a commit accepts: a        *)
(* request passes CheckRedeem if and only if it is nothing, or lies        *)
(* between redeem_min and MaxRedeemable.                                   *)
OfferIsSharp(points, amount, requested, s) ==
  (CheckRedeem(points, amount, requested, s) = "OK") <=>
    \/ requested = 0
    \/ /\ requested > 0 /\ requested >= s["redeem_min"]
       /\ requested <= MaxRedeemable(points, amount, s)

(* An accepted quote adds up: what points pay and what the customer pays   *)
(* make the whole receipt, and points pay no more than the programme's     *)
(* share of it, whatever was stored as settings.                           *)
QuoteAddsUp(points, amount, requested, s) ==
  LET q == QuoteRedeem(points, amount, requested, s)
  IN  q.allowed => /\ q.rub + q.payable = amount
                   /\ 100 * q.rub <= Share(s) * amount
                   /\ q.redeem <= AtLeastZero(points)

(* Ringing up a receipt in two parts never earns more than in one, under   *)
(* any percentage and any minimum: floors only lose.                       *)
SplittingLoses(a, b, s) ==
  ComputeEarn(a, 0, s) + ComputeEarn(b, 0, s) <= ComputeEarn(a + b, 0, s)

(* Paying with points never earns more than paying with roubles.           *)
PointsEarnNothing(amount, redeem, s) ==
  ComputeEarn(amount, redeem, s) <= ComputeEarn(amount, 0, s)

=============================================================================
