------------------------- MODULE LoyaltyRulesProofs -------------------------
(***************************************************************************)
(* What the point arithmetic guarantees for every amount, every balance    *)
(* and every settings map.                                                 *)
(***************************************************************************)
EXTENDS LoyaltyRules, TLAPS

-----------------------------------------------------------------------------
(* Facts about division and multiplication, stated once.                   *)

(* A quotient of a product of naturals is a natural.                       *)
LEMMA ShareIsNat ==
  ASSUME NEW a \in Nat, NEW p \in Nat
  PROVE  (a * p) \div 100 \in Nat
  OBVIOUS

(* A count fits under a quotient just when its multiple fits under the     *)
(* dividend.                                                               *)
LEMMA DivBound ==
  ASSUME NEW n \in Nat, NEW m \in Nat, NEW d \in Nat, d > 0
  PROVE  (n <= m \div d) <=> (n * d <= m)
  OBVIOUS

(* A larger base earns no less.                                            *)
LEMMA ProductMonotone ==
  ASSUME NEW a \in Nat, NEW b \in Nat, NEW p \in Nat, a <= b
  PROVE  a * p <= b * p
  OBVIOUS

LEMMA DivMonotone ==
  ASSUME NEW a \in Nat, NEW b \in Nat, a <= b
  PROVE  a \div 100 <= b \div 100
  OBVIOUS

(* Two floors sum to no more than the floor of the sum.                    *)
LEMMA FloorsLose ==
  ASSUME NEW a \in Nat, NEW b \in Nat
  PROVE  (a \div 100) + (b \div 100) <= (a + b) \div 100
  OBVIOUS

(* The settings the formulas use are sane whatever the table holds.        *)
LEMMA ClampedSettings ==
  ASSUME NEW s \in Settings
  PROVE  /\ Rate(s) \in Nat /\ Rate(s) > 0
         /\ Percent(s) \in Nat
         /\ Share(s) \in 0 .. 100
         /\ s["redeem_min"] \in Int
         /\ s["earn_min_receipt"] \in Int
<1>1. \A k \in SettingKeys : s[k] \in Int
  BY DEF Settings
<1>2. /\ s["redeem_rate"] \in Int /\ s["earn_percent"] \in Int
      /\ s["redeem_max_share"] \in Int /\ s["redeem_min"] \in Int
      /\ s["earn_min_receipt"] \in Int
  BY <1>1 DEF SettingKeys
<1>3. QED
  BY <1>2 DEF Rate, Percent, Share, AtLeastZero, SmallerOf

-----------------------------------------------------------------------------
(* A receipt earns a natural number of points: no settings make a sale     *)
(* take points away (ComputeEarn).                                         *)
THEOREM EarnIsNat ==
  ASSUME NEW amount \in Int, NEW redeem \in Int, NEW s \in Settings
  PROVE  ComputeEarn(amount, redeem, s) \in Nat
<1>1. Rate(s) \in Nat /\ Percent(s) \in Nat
  BY ClampedSettings
<1>2. redeem * Rate(s) \in Int
  BY <1>1
<1>3. AtLeastZero(amount - redeem * Rate(s)) \in Nat
  BY <1>2 DEF AtLeastZero
<1>4. (AtLeastZero(amount - redeem * Rate(s)) * Percent(s)) \div 100 \in Nat
  BY <1>1, <1>3, ShareIsNat
<1>5. QED
  BY <1>4 DEF ComputeEarn

(* A commit that CheckRedeem lets through pays with points the card has.   *)
THEOREM AllowedIsCovered ==
  ASSUME NEW points \in Int, NEW amount \in Int, NEW requested \in Int,
         NEW s \in Settings,
         CheckRedeem(points, amount, requested, s) = "OK"
  PROVE  requested = 0 \/ (requested > 0 /\ requested <= points)
<1>1. s["redeem_min"] \in Int
  BY ClampedSettings
<1>2. CASE requested < 0
  BY <1>2 DEF CheckRedeem
<1>3. CASE requested > 0 /\ requested > points
  <2>1. CASE requested < s["redeem_min"]
    BY <1>3, <2>1, <1>1 DEF CheckRedeem
  <2>2. CASE requested >= s["redeem_min"]
    BY <1>3, <2>2, <1>1 DEF CheckRedeem
  <2>3. QED
    BY <1>1, <2>1, <2>2
<1>4. QED
  BY <1>2, <1>3

(* The verdict is always one of five codes.                                *)
THEOREM VerdictCodes ==
  ASSUME NEW points \in Int, NEW amount \in Int, NEW requested \in Int,
         NEW s \in Settings
  PROVE  CheckRedeem(points, amount, requested, s) \in
           {"OK", "INVALID_REQUEST", "BELOW_MIN_REDEEM",
            "INSUFFICIENT_POINTS", "EXCEEDS_RECEIPT_SHARE"}
  BY DEF CheckRedeem

-----------------------------------------------------------------------------
(* MaxRedeemable, the figure on the till, is exactly the largest request   *)
(* CheckRedeem accepts: the two are written separately in the code.        *)
THEOREM OfferSharp ==
  ASSUME NEW points \in Int, NEW amount \in Nat, NEW requested \in Int,
         NEW s \in Settings
  PROVE  OfferIsSharp(points, amount, requested, s)
<1> DEFINE R   == Rate(s)
           M   == MaxRub(amount, s)
           min == s["redeem_min"]
<1>1. R \in Nat /\ R > 0 /\ Share(s) \in Nat /\ min \in Int
  BY ClampedSettings
<1>2. M \in Nat
  BY <1>1, ShareIsNat DEF MaxRub
<1>3. M \div R \in Nat
  BY <1>1, <1>2
<1>4. amount = 0 => M = 0
  BY <1>1 DEF MaxRub
<1>5. CASE requested <= 0
  BY <1>5 DEF OfferIsSharp, CheckRedeem
<1>6. CASE requested > 0
  <2>1. (requested <= M \div R) <=> ~(requested * R > M)
    <3>1. (requested <= M \div R) <=> (requested * R <= M)
      BY <1>1, <1>2, <1>6, DivBound
    <3>2. requested * R \in Int
      BY <1>1
    <3>3. QED
      BY <3>1, <3>2, <1>2
  <2>2. (CheckRedeem(points, amount, requested, s) = "OK") <=>
           /\ requested >= min
           /\ requested <= points
           /\ requested <= M \div R
    <3>1. CASE requested < min
      BY <3>1, <1>1, <1>6 DEF CheckRedeem
    <3>2. CASE requested >= min /\ requested > points
      BY <3>2, <1>1, <1>6 DEF CheckRedeem
    <3>3. CASE requested >= min /\ requested <= points /\ requested * R > M
      BY <3>3, <1>1, <1>6, <2>1 DEF CheckRedeem
    <3>4. CASE requested >= min /\ requested <= points /\ ~(requested * R > M)
      BY <3>4, <1>1, <1>6, <2>1 DEF CheckRedeem
    <3>5. QED
      BY <3>1, <3>2, <3>3, <3>4, <1>1
  <2>3. (requested >= min /\ requested <= MaxRedeemable(points, amount, s)) <=>
           /\ requested >= min
           /\ requested <= points
           /\ requested <= M \div R
    <3> HIDE DEF R, M
    <3>1. MaxRedeemable(points, amount, s) =
            IF points <= 0 \/ amount <= 0 \/ SmallerOf(points, M \div R) < min
            THEN 0 ELSE SmallerOf(points, M \div R)
      BY DEF MaxRedeemable, R, M
    <3>2. amount = 0 => M \div R = 0
      BY <1>1, <1>4
    <3>3. QED
      BY <1>1, <1>3, <1>6, <3>1, <3>2 DEF SmallerOf
  <2>4. QED
    BY <1>6, <2>2, <2>3 DEF OfferIsSharp
<1>7. QED
  BY <1>5, <1>6

(* An accepted quote splits the receipt without loss and stays within the  *)
(* programme's share of it.                                                *)
THEOREM QuoteExact ==
  ASSUME NEW points \in Int, NEW amount \in Nat, NEW requested \in Int,
         NEW s \in Settings
  PROVE  QuoteAddsUp(points, amount, requested, s)
<1> DEFINE R == Rate(s)
           S == Share(s)
           V == CheckRedeem(points, amount, requested, s)
<1>1. R \in Nat /\ R > 0 /\ S \in 0 .. 100
  BY ClampedSettings
<1>2. requested * R \in Int /\ amount * S \in Nat
  BY <1>1
<1>3. 100 * ((amount * S) \div 100) <= amount * S
  BY <1>2
<1>4. amount * S <= 100 * amount
  BY <1>1
<1>5. ASSUME V = "OK"
      PROVE  /\ requested * R >= 0
             /\ requested * R <= (amount * S) \div 100
             /\ requested <= AtLeastZero(points)
  <2>1. requested = 0 \/ (requested > 0 /\ requested <= points)
    BY <1>5, AllowedIsCovered
  <2>2. CASE requested = 0
    BY <2>2, <1>1, <1>2 DEF AtLeastZero
  <2>3. CASE requested > 0 /\ requested <= points
    <3>1. s["redeem_min"] \in Int
      BY ClampedSettings
    <3>2. requested >= s["redeem_min"]
      BY <1>5, <2>3, <3>1 DEF CheckRedeem
    <3>3. ~(requested * R > MaxRub(amount, s))
      BY <1>5, <2>3, <3>1, <3>2 DEF CheckRedeem
    <3>4. requested * R >= 0
      BY <1>1, <2>3
    <3>5. MaxRub(amount, s) = (amount * S) \div 100
      BY DEF MaxRub
    <3>6. QED
      BY <1>2, <2>3, <3>3, <3>4, <3>5 DEF AtLeastZero
  <2>4. QED
    BY <2>1, <2>2, <2>3
<1>6. QED
  <2> SUFFICES ASSUME V = "OK"
               PROVE  /\ requested * R + AtLeastZero(amount - requested * R) = amount
                      /\ 100 * (requested * R) <= S * amount
                      /\ requested <= AtLeastZero(points)
    BY DEF QuoteAddsUp, QuoteRedeem
  <2>1. requested * R <= amount
    BY <1>1, <1>2, <1>3, <1>4, <1>5
  <2>2. requested * R + AtLeastZero(amount - requested * R) = amount
    BY <1>2, <2>1 DEF AtLeastZero
  <2>3. S * amount = amount * S
    BY <1>1
  <2>4. QED
    BY <1>2, <1>3, <1>5, <2>2, <2>3

(* No customer gains by having a receipt rung up in two parts.             *)
THEOREM SplitLoses ==
  ASSUME NEW a \in Nat, NEW b \in Nat, NEW s \in Settings
  PROVE  SplittingLoses(a, b, s)
<1> DEFINE P   == Percent(s)
           min == s["earn_min_receipt"]
           E(x) == IF x < min THEN 0 ELSE (x * P) \div 100
<1>1. P \in Nat /\ min \in Int
  BY ClampedSettings
<1>2. ASSUME NEW x \in Nat
      PROVE  ComputeEarn(x, 0, s) = E(x) /\ E(x) \in Nat /\ (x * P) \div 100 \in Nat
  <2>1. 0 * Rate(s) = 0
    BY ClampedSettings
  <2>2. AtLeastZero(x - 0 * Rate(s)) = x
    BY <2>1 DEF AtLeastZero
  <2>3. (x * P) \div 100 \in Nat
    BY <1>1, ShareIsNat
  <2>4. QED
    BY <2>2, <2>3 DEF ComputeEarn
<1>3. (a * P) \div 100 + (b * P) \div 100 <= ((a + b) * P) \div 100
  <2>1. a * P \in Nat /\ b * P \in Nat /\ (a + b) * P = a * P + b * P
    BY <1>1
  <2>2. QED
    BY <2>1, FloorsLose
<1>4. E(a) + E(b) <= E(a + b)
  <2>1. a + b \in Nat
    OBVIOUS
  <2>2. /\ (a * P) \div 100 \in Nat /\ (b * P) \div 100 \in Nat
        /\ ((a + b) * P) \div 100 \in Nat
    BY <1>2, <2>1
  <2>3. CASE a + b < min
    <3>1. E(a) = 0 /\ E(b) = 0 /\ E(a + b) = 0
      BY <2>3, <1>1
    <3>2. QED
      BY <3>1
  <2>4. CASE ~(a + b < min)
    <3>1. E(a + b) = ((a + b) * P) \div 100
      BY <2>4
    <3>2. E(a) \in Nat /\ E(a) <= (a * P) \div 100
      BY <2>2
    <3>3. E(b) \in Nat /\ E(b) <= (b * P) \div 100
      BY <2>2
    <3>4. QED
      BY <1>3, <2>2, <3>1, <3>2, <3>3
  <2>5. QED
    BY <2>3, <2>4
<1>5. QED
  BY <1>2, <1>4 DEF SplittingLoses

(* Points paid with earn nothing on top.                                   *)
THEOREM RedeemEarnsNothing ==
  ASSUME NEW amount \in Nat, NEW redeem \in Nat, NEW s \in Settings
  PROVE  PointsEarnNothing(amount, redeem, s)
<1> DEFINE base(n) == AtLeastZero(amount - n * Rate(s))
<1>1. Rate(s) \in Nat /\ Percent(s) \in Nat /\ s["earn_min_receipt"] \in Int
  BY ClampedSettings
<1>2. redeem * Rate(s) \in Nat /\ 0 * Rate(s) = 0
  BY <1>1
<1>3. base(redeem) \in Nat /\ base(0) \in Nat /\ base(redeem) <= base(0)
  BY <1>2 DEF AtLeastZero
<1> HIDE DEF base
<1>4. base(redeem) * Percent(s) <= base(0) * Percent(s)
  BY <1>1, <1>3, ProductMonotone
<1>5. base(redeem) * Percent(s) \in Nat /\ base(0) * Percent(s) \in Nat
  BY <1>1, <1>3
<1>6. (base(redeem) * Percent(s)) \div 100 <= (base(0) * Percent(s)) \div 100
  BY <1>4, <1>5, DivMonotone
<1>7. QED
  BY <1>6 DEF PointsEarnNothing, ComputeEarn, base
=============================================================================
