-------------------------- MODULE MCSettingsWrite ---------------------------
(***************************************************************************)
(* Instances of SettingsWrite for TLC: two administrators save while the   *)
(* table starts from many maps, some with values nobody should store.      *)
(***************************************************************************)
EXTENDS SettingsWrite, TLC

CONSTANTS h1, h2

Num(n) == [parses |-> TRUE, num |-> n]
Text   == [parses |-> FALSE, num |-> 0]

Values(k) == CASE k = "earn_percent"     -> {Text, Num(0 - 5), Num(50), Num(150)}
               [] k = "earn_min_receipt" -> {Text, Num(3)}
               [] k = "redeem_rate"      -> {Num(0), Num(2), Num(3)}
               [] k = "redeem_min"       -> {Num(0), Num(2)}
               [] k = "redeem_max_share" -> {Text, Num(0 - 1), Num(70), Num(120)}

StartMaps ==
  {m \in [SettingKeys -> UNION {Values(k) : k \in SettingKeys}] :
     \A k \in SettingKeys : m[k] \in Values(k)}

\* Two saves that differ in the two keys they share, and one that meets each
\* of them in one key and unsets the share.
Body(percent, rate, share) ==
  [k \in SettingKeys |-> CASE k = "earn_percent"     -> percent
                           [] k = "redeem_rate"      -> rate
                           [] k = "redeem_max_share" -> share
                           [] OTHER                  -> Num(0)]

ThreeSaves ==
  {[sent |-> {"earn_percent", "redeem_rate"}, kv |-> Body(Text, Num(3), Text)],
   [sent |-> {"earn_percent", "redeem_rate"}, kv |-> Body(Num(50), Num(2), Text)],
   [sent |-> {"redeem_rate", "redeem_max_share"}, kv |-> Body(Text, Num(0), Text)]}

SomeAmounts  == {0, 2, 3, 5, 7}
SomeBalances == {0, 2, 5}
SomeAsked    == (0 - 1) .. 5
=============================================================================
