------------------------------ MODULE MCEnroll ------------------------------
(***************************************************************************)
(* Instances of Enroll for TLC: Ann's browser, where a friend enrols too;  *)
(* the till she stands at, where her number is spelled another way, the    *)
(* friend's is typed as well, and the public form may be open; someone who *)
(* types no number.                                                        *)
(***************************************************************************)
EXTENDS Enroll, TLC

CONSTANTS h1, h2, k1, k2, k3, ann, till, joe, p1, p2

EveryNumber == [plus |-> p1, eight |-> p1, other |-> p2, short |-> NoPhone]

TypedByAll == (ann :> {"plus", "other"}) @@ (till :> {"eight", "other"}) @@ (joe :> {"short"})
TypedByTwo == (ann :> {"plus"}) @@ (till :> {"eight"})
TypedAtTill == till :> {"plus", "other"}

CardSymmetry == Permutations(Cards) \cup Permutations(Handlers)
=============================================================================
