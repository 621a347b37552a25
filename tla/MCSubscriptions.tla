--------------------------- MODULE MCSubscriptions ---------------------------
(* Model-checking instances of Subscriptions.                                *)
EXTENDS Subscriptions, TLC

CONSTANTS s1, s2, admin

TwoSubs == {s1, s2}
OneAdmin == {admin}
NoAdmin == {}
SubSymmetry == Permutations(Subs)
=============================================================================
