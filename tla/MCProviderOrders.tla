-------------------------- MODULE MCProviderOrders --------------------------
(* Model-checking instance of ProviderOrders: overlapping runs of prepare().  *)
EXTENDS ProviderOrders, TLC

CONSTANTS pay1, pay2, r1, r2, r3

TwoPayments == {pay1, pay2}
OneRenewal == {pay2}
ThreeRequests == {r1, r2, r3}
RequestSymmetry == Permutations(Requests)
=============================================================================
