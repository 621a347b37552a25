------------------------------- MODULE MCLeave ------------------------------
(* Model-checking instance of Leave.                                         *)
EXTENDS Leave, TLC

CONSTANTS ann, bob, annual, r1, r2, c1, c2

\* Ann reports to Bob, who manages her; Bob reports to nobody and may come to
\* stand in as HR.
Two == {ann, bob}
AnnAndBob ==
  ann :> [active |-> TRUE, roles |-> {}, manager |-> bob, employment |-> "ACTIVE"] @@
  bob :> [active |-> TRUE, roles |-> {"MANAGER", "HR"}, manager |-> None, employment |-> "ACTIVE"]
OneType == {annual}
TwoRequests == {r1, r2}
OneLegacy == {r1}
TwoCalls == {c1, c2}
TurnOfYear == 1 .. 2
CalendarYear == <<2025, 2026>>
CallSymmetry == Permutations(Calls)
=============================================================================
