--------------------------- MODULE MCAuthSessions ---------------------------
(* Model-checking instance of AuthSessions: a desktop agent, and a browser   *)
(* with one tab, each with tokens of its own.                               *)
EXTENDS AuthSessions, TLC

CONSTANTS k1, k2, k3, desktop, tab, disk, browser

SomeTokens == {k1, k2, k3}
OldTokens == {k1}
OneDesktop == {desktop}
OneTab == {tab}
TwoStores == {disk, browser}
OwnStores == desktop :> disk @@ tab :> browser
TokenSymmetry == Permutations(Tokens \ Legacy)
=============================================================================
