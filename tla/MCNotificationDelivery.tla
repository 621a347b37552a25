------------------------ MODULE MCNotificationDelivery ------------------------
(* Model-checking instances of NotificationDelivery.                         *)
EXTENDS NotificationDelivery, TLC

CONSTANTS d1, w1, w2, b1

OneDelivery == {d1}
TwoWorkers == {w1, w2}
OneBootstrap == {b1}
=============================================================================
