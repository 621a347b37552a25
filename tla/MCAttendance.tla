---------------------------- MODULE MCAttendance ----------------------------
(* Model-checking instance of Attendance.                                    *)
EXTENDS Attendance, TLC

CONSTANTS s1, b1, k1, c1, cron, hr, heartbeat

OneSession == {s1}
OneBreak == {b1}
OneCorrection == {k1}
OneClient == {c1}
OneEvaluator == {cron}
OneReviewer == {hr}
OneSource == {heartbeat}
SomeTimes == {<<None, 2>>, <<1, None>>}
=============================================================================
