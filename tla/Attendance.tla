----------------------------- MODULE Attendance -----------------------------
(***************************************************************************)
(* One employee's attendance.  The employee's requests (punch in, start    *)
(* and end a break, punch out), the evaluation that closes sessions left   *)
(* open, and the review of correction requests all read the Attendance and *)
(* BreakLog rows, decide, and write, with neither a lock nor a transaction *)
(* around the two: each is a step that keeps what it decided and a step    *)
(* that writes it later.  The evaluation's write is guarded by punchOutAt, *)
(* the decision on a correction request by its status; no other is.        *)
(*                                                                         *)
(* Time is counted in whole minutes and the shift starts with the day.     *)
(* What is derived from a row's times when they are written (minutes       *)
(* worked and of breaks, lateness, status) is left out, and so is who may  *)
(* review.  There is one attendance policy, which does not change, with    *)
(* autoCloseEnabled and autoClosePreviousDayOpenSession.                   *)
(***************************************************************************)
EXTENDS Integers, FiniteSetsExt

CONSTANTS
  Sessions,     \* Attendance rows there may ever be
  Breaks,       \* BreakLog rows there may ever be
  Corrections,  \* AttendanceCorrectionRequest rows there may ever be
  Clients,      \* who may have a request of the employee under way
  Evaluators,   \* who may be evaluating: the scheduler, a heartbeat, a summary
  Reviewers,    \* who may be reviewing a correction request
  Sources,      \* kinds of evidence: heartbeats, activity sessions, screenshots
  Requestable,  \* pairs of punch times that a correction may ask for
  DayLength,    \* minutes of a day
  ShiftLength,  \* minutes of a shift
  Grace,        \* disconnectGraceMinutes
  PostShift,    \* postShiftGraceMinutes
  MaxOpen,      \* maximumOpenSessionMinutes
  Fallback,     \* noHeartbeatFallbackMinutes
  Allowed,      \* a break's allowedMinutes, with autoPunchOutOnTimeout
  Several,      \* allowMultiplePunchSessions
  MaxTime,      \* bound: the clock stops here
  None          \* null

Times == 0 .. MaxTime
Moments == Times \cup {None}

ASSUME AttendanceAssumption ==
  /\ MaxTime \in Nat /\ DayLength \in Nat \ {0} /\ ShiftLength \in 0 .. DayLength
  /\ {Grace, PostShift, MaxOpen, Fallback, Allowed} \subseteq Nat \ {0}
  /\ Several \in BOOLEAN
  /\ Requestable \subseteq Moments \X Moments
  /\ None \notin Sessions \cup Breaks \cup Corrections \cup Int

VARIABLES
  now,         \* the clock
  seen,        \* the latest evidence of each source
  row,         \* Attendance
  pause,       \* BreakLog
  request,     \* the employee's requests under way
  pass,        \* evaluations under way: what is decided and not yet written
  correction,  \* AttendanceCorrectionRequest
  review,      \* approvals under way, with the times they are to write
  applied      \* how often each correction request was applied to its row

vars == <<now, seen, row, pause, request, pass, correction, review, applied>>

StaleReasons == {"MAX_SESSION_EXCEEDED", "SYSTEM_SHUTDOWN_UNCONFIRMED", "MISSED_PUNCH_OUT"}
Reasons == StaleReasons \cup
           {"NONE", "NORMAL_PUNCH_OUT", "BREAK_DURATION_EXCEEDED", "PREVIOUS_DAY_AUTO_CLOSE"}

\* What somebody has decided: to end some breaks of session s and, unless the
\* reason is NONE, to close it.
Decision == [s : Sessions, at : Times, reason : Reasons, breaks : SUBSET Breaks]
Close(s, at, reason, breaks) == [s |-> s, at |-> at, reason |-> reason, breaks |-> breaks]

Row == [day : Times, in : Moments, out : Moments, reason : Reasons, corrected : BOOLEAN]
Pause == [of : Sessions \cup {None}, from : Moments, to : Moments]
Request == [op : {"idle", "closing", "create", "pause", "write"}, at : Times, todo : SUBSET Decision]
Correction == [status : {"none", "PENDING", "APPROVED", "REJECTED", "CANCELLED"},
               of : Sessions \cup {None}, in : Moments, out : Moments]
Review == [of : Corrections \cup {None}, in : Moments, out : Moments]

NoRow == [day |-> 0, in |-> None, out |-> None, reason |-> "NONE", corrected |-> FALSE]
NoPause == [of |-> None, from |-> None, to |-> None]
Idle == [op |-> "idle", at |-> 0, todo |-> {}]
NoCorrection == [status |-> "none", of |-> None, in |-> None, out |-> None]
NoReview == [of |-> None, in |-> None, out |-> None]

TypeOK ==
  /\ now \in Times
  /\ seen \in [Sources -> Moments]
  /\ row \in [Sessions -> Row]
  /\ pause \in [Breaks -> Pause]
  /\ request \in [Clients -> Request]
  /\ pass \in [Evaluators -> SUBSET Decision]
  /\ correction \in [Corrections -> Correction]
  /\ review \in [Reviewers -> Review]
  /\ applied \in [Corrections -> Nat]

Init ==
  /\ now = 0
  /\ seen = [x \in Sources |-> None]
  /\ row = [s \in Sessions |-> NoRow]
  /\ pause = [b \in Breaks |-> NoPause]
  /\ request = [c \in Clients |-> Idle]
  /\ pass = [e \in Evaluators |-> {}]
  /\ correction = [k \in Corrections |-> NoCorrection]
  /\ review = [v \in Reviewers |-> NoReview]
  /\ applied = [k \in Corrections |-> 0]

-----------------------------------------------------------------------------
(* What everybody reads and writes.                                        *)

DayOf(t) == t \div DayLength
Open(s) == row[s].in # None /\ row[s].out = None
Active(s) == {b \in Breaks : pause[b].of = s /\ pause[b].to = None}

\* openAttendance(): the open session that was punched in last
Latest(s) == Open(s) /\ \A t \in Sessions : Open(t) => row[t].in <= row[s].in

\* The breaks that a decision ends, as it decided: the evaluation ends none
\* before it began.
Ended(d) ==
  [b \in Breaks |->
     IF b \notin d.breaks THEN pause[b]
     ELSE [pause[b] EXCEPT !.to = IF d.reason \in StaleReasons /\ pause[b].from > d.at
                                  THEN pause[b].from ELSE d.at]]

Closed(d) ==
  IF d.reason = "NONE" THEN row
  ELSE [row EXCEPT ![d.s].out = d.at, ![d.s].reason = d.reason]

-----------------------------------------------------------------------------
(* The employee's requests.                                                *)

Decides(c, op, decisions) ==
  /\ request[c].op = "idle"
  /\ request' = [request EXCEPT ![c] = [op |-> op, at |-> now, todo |-> decisions]]
  /\ UNCHANGED <<now, seen, row, pause, pass, correction, review, applied>>

\* autoPunchOutIfBreakExpired(): a break of session s has lasted too long.
Expired(b) == now > pause[b].from + Allowed
Timeout(c, s) ==
  \E b \in Active(s) :
    /\ Expired(b)
    /\ Decides(c, "write",
         {Close(s, pause[b].from + Allowed, "BREAK_DURATION_EXCEEDED", {b})})

BeginPunchOut(c) ==
  \E s \in Sessions :
    /\ Latest(s)
    /\ \/ Active(s) = {} /\ Decides(c, "write", {Close(s, now, "NORMAL_PUNCH_OUT", {})})
       \/ Timeout(c, s)

BeginBreakStart(c) ==
  \E s \in Sessions :
    /\ Latest(s)
    /\ \/ Active(s) = {} /\ Decides(c, "pause", {Close(s, now, "NONE", {})})
       \/ Timeout(c, s)

BeginBreakEnd(c) ==
  \E s \in Sessions :
    /\ Latest(s)
    /\ \/ \E b \in Active(s) : ~ Expired(b) /\ Decides(c, "write", {Close(s, now, "NONE", {b})})
       \/ Timeout(c, s)

\* The row is updated by its id, whatever has become of it.
Write(c) ==
  /\ request[c].op = "write"
  /\ \E d \in request[c].todo :
       /\ pause' = Ended(d)
       /\ row' = Closed(d)
  /\ request' = [request EXCEPT ![c] = Idle]
  /\ UNCHANGED <<now, seen, pass, correction, review, applied>>

BreakStart(c) ==
  /\ request[c].op = "pause"
  /\ \E b \in Breaks, d \in request[c].todo :
       /\ pause[b] = NoPause
       /\ pause' = [pause EXCEPT ![b] = [of |-> d.s, from |-> now, to |-> None]]
  /\ request' = [request EXCEPT ![c] = Idle]
  /\ UNCHANGED <<now, seen, row, pass, correction, review, applied>>

\* punchIn() first closes what is open from an earlier day, at that day's end or
\* when it was punched in, which a correction may have moved past it.
DayEnd(s) == Max({(row[s].day + 1) * DayLength, row[s].in})

BeginPunchIn(c) ==
  Decides(c, "closing",
    {Close(s, DayEnd(s), "PREVIOUS_DAY_AUTO_CLOSE", Active(s)) :
       s \in {t \in Sessions : Open(t) /\ row[t].day < DayOf(now)}})

ClosePrevious(c) ==
  /\ request[c].op = "closing"
  /\ \E d \in request[c].todo :
       /\ pause' = Ended(d)
       /\ row' = Closed(d)
       /\ request' = [request EXCEPT ![c].todo = @ \ {d}]
  /\ UNCHANGED <<now, seen, pass, correction, review, applied>>

\* It refuses a second open session, and a second one of the day unless there
\* may be several.
MayPunchIn(day) ==
  \A s \in Sessions : /\ ~ Open(s)
                      /\ row[s].in # None /\ row[s].day = day => Several

CheckPunchIn(c) ==
  /\ request[c].op = "closing" /\ request[c].todo = {}
  /\ request' = [request EXCEPT ![c] =
       IF MayPunchIn(DayOf(@.at)) THEN [@ EXCEPT !.op = "create"] ELSE Idle]
  /\ UNCHANGED <<now, seen, row, pause, pass, correction, review, applied>>

PunchIn(c) ==
  /\ request[c].op = "create"
  /\ \E s \in Sessions :
       /\ row[s] = NoRow
       /\ row' = [row EXCEPT ![s] = [NoRow EXCEPT !.day = DayOf(request[c].at), !.in = request[c].at]]
  /\ request' = [request EXCEPT ![c] = Idle]
  /\ UNCHANGED <<now, seen, pause, pass, correction, review, applied>>

\* The process that serves the request dies.
RequestDies(c) ==
  /\ request[c].op # "idle"
  /\ request' = [request EXCEPT ![c] = Idle]
  /\ UNCHANGED <<now, seen, row, pause, pass, correction, review, applied>>

-----------------------------------------------------------------------------
(* Evidence of work, and the evaluation of sessions left open.             *)

\* A heartbeat, or an activity session or screenshot, which may be late
Evidence(x) ==
  /\ \E t \in {u \in 0 .. now : seen[x] = None \/ u > seen[x]} : seen' = [seen EXCEPT ![x] = t]
  /\ UNCHANGED <<now, row, pause, request, pass, correction, review, applied>>

\* Mutant of Reliable: the maximum does not bound what is taken for reliable.
ReliableUnbounded(s) ==
  {t \in 0 .. now : t >= row[s].in /\ \E x \in Sources : seen[x] = t}

\* latestReliableTimestamp() chooses the latest of these.
Reliable(s) ==
  {t \in 0 .. now : /\ t >= row[s].in /\ t <= row[s].in + MaxOpen
                    /\ \E x \in Sources : seen[x] = t}

ExceedsMaximum(s) == now >= row[s].in + MaxOpen
Unconfirmed(s) == Reliable(s) = {} /\ now >= row[s].in + Fallback
Disconnected(s) == Reliable(s) # {} /\ now >= Max(Reliable(s)) + Grace
Missed(s) == Disconnected(s) /\ now >= row[s].day * DayLength + ShiftLength + PostShift

\* Mutant of Stale: a session may stay open while there is evidence of work.
StaleWhenSilent(s) == Unconfirmed(s) \/ Missed(s)

\* evaluateStaleAttendance() finds a reason to close the session.
Stale(s) == ExceedsMaximum(s) \/ Unconfirmed(s) \/ Missed(s)

StaleReason(s) ==
  IF ExceedsMaximum(s) THEN "MAX_SESSION_EXCEEDED"
  ELSE IF Unconfirmed(s) THEN "SYSTEM_SHUTDOWN_UNCONFIRMED" ELSE "MISSED_PUNCH_OUT"

StaleEnd(s) ==
  IF Reliable(s) # {} THEN Max(Reliable(s))
  ELSE IF ExceedsMaximum(s) THEN row[s].in + MaxOpen ELSE row[s].in

\* enforceStaleAttendanceSessions() decides on every open session,
Evaluate(e) ==
  /\ pass[e] = {}
  /\ pass' = [pass EXCEPT ![e] =
       {Close(s, StaleEnd(s), StaleReason(s), Active(s)) : s \in {t \in Sessions : Open(t) /\ Stale(t)}}]
  /\ pass' # pass
  /\ UNCHANGED <<now, seen, row, pause, request, correction, review, applied>>

\* Mutant of SystemClosed: the row is updated by its id alone.
SystemClosedAnyway(d) == Closed(d)

\* and writes what it decided to the sessions that are still open.
SystemClosed(d) == IF row[d.s].out = None THEN Closed(d) ELSE row

SystemAutoClose(e) ==
  \E d \in pass[e] :
    /\ pause' = Ended(d)
    /\ row' = SystemClosed(d)
    /\ pass' = [pass EXCEPT ![e] = @ \ {d}]
    /\ UNCHANGED <<now, seen, request, correction, review, applied>>

\* The process dies or a statement fails, before or after the breaks are ended.
EvaluationDies(e) ==
  /\ \E d \in pass[e] : pause' = pause \/ pause' = Ended(d)
  /\ pass' = [pass EXCEPT ![e] = {}]
  /\ UNCHANGED <<now, seen, row, request, correction, review, applied>>

Tick ==
  /\ now < MaxTime
  /\ now' = now + 1
  /\ UNCHANGED <<seen, row, pause, request, pass, correction, review, applied>>

-----------------------------------------------------------------------------
(* Correction requests.                                                    *)

\* validateChronology()
Chronological(in, out) == in # None /\ out # None => in < out
Asked(asked, is) == IF asked = None THEN is ELSE asked

\* create(): one pending request for a session
RequestCorrection(k) ==
  /\ correction[k] = NoCorrection
  /\ \E s \in Sessions, times \in Requestable :
       /\ row[s].in # None
       /\ Chronological(Asked(times[1], row[s].in), Asked(times[2], row[s].out))
       /\ \A j \in Corrections : correction[j].of = s => correction[j].status # "PENDING"
       /\ correction' = [correction EXCEPT ![k] =
            [status |-> "PENDING", of |-> s, in |-> times[1], out |-> times[2]]]
  /\ UNCHANGED <<now, seen, row, pause, request, pass, review, applied>>

\* Mutant of Undecided: the status is read without a lock on the request.
UndecidedUnlocked(k) == correction[k].status = "PENDING"

\* The updateMany() of a decision finds the request pending, once whoever has
\* updated it has committed.
Undecided(k) ==
  /\ correction[k].status = "PENDING"
  /\ \A v \in Reviewers : review[v].of # k

Decide(k, status) ==
  /\ Undecided(k)
  /\ correction' = [correction EXCEPT ![k].status = status]
  /\ UNCHANGED <<now, seen, row, pause, request, pass, review, applied>>

Reject(k) == Decide(k, "REJECTED")
Cancel(k) == Decide(k, "CANCELLED")

\* review(): the approval claims the request and reads the row it is about,
BeginApproval(v, k) ==
  LET s == correction[k].of
      in == Asked(correction[k].in, row[s].in)
      out == Asked(correction[k].out, row[s].out)
  IN  /\ review[v] = NoReview
      /\ Undecided(k)
      /\ Chronological(in, out)
      /\ review' = [review EXCEPT ![v] = [of |-> k, in |-> in, out |-> out]]
      /\ UNCHANGED <<now, seen, row, pause, request, pass, correction, applied>>

\* applyApprovedCorrection(): and writes both punch times, also one that nobody
\* asked to change, as it was read.
ApplyCorrection(v) ==
  LET k == review[v].of
  IN  /\ k # None
      /\ correction' = [correction EXCEPT ![k].status = "APPROVED"]
      /\ row' = [row EXCEPT ![correction[k].of].in = review[v].in,
                            ![correction[k].of].out = review[v].out,
                            ![correction[k].of].corrected = TRUE]
      /\ applied' = [applied EXCEPT ![k] = @ + 1]
      /\ review' = [review EXCEPT ![v] = NoReview]
      /\ UNCHANGED <<now, seen, pause, request, pass>>

\* The transaction is rolled back.
ApprovalFails(v) ==
  /\ review[v].of # None
  /\ review' = [review EXCEPT ![v] = NoReview]
  /\ UNCHANGED <<now, seen, row, pause, request, pass, correction, applied>>

-----------------------------------------------------------------------------
Next ==
  \/ \E c \in Clients :
       \/ BeginPunchIn(c) \/ ClosePrevious(c) \/ CheckPunchIn(c) \/ PunchIn(c)
       \/ BeginPunchOut(c) \/ BeginBreakStart(c) \/ BeginBreakEnd(c)
       \/ Write(c) \/ BreakStart(c) \/ RequestDies(c)
  \/ \E x \in Sources : Evidence(x)
  \/ \E e \in Evaluators : Evaluate(e) \/ SystemAutoClose(e) \/ EvaluationDies(e)
  \/ \E k \in Corrections : RequestCorrection(k) \/ Reject(k) \/ Cancel(k)
  \/ \E v \in Reviewers :
       ApplyCorrection(v) \/ ApprovalFails(v) \/ \E k \in Corrections : BeginApproval(v, k)
  \/ Tick

Spec == Init /\ [][Next]_vars

\* The clock goes on, the scheduler evaluates again and again, and its passes do
\* not die for ever.
Fairness ==
  /\ WF_vars(Tick)
  /\ \A e \in Evaluators : WF_vars(Evaluate(e)) /\ SF_vars(SystemAutoClose(e))

FairSpec == Spec /\ Fairness

-----------------------------------------------------------------------------
\* However late an evaluation writes, it never turns a session that was closed
\* meanwhile into one that the system closed.
StaleOnlyClosesOpen ==
  [][\A s \in Sessions :
       row'[s].out # row[s].out /\ row'[s].reason \in StaleReasons /\ applied' = applied =>
         row[s].out = None]_vars

\* A session that the evaluation closed credits no time past the maximum, nor
\* past the last evidence of work, and none at all when there was no evidence.
CreditsEvidence ==
  \A s \in Sessions : row[s].reason \in StaleReasons /\ ~ row[s].corrected =>
    /\ row[s].in <= row[s].out /\ row[s].out <= row[s].in + MaxOpen
    /\ row[s].reason = "MISSED_PUNCH_OUT" => \E x \in Sources : seen[x] # None /\ row[s].out <= seen[x]
    /\ row[s].reason = "SYSTEM_SHUTDOWN_UNCONFIRMED" => row[s].out = row[s].in

\* A correction request is decided once, by one of those who race to review or
\* cancel it, and changes the session once if and only if it was approved.
DecidedOnce ==
  [][\A k \in Corrections :
       /\ applied'[k] # applied[k] => correction[k].status = "PENDING"
       /\ correction[k].status \notin {"none", "PENDING"} => correction'[k] = correction[k]
       /\ correction'[k].status = "APPROVED" <=> applied'[k] = 1]_vars

\* A session is closed in the end, even if the employee never punches out and
\* the agent goes on to report work.
AbandonedIsClosed ==
  \A s \in Sessions : Open(s) /\ row[s].in + MaxOpen <= MaxTime ~> ~ Open(s)
=============================================================================
