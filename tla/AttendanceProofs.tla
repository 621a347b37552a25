-------------------------- MODULE AttendanceProofs --------------------------
(***************************************************************************)
(* Proofs about Attendance, for any sessions, breaks and corrections, any  *)
(* number of requests, evaluations and reviews at once, and any policy.    *)
(*                                                                         *)
(* What is decided is written later, so the invariant speaks of decisions  *)
(* that wait: those of the employee's requests never carry a reason of the *)
(* evaluation's (RequestsMild), and those of the evaluation are such as    *)
(* CreditsEvidence allows, whatever the row has become, unless a           *)
(* correction has changed its punch in (PassesCredit).  A correction       *)
(* under review is pending and is reviewed by one alone (ReviewsCoherent). *)
(***************************************************************************)
EXTENDS Attendance, WellFoundedInduction, TLAPS

\* A break has a beginning.
BreaksCoherent ==
  \A b \in Breaks : pause[b].of # None => pause[b].from # None

\* What the evaluation closed has an end.
RowsCoherent ==
  \A s \in Sessions : row[s].reason \in StaleReasons /\ ~ row[s].corrected => row[s].out # None

RequestsMild ==
  \A c \in Clients : \A d \in request[c].todo : d.reason \notin StaleReasons

\* What the evaluation may write of session s.
Credits(s, at, reason) ==
  /\ row[s].in <= at /\ at <= row[s].in + MaxOpen
  /\ reason = "MISSED_PUNCH_OUT" => \E x \in Sources : seen[x] # None /\ at <= seen[x]
  /\ reason = "SYSTEM_SHUTDOWN_UNCONFIRMED" => at = row[s].in

PassesCredit ==
  \A e \in Evaluators : \A d \in pass[e] :
    /\ d.reason \in StaleReasons /\ row[d.s] # NoRow
    /\ ~ row[d.s].corrected => Credits(d.s, d.at, d.reason)

CorrectionsCoherent ==
  \A k \in Corrections :
    /\ correction[k].status # "none" => correction[k].of \in Sessions
    /\ applied[k] = IF correction[k].status = "APPROVED" THEN 1 ELSE 0

ReviewsCoherent ==
  \A v \in Reviewers : review[v].of # None =>
    /\ correction[review[v].of].status = "PENDING"
    /\ \A w \in Reviewers : review[w].of = review[v].of => w = v

IInv == /\ TypeOK /\ BreaksCoherent /\ RowsCoherent /\ RequestsMild /\ PassesCredit
        /\ CorrectionsCoherent /\ ReviewsCoherent /\ CreditsEvidence

-----------------------------------------------------------------------------
(* Facts about the data                                                     *)

LEMMA LessWellFounded ==
  \E R : IsWellFoundedOn(R, Nat) /\ \A x, y \in Nat : <<y, x>> \in R <=> y < x
<1>1. \A x, y \in Nat : <<y, x>> \in OpToRel(<, Nat) <=> y < x
  BY DEF OpToRel
<1>. QED BY <1>1, NatLessThanWellFounded

LEMMA LeastOf ==
  ASSUME NEW T \in SUBSET Nat, T # {}
  PROVE  \E m \in T : \A n \in T : m <= n
<1>1. PICK R : IsWellFoundedOn(R, Nat) /\ \A x, y \in Nat : <<y, x>> \in R <=> y < x
  BY LessWellFounded
<1>2. PICK m \in T : \A n \in T : ~ (<<n, m>> \in R)
  BY <1>1, WFMin
<1>3. ASSUME NEW n \in T
      PROVE  m <= n
  <2>1. m \in Nat /\ n \in Nat
    OBVIOUS
  <2>2. <<n, m>> \in R <=> n < m
    BY <1>1, <2>1, Zenon
  <2>3. ~ (n < m)
    BY <1>2, <2>2, Zenon
  <2>. QED BY <2>1, <2>3
<1>. QED BY <1>3

\* The least upper bound of some naturals is one of them.
LEMMA MaxOf ==
  ASSUME NEW n \in Nat, NEW S \in SUBSET (0 .. n), S # {}
  PROVE  Max(S) \in S /\ \A t \in S : t <= Max(S)
<1>. DEFINE T == {m \in Nat : \A t \in S : t <= m}
<1>1. n \in T
  OBVIOUS
<1>2. PICK m \in T : \A k \in T : m <= k
  BY <1>1, LeastOf
<1>3. m \in S
  <2>. SUFFICES ASSUME m \notin S
                PROVE  FALSE
    OBVIOUS
  <2>1. m \in Nat /\ \A t \in S : t \in Nat /\ t <= m /\ t # m
    OBVIOUS
  <2>2. PICK t \in S : t <= m /\ t # m /\ t \in Nat
    BY <2>1
  <2>3. m - 1 \in Nat
    BY <2>1, <2>2
  <2>4. \A u \in S : u <= m - 1
    BY <2>1
  <2>5. m - 1 \in T
    BY <2>3, <2>4
  <2>. QED BY <1>2, <2>1, <2>5
<1>4. \A t \in S : m >= t
  OBVIOUS
<1>5. \A x \in S : x \in Nat
  OBVIOUS
<1>. HIDE DEF T
<1>6. Max(S) \in S /\ \A t \in S : Max(S) >= t
  BY <1>3, <1>4 DEF Max
<1>. QED BY <1>5, <1>6

LEMMA MaxOfTwo ==
  ASSUME NEW a \in Int, NEW b \in Int
  PROVE  Max({a, b}) \in {a, b} /\ a <= Max({a, b}) /\ b <= Max({a, b})
<1>1. \E x \in {a, b} : \A y \in {a, b} : x >= y
  <2>1. CASE a >= b
    BY <2>1
  <2>2. CASE b >= a
    BY <2>2
  <2>. QED BY <2>1, <2>2
<1>. QED BY <1>1 DEF Max

LEMMA ClosedRow ==
  ASSUME TypeOK, NEW d \in Decision
  PROVE  /\ Closed(d) \in [Sessions -> Row]
         /\ \A s \in Sessions : s # d.s \/ d.reason = "NONE" => Closed(d)[s] = row[s]
         /\ d.reason # "NONE" =>
              /\ Closed(d)[d.s].out = d.at /\ Closed(d)[d.s].reason = d.reason
              /\ Closed(d)[d.s].in = row[d.s].in /\ Closed(d)[d.s].day = row[d.s].day
              /\ Closed(d)[d.s].corrected = row[d.s].corrected
<1>1. d.s \in Sessions /\ d.at \in Times /\ d.reason \in Reasons
  BY DEF Decision
<1>2. CASE d.reason = "NONE"
  BY <1>2 DEF Closed, TypeOK
<1>3. CASE d.reason # "NONE"
  <2>1. row[d.s] \in Row
    BY <1>1 DEF TypeOK
  <2>2. PICK new \in Row :
          /\ Closed(d) = [row EXCEPT ![d.s] = new]
          /\ new.out = d.at /\ new.reason = d.reason /\ new.in = row[d.s].in
          /\ new.day = row[d.s].day /\ new.corrected = row[d.s].corrected
    <3>. DEFINE new == [row[d.s] EXCEPT !.out = d.at, !.reason = d.reason]
    <3>1. new \in Row /\ new.out = d.at /\ new.reason = d.reason /\ new.in = row[d.s].in
          /\ new.day = row[d.s].day /\ new.corrected = row[d.s].corrected
      BY <1>1, <2>1 DEF Row, Moments
    <3>2. Closed(d) = [row EXCEPT ![d.s] = new]
      BY <1>1, <1>3 DEF Closed, TypeOK
    <3>. HIDE DEF new
    <3>. QED BY <3>1, <3>2
  <2>. QED BY <1>1, <1>3, <2>2 DEF TypeOK
<1>. QED BY <1>2, <1>3

LEMMA EndedPauses ==
  ASSUME TypeOK, NEW d \in Decision
  PROVE  /\ Ended(d) \in [Breaks -> Pause]
         /\ \A b \in Breaks : Ended(d)[b].of = pause[b].of /\ Ended(d)[b].from = pause[b].from
<1>1. d.at \in Times
  BY DEF Decision
<1>2. ASSUME NEW b \in Breaks
      PROVE  /\ Ended(d)[b] \in Pause
             /\ Ended(d)[b].of = pause[b].of /\ Ended(d)[b].from = pause[b].from
  <2>1. pause[b] \in Pause
    BY DEF TypeOK
  <2>2. Ended(d)[b] = pause[b] \/ \E t \in Moments : Ended(d)[b] = [pause[b] EXCEPT !.to = t]
    BY <1>1, <2>1 DEF Ended, Pause, Moments
  <2>3. ASSUME NEW t \in Moments
        PROVE  /\ [pause[b] EXCEPT !.to = t] \in Pause
               /\ [pause[b] EXCEPT !.to = t].of = pause[b].of
               /\ [pause[b] EXCEPT !.to = t].from = pause[b].from
    BY <2>1 DEF Pause
  <2>. QED BY <2>1, <2>2, <2>3
<1>. QED BY <1>2 DEF Ended

LEMMA DayIsOver ==
  ASSUME NEW t \in Nat, NEW d \in Nat, d < DayOf(t)
  PROVE  (d + 1) * DayLength <= t
<1>. DEFINE L == DayLength
<1>0. L \in Nat \ {0}
  BY AttendanceAssumption
<1>. HIDE DEF L
<1>1. t \div L \in Nat /\ (t \div L) * L <= t
  BY <1>0
<1>2. d < t \div L => (d + 1) * L <= (t \div L) * L
  BY <1>0, <1>1
<1>3. d < t \div L
  BY DEF DayOf, L
<1>4. (d + 1) * L <= t
  BY <1>0, <1>1, <1>2, <1>3
<1>. QED BY <1>4 DEF L

LEMMA DayWithin ==
  ASSUME NEW t \in Times
  PROVE  DayOf(t) \in Times
<1>. DEFINE L == DayLength
<1>0. L \in Nat \ {0} /\ t \in Nat /\ t <= MaxTime /\ MaxTime \in Nat
  BY AttendanceAssumption DEF Times
<1>. HIDE DEF L
<1>1. t \div L \in Nat /\ t \div L <= t
  BY <1>0
<1>. QED BY <1>0, <1>1 DEF DayOf, L, Times

-----------------------------------------------------------------------------
(* Types                                                                    *)

LEMMA OpenSince ==
  ASSUME TypeOK, NEW s \in Sessions, Open(s)
  PROVE  row[s].in \in Times /\ row[s].day \in Times
BY DEF Open, TypeOK, Row, Moments

LEMMA DecidesTyped ==
  ASSUME TypeOK, NEW c \in Clients, NEW op \in {"closing", "create", "pause", "write"},
         NEW decisions \in SUBSET Decision, Decides(c, op, decisions)
  PROVE  TypeOK'
<1>1. [op |-> op, at |-> now, todo |-> decisions] \in Request
  BY DEF TypeOK, Request
<1>. QED BY <1>1 DEF TypeOK, Decides

LEMMA CloseTyped ==
  ASSUME NEW s \in Sessions, NEW at \in Times, NEW reason \in Reasons, NEW bs \in SUBSET Breaks
  PROVE  /\ Close(s, at, reason, bs) \in Decision
         /\ Close(s, at, reason, bs).s = s /\ Close(s, at, reason, bs).at = at
         /\ Close(s, at, reason, bs).reason = reason
BY DEF Close, Decision

\* The requests that decide on one write: what they decide is well formed and
\* carries no reason of the evaluation's.
LEMMA SingleDecision ==
  ASSUME TypeOK, BreaksCoherent, NEW c \in Clients,
         BeginPunchOut(c) \/ BeginBreakStart(c) \/ BeginBreakEnd(c)
  PROVE  \E d \in Decision, op \in {"pause", "write"} :
           d.reason \notin StaleReasons /\ Decides(c, op, {d})
<1>. PICK s \in Sessions :
       \/ Decides(c, "write", {Close(s, now, "NORMAL_PUNCH_OUT", {})})
       \/ Decides(c, "pause", {Close(s, now, "NONE", {})})
       \/ \E b \in Active(s) : Decides(c, "write", {Close(s, now, "NONE", {b})})
       \/ Timeout(c, s)
  BY DEF BeginPunchOut, BeginBreakStart, BeginBreakEnd
<1>1. /\ now \in Times
      /\ {"NORMAL_PUNCH_OUT", "NONE", "BREAK_DURATION_EXCEEDED"} \subseteq Reasons \ StaleReasons
  BY DEF TypeOK, Reasons, StaleReasons
<1>2. CASE Decides(c, "write", {Close(s, now, "NORMAL_PUNCH_OUT", {})})
  <2>. DEFINE d == Close(s, now, "NORMAL_PUNCH_OUT", {})
  <2>1. d \in Decision /\ d.reason = "NORMAL_PUNCH_OUT"
    BY <1>1, CloseTyped
  <2>2. Decides(c, "write", {d})
    BY <1>2
  <2>. HIDE DEF d
  <2>. QED BY <1>1, <2>1, <2>2
<1>3. CASE Decides(c, "pause", {Close(s, now, "NONE", {})})
  <2>. DEFINE d == Close(s, now, "NONE", {})
  <2>1. d \in Decision /\ d.reason = "NONE"
    BY <1>1, CloseTyped
  <2>2. Decides(c, "pause", {d})
    BY <1>3
  <2>. HIDE DEF d
  <2>. QED BY <1>1, <2>1, <2>2
<1>4. ASSUME NEW b \in Active(s), Decides(c, "write", {Close(s, now, "NONE", {b})})
      PROVE  \E d \in Decision, op \in {"pause", "write"} :
               d.reason \notin StaleReasons /\ Decides(c, op, {d})
  <2>. DEFINE d == Close(s, now, "NONE", {b})
  <2>1. {b} \in SUBSET Breaks
    BY DEF Active
  <2>2. d \in Decision /\ d.reason = "NONE"
    BY <1>1, <2>1, CloseTyped
  <2>3. Decides(c, "write", {d})
    BY <1>4
  <2>. HIDE DEF d
  <2>. QED BY <1>1, <2>2, <2>3
<1>5. CASE Timeout(c, s)
  <2>1. PICK b \in Active(s) :
          /\ Expired(b)
          /\ Decides(c, "write", {Close(s, pause[b].from + Allowed, "BREAK_DURATION_EXCEEDED", {b})})
    BY <1>5 DEF Timeout
  <2>2. b \in Breaks /\ pause[b].of # None
    BY AttendanceAssumption DEF Active
  <2>3. pause[b].from \in Times
    BY <2>2 DEF TypeOK, BreaksCoherent, Pause, Moments
  <2>4. pause[b].from + Allowed \in Times
    BY <2>1, <2>3, AttendanceAssumption DEF Expired, Times, TypeOK
  <2>. DEFINE at == pause[b].from + Allowed
  <2>5. at \in Times /\ {b} \in SUBSET Breaks
    BY <2>2, <2>4
  <2>6. Decides(c, "write", {Close(s, at, "BREAK_DURATION_EXCEEDED", {b})})
    BY <2>1
  <2>. HIDE DEF at
  <2>. DEFINE d == Close(s, at, "BREAK_DURATION_EXCEEDED", {b})
  <2>7. d \in Decision /\ d.reason = "BREAK_DURATION_EXCEEDED"
    BY <1>1, <2>5, CloseTyped
  <2>8. Decides(c, "write", {d})
    BY <2>6
  <2>. HIDE DEF d
  <2>. QED BY <1>1, <2>7, <2>8
<1>. QED BY <1>2, <1>3, <1>4, <1>5

LEMMA PreviousTyped ==
  ASSUME TypeOK, NEW c \in Clients, BeginPunchIn(c)
  PROVE  \E ds \in SUBSET Decision :
           /\ \A d \in ds : d.reason \notin StaleReasons
           /\ Decides(c, "closing", ds)
<1>. DEFINE Earlier == {t \in Sessions : Open(t) /\ row[t].day < DayOf(now)}
            ds == {Close(s, DayEnd(s), "PREVIOUS_DAY_AUTO_CLOSE", Active(s)) : s \in Earlier}
<1>1. ASSUME NEW s \in Earlier
      PROVE  /\ Close(s, DayEnd(s), "PREVIOUS_DAY_AUTO_CLOSE", Active(s)) \in Decision
             /\ Close(s, DayEnd(s), "PREVIOUS_DAY_AUTO_CLOSE", Active(s)).reason \notin StaleReasons
  <2>1. s \in Sessions /\ Open(s) /\ row[s].day < DayOf(now)
    OBVIOUS
  <2>2. row[s].in \in Times /\ row[s].day \in Times /\ now \in Times
    BY <2>1, OpenSince DEF TypeOK
  <2>3. (row[s].day + 1) * DayLength <= now
    BY <2>1, <2>2, DayIsOver DEF Times
  <2>4. (row[s].day + 1) * DayLength \in Nat
    BY <2>2, AttendanceAssumption DEF Times
  <2>5. DayEnd(s) \in Times
    <3>. DEFINE a == (row[s].day + 1) * DayLength
                b == row[s].in
    <3>1. a \in Times /\ b \in Times /\ a \in Int /\ b \in Int
      BY <2>2, <2>3, <2>4, AttendanceAssumption DEF Times
    <3>. HIDE DEF a, b
    <3>2. Max({a, b}) \in {a, b}
      BY <3>1, MaxOfTwo
    <3>. QED BY <3>1, <3>2 DEF DayEnd, a, b
  <2>6. Active(s) \in SUBSET Breaks
    BY DEF Active
  <2>. QED BY <2>1, <2>5, <2>6, CloseTyped DEF Reasons, StaleReasons
<1>. QED BY <1>1 DEF BeginPunchIn

\* What the evaluation decides may be credited.
LEMMA StaleCredits ==
  ASSUME TypeOK, NEW s \in Sessions, Open(s), Stale(s)
  PROVE  /\ StaleEnd(s) \in Times /\ StaleReason(s) \in StaleReasons
         /\ Credits(s, StaleEnd(s), StaleReason(s))
<1>1. now \in Nat /\ now <= MaxTime /\ row[s].in \in Nat /\ row[s].in <= MaxTime
  BY OpenSince, AttendanceAssumption DEF TypeOK, Times
<1>2. MaxOpen \in Nat /\ MaxTime \in Nat
  BY AttendanceAssumption
<1>3. StaleReason(s) \in StaleReasons
  BY DEF StaleReason, StaleReasons
<1>4. CASE Reliable(s) # {}
  <2>1. Reliable(s) \in SUBSET (0 .. now)
    BY DEF Reliable
  <2>2. StaleEnd(s) \in Reliable(s)
    BY <1>1, <1>4, <2>1, MaxOf DEF StaleEnd
  <2>3. /\ StaleEnd(s) \in 0 .. now
        /\ row[s].in <= StaleEnd(s) /\ StaleEnd(s) <= row[s].in + MaxOpen
        /\ \E x \in Sources : seen[x] = StaleEnd(s)
    BY <2>2 DEF Reliable
  <2>4. StaleReason(s) # "SYSTEM_SHUTDOWN_UNCONFIRMED"
    BY <1>4 DEF StaleReason, Unconfirmed
  <2>5. \E x \in Sources : seen[x] # None /\ StaleEnd(s) <= seen[x]
    <3>1. PICK x \in Sources : seen[x] = StaleEnd(s)
      BY <2>3
    <3>2. seen[x] \in Int /\ seen[x] # None /\ StaleEnd(s) <= seen[x]
      BY <2>3, <3>1, AttendanceAssumption
    <3>. QED BY <3>2
  <2>6. StaleEnd(s) \in Times
    BY <1>1, <1>2, <2>3 DEF Times
  <2>. QED BY <1>3, <2>3, <2>4, <2>5, <2>6 DEF Credits
<1>5. CASE Reliable(s) = {}
  <2>1. ~ Missed(s)
    BY <1>5 DEF Missed, Disconnected
  <2>2. ExceedsMaximum(s) \/ Unconfirmed(s)
    BY <2>1 DEF Stale
  <2>3. CASE ExceedsMaximum(s)
    <3>1. StaleEnd(s) = row[s].in + MaxOpen /\ StaleReason(s) = "MAX_SESSION_EXCEEDED"
      BY <1>5, <2>3 DEF StaleEnd, StaleReason
    <3>2. row[s].in + MaxOpen <= now
      BY <1>1, <1>2, <2>3 DEF ExceedsMaximum
    <3>. QED BY <1>1, <1>2, <1>3, <3>1, <3>2 DEF Credits, Times
  <2>4. CASE ~ ExceedsMaximum(s)
    <3>1. StaleEnd(s) = row[s].in /\ StaleReason(s) = "SYSTEM_SHUTDOWN_UNCONFIRMED"
      BY <1>5, <2>2, <2>4 DEF StaleEnd, StaleReason
    <3>. QED BY <1>1, <1>2, <1>3, <3>1 DEF Credits, Times
  <2>. QED BY <2>3, <2>4
<1>. QED BY <1>4, <1>5

\* An evaluation keeps only decisions of that kind, on rows that exist.
LEMMA EvaluateDecides ==
  ASSUME TypeOK, NEW e \in Evaluators, Evaluate(e)
  PROVE  \E ds \in SUBSET Decision :
           /\ pass' = [pass EXCEPT ![e] = ds]
           /\ \A d \in ds : /\ d.reason \in StaleReasons /\ row[d.s] # NoRow
                            /\ Credits(d.s, d.at, d.reason)
<1>. DEFINE Found == {t \in Sessions : Open(t) /\ Stale(t)}
            ds == {Close(s, StaleEnd(s), StaleReason(s), Active(s)) : s \in Found}
<1>1. ASSUME NEW d \in ds
      PROVE  /\ d \in Decision /\ d.reason \in StaleReasons /\ row[d.s] # NoRow
             /\ Credits(d.s, d.at, d.reason)
  <2>1. PICK s \in Found : d = Close(s, StaleEnd(s), StaleReason(s), Active(s))
    OBVIOUS
  <2>2. s \in Sessions /\ Open(s) /\ Stale(s)
    OBVIOUS
  <2>. DEFINE at == StaleEnd(s)
              reason == StaleReason(s)
  <2>3. at \in Times /\ reason \in StaleReasons /\ Credits(s, at, reason)
    BY <2>2, StaleCredits
  <2>4. Active(s) \in SUBSET Breaks /\ reason \in Reasons
    BY <2>3 DEF Active, Reasons
  <2>5. d = Close(s, at, reason, Active(s))
    BY <2>1
  <2>. HIDE DEF at, reason
  <2>6. d \in Decision /\ d.s = s /\ d.at = at /\ d.reason = reason
    BY <2>2, <2>3, <2>4, <2>5, CloseTyped
  <2>7. row[s] # NoRow
    BY <2>2 DEF Open, NoRow
  <2>. QED BY <2>3, <2>6, <2>7
<1>2. pass' = [pass EXCEPT ![e] = ds]
  BY DEF Evaluate
<1>. HIDE DEF ds
<1>. QED BY <1>1, <1>2

\* What the employee's requests may do.
LEMMA RequestSteps ==
  ASSUME TypeOK, BreaksCoherent, NEW c \in Clients,
         \/ BeginPunchIn(c) \/ ClosePrevious(c) \/ CheckPunchIn(c) \/ PunchIn(c)
         \/ BeginPunchOut(c) \/ BeginBreakStart(c) \/ BeginBreakEnd(c)
         \/ Write(c) \/ BreakStart(c) \/ RequestDies(c)
  PROVE  /\ TypeOK' /\ UNCHANGED <<now, seen, pass, correction, review, applied>>
         /\ \/ UNCHANGED row
            \/ \E d \in request[c].todo : row' = Closed(d)
            \/ PunchIn(c)
         /\ \/ UNCHANGED pause
            \/ \E d \in request[c].todo : pause' = Ended(d)
            \/ BreakStart(c)
         /\ \E ds \in SUBSET Decision :
              /\ request'[c].todo = ds
              /\ \A b \in Clients \ {c} : request'[b] = request[b]
              /\ \A d \in ds : d \in request[c].todo \/ d.reason \notin StaleReasons
<1>. DEFINE Goal ==
       /\ TypeOK' /\ UNCHANGED <<now, seen, pass, correction, review, applied>>
       /\ \/ UNCHANGED row
          \/ \E d \in request[c].todo : row' = Closed(d)
          \/ PunchIn(c)
       /\ \/ UNCHANGED pause
          \/ \E d \in request[c].todo : pause' = Ended(d)
          \/ BreakStart(c)
       /\ \E ds \in SUBSET Decision :
            /\ request'[c].todo = ds
            /\ \A b \in Clients \ {c} : request'[b] = request[b]
            /\ \A d \in ds : d \in request[c].todo \/ d.reason \notin StaleReasons
<1>. SUFFICES Goal
  OBVIOUS
<1>. HIDE DEF Goal
<1>0. request[c] \in Request /\ request[c].todo \in SUBSET Decision /\ request[c].at \in Times
  BY DEF TypeOK, Request
<1>1. ASSUME NEW ds \in SUBSET Decision, NEW op \in {"closing", "pause", "write"},
             \A d \in ds : d.reason \notin StaleReasons, Decides(c, op, ds)
      PROVE  Goal
  <2>1. TypeOK'
    BY <1>1, DecidesTyped
  <2>2. request' = [request EXCEPT ![c] = [op |-> op, at |-> now, todo |-> ds]]
        /\ UNCHANGED <<now, seen, row, pause, pass, correction, review, applied>>
    BY <1>1 DEF Decides
  <2>3. request'[c].todo = ds /\ \A b \in Clients \ {c} : request'[b] = request[b]
    BY <2>2 DEF TypeOK
  <2>. QED BY <1>1, <2>1, <2>2, <2>3 DEF Goal
<1>2. CASE BeginPunchIn(c)
  <2>1. PICK ds \in SUBSET Decision :
          (\A d \in ds : d.reason \notin StaleReasons) /\ Decides(c, "closing", ds)
    BY <1>2, PreviousTyped
  <2>. QED BY <1>1, <2>1
<1>3. CASE BeginPunchOut(c) \/ BeginBreakStart(c) \/ BeginBreakEnd(c)
  <2>1. PICK d \in Decision, op \in {"pause", "write"} :
          d.reason \notin StaleReasons /\ Decides(c, op, {d})
    BY <1>3, SingleDecision
  <2>2. {d} \in SUBSET Decision /\ \A x \in {d} : x.reason \notin StaleReasons
    BY <2>1
  <2>. QED BY <1>1, <2>1, <2>2
<1>4. ASSUME NEW q \in Request, q.todo \subseteq request[c].todo,
             request' = [request EXCEPT ![c] = q]
      PROVE  /\ request' \in [Clients -> Request]
             /\ \E ds \in SUBSET Decision :
                  /\ request'[c].todo = ds
                  /\ \A b \in Clients \ {c} : request'[b] = request[b]
                  /\ \A d \in ds : d \in request[c].todo \/ d.reason \notin StaleReasons
  <2>1. request'[c] = q /\ \A b \in Clients \ {c} : request'[b] = request[b]
    BY <1>4 DEF TypeOK
  <2>. QED BY <1>0, <1>4, <2>1 DEF TypeOK
<1>5. Idle \in Request /\ Idle.todo \subseteq request[c].todo
  BY AttendanceAssumption DEF Idle, Request, Times
<1>6. CASE Write(c)
  <2>1. PICK d \in request[c].todo : pause' = Ended(d) /\ row' = Closed(d)
    BY <1>6 DEF Write
  <2>2. d \in Decision
    BY <1>0
  <2>3. row' \in [Sessions -> Row] /\ pause' \in [Breaks -> Pause]
    BY <2>1, <2>2, ClosedRow, EndedPauses
  <2>4. request' = [request EXCEPT ![c] = Idle]
        /\ UNCHANGED <<now, seen, pass, correction, review, applied>>
    BY <1>6 DEF Write
  <2>. QED BY <1>4, <1>5, <2>1, <2>3, <2>4 DEF Goal, TypeOK
<1>7. CASE ClosePrevious(c)
  <2>1. PICK d \in request[c].todo :
          /\ pause' = Ended(d) /\ row' = Closed(d)
          /\ request' = [request EXCEPT ![c] = [request[c] EXCEPT !.todo = request[c].todo \ {d}]]
    BY <1>7 DEF ClosePrevious
  <2>2. d \in Decision
    BY <1>0
  <2>3. row' \in [Sessions -> Row] /\ pause' \in [Breaks -> Pause]
    BY <2>1, <2>2, ClosedRow, EndedPauses
  <2>4. UNCHANGED <<now, seen, pass, correction, review, applied>>
    BY <1>7 DEF ClosePrevious
  <2>5. PICK q \in Request : /\ q = [request[c] EXCEPT !.todo = request[c].todo \ {d}]
                             /\ q.todo \subseteq request[c].todo
    <3>. DEFINE rest == request[c].todo \ {d}
                q == [request[c] EXCEPT !.todo = rest]
    <3>1. rest \in SUBSET Decision /\ rest \subseteq request[c].todo
      BY <1>0
    <3>. HIDE DEF rest
    <3>2. q \in Request /\ q.todo = rest
      BY <1>0, <3>1 DEF Request
    <3>3. q = [request[c] EXCEPT !.todo = request[c].todo \ {d}]
      BY DEF rest
    <3>. HIDE DEF q
    <3>. QED BY <3>1, <3>2, <3>3
  <2>6. request' = [request EXCEPT ![c] = q]
    BY <2>1, <2>5
  <2>. QED BY <1>4, <2>1, <2>3, <2>4, <2>5, <2>6 DEF Goal, TypeOK
<1>8. CASE CheckPunchIn(c)
  <2>1. PICK q \in Request : /\ q \in {[request[c] EXCEPT !.op = "create"], Idle}
                             /\ q.todo \subseteq request[c].todo
                             /\ request' = [request EXCEPT ![c] = q]
    <3>1. /\ [request[c] EXCEPT !.op = "create"] \in Request
          /\ [request[c] EXCEPT !.op = "create"].todo = request[c].todo
      BY <1>0 DEF Request
    <3>2. \/ request' = [request EXCEPT ![c] = [request[c] EXCEPT !.op = "create"]]
          \/ request' = [request EXCEPT ![c] = Idle]
      BY <1>8 DEF CheckPunchIn
    <3>. QED BY <1>5, <3>1, <3>2
  <2>2. UNCHANGED <<now, seen, row, pause, pass, correction, review, applied>>
    BY <1>8 DEF CheckPunchIn
  <2>. QED BY <1>4, <2>1, <2>2 DEF Goal, TypeOK
<1>9. CASE PunchIn(c)
  <2>1. PICK s \in Sessions :
          row' = [row EXCEPT ![s] = [NoRow EXCEPT !.day = DayOf(request[c].at), !.in = request[c].at]]
    BY <1>9 DEF PunchIn
  <2>2. DayOf(request[c].at) \in Times
    BY <1>0, DayWithin
  <2>3. [NoRow EXCEPT !.day = DayOf(request[c].at), !.in = request[c].at] \in Row
    BY <1>0, <2>2 DEF NoRow, Row, Moments, Reasons
  <2>4. row' \in [Sessions -> Row]
    BY <2>1, <2>3 DEF TypeOK
  <2>5. request' = [request EXCEPT ![c] = Idle]
        /\ UNCHANGED <<now, seen, pause, pass, correction, review, applied>>
    BY <1>9 DEF PunchIn
  <2>. QED BY <1>4, <1>5, <1>9, <2>4, <2>5 DEF Goal, TypeOK
<1>10. CASE BreakStart(c)
  <2>1. PICK b \in Breaks, d \in request[c].todo :
          pause' = [pause EXCEPT ![b] = [of |-> d.s, from |-> now, to |-> None]]
    BY <1>10 DEF BreakStart
  <2>2. [of |-> d.s, from |-> now, to |-> None] \in Pause
    BY <1>0 DEF Pause, Decision, Moments, TypeOK
  <2>3. pause' \in [Breaks -> Pause]
    BY <2>1, <2>2 DEF TypeOK
  <2>4. request' = [request EXCEPT ![c] = Idle]
        /\ UNCHANGED <<now, seen, row, pass, correction, review, applied>>
    BY <1>10 DEF BreakStart
  <2>. QED BY <1>4, <1>5, <1>10, <2>3, <2>4 DEF Goal, TypeOK
<1>11. CASE RequestDies(c)
  <2>1. request' = [request EXCEPT ![c] = Idle]
        /\ UNCHANGED <<now, seen, row, pause, pass, correction, review, applied>>
    BY <1>11 DEF RequestDies
  <2>. QED BY <1>4, <1>5, <2>1 DEF Goal, TypeOK
<1>. QED BY <1>2, <1>3, <1>6, <1>7, <1>8, <1>9, <1>10, <1>11

\* What the evaluation may do.
LEMMA EvaluationSteps ==
  ASSUME TypeOK, NEW e \in Evaluators, Evaluate(e) \/ SystemAutoClose(e) \/ EvaluationDies(e)
  PROVE  /\ TypeOK' /\ UNCHANGED <<now, seen, request, correction, review, applied>>
         /\ \/ UNCHANGED row
            \/ \E d \in pass[e] : row[d.s].out = None /\ row' = Closed(d)
         /\ \/ UNCHANGED pause
            \/ \E d \in pass[e] : pause' = Ended(d)
         /\ \E ds \in SUBSET Decision :
              /\ pass' = [pass EXCEPT ![e] = ds]
              /\ \A d \in ds : \/ d \in pass[e]
                               \/ /\ d.reason \in StaleReasons /\ row[d.s] # NoRow
                                  /\ Credits(d.s, d.at, d.reason) /\ UNCHANGED <<row, pause>>
<1>1. pass[e] \in SUBSET Decision
  BY DEF TypeOK
<1>2. CASE Evaluate(e)
  <2>1. PICK ds \in SUBSET Decision :
          /\ pass' = [pass EXCEPT ![e] = ds]
          /\ \A d \in ds : /\ d.reason \in StaleReasons /\ row[d.s] # NoRow
                           /\ Credits(d.s, d.at, d.reason)
    BY <1>2, EvaluateDecides
  <2>2. UNCHANGED <<now, seen, row, pause, request, correction, review, applied>>
    BY <1>2 DEF Evaluate
  <2>3. TypeOK'
    BY <2>1, <2>2 DEF TypeOK
  <2>. QED BY <2>1, <2>2, <2>3
<1>3. CASE SystemAutoClose(e)
  <2>1. PICK d \in pass[e] :
          /\ pause' = Ended(d) /\ row' = SystemClosed(d)
          /\ pass' = [pass EXCEPT ![e] = pass[e] \ {d}]
          /\ UNCHANGED <<now, seen, request, correction, review, applied>>
    BY <1>3 DEF SystemAutoClose
  <2>2. d \in Decision /\ pass[e] \ {d} \in SUBSET Decision
    BY <1>1
  <2>3. row' = row \/ (row[d.s].out = None /\ row' = Closed(d))
    BY <2>1 DEF SystemClosed
  <2>4. row' \in [Sessions -> Row] /\ pause' \in [Breaks -> Pause]
    BY <2>1, <2>2, <2>3, ClosedRow, EndedPauses DEF TypeOK
  <2>5. TypeOK'
    BY <2>1, <2>2, <2>4 DEF TypeOK
  <2>. QED BY <2>1, <2>2, <2>3, <2>5
<1>4. CASE EvaluationDies(e)
  <2>1. PICK d \in pass[e] : pause' = pause \/ pause' = Ended(d)
    BY <1>4 DEF EvaluationDies
  <2>2. /\ pass' = [pass EXCEPT ![e] = {}]
        /\ UNCHANGED <<now, seen, row, request, correction, review, applied>>
    BY <1>4 DEF EvaluationDies
  <2>3. pause' \in [Breaks -> Pause]
    BY <1>1, <2>1, EndedPauses DEF TypeOK
  <2>4. TypeOK'
    BY <2>2, <2>3 DEF TypeOK
  <2>5. {} \in SUBSET Decision /\ \A x \in {} : x \in pass[e]
    OBVIOUS
  <2>6. \E x \in pass[e] : pause' = pause \/ pause' = Ended(x)
    BY <2>1
  <2>7. \E ds \in SUBSET Decision :
           /\ pass' = [pass EXCEPT ![e] = ds]
           /\ \A x \in ds : x \in pass[e]
    BY <2>2, <2>5
  <2>. QED BY <2>2, <2>4, <2>6, <2>7
<1>. QED BY <1>2, <1>3, <1>4

\* Evidence and the clock
LEMMA EvidenceSteps ==
  ASSUME TypeOK, (\E x \in Sources : Evidence(x)) \/ Tick
  PROVE  /\ TypeOK' /\ UNCHANGED <<row, pause, request, pass, correction, review, applied>>
         /\ \A x \in Sources : seen[x] # None => seen'[x] # None /\ seen[x] <= seen'[x]
<1>0. now \in Nat /\ now <= MaxTime /\ MaxTime \in Nat
  BY AttendanceAssumption DEF TypeOK, Times
<1>1. ASSUME NEW x \in Sources, Evidence(x)
      PROVE  /\ TypeOK' /\ UNCHANGED <<row, pause, request, pass, correction, review, applied>>
             /\ \A y \in Sources : seen[y] # None => seen'[y] # None /\ seen[y] <= seen'[y]
  <2>1. PICK t \in 0 .. now : /\ seen[x] = None \/ t > seen[x]
                              /\ seen' = [seen EXCEPT ![x] = t]
    BY <1>1 DEF Evidence
  <2>2. UNCHANGED <<now, row, pause, request, pass, correction, review, applied>>
    BY <1>1 DEF Evidence
  <2>3. t \in Times /\ t # None
    BY <1>0, AttendanceAssumption DEF Times
  <2>4. TypeOK'
    BY <2>1, <2>2, <2>3 DEF TypeOK, Moments
  <2>5. ASSUME NEW y \in Sources, seen[y] # None
        PROVE  seen'[y] # None /\ seen[y] <= seen'[y]
    <3>1. seen[y] \in Int
      BY <2>5 DEF TypeOK, Moments, Times
    <3>2. CASE y = x
      BY <2>1, <2>3, <2>5, <3>1, <3>2 DEF TypeOK
    <3>3. CASE y # x
      BY <2>1, <2>5, <3>1, <3>3 DEF TypeOK
    <3>. QED BY <3>2, <3>3
  <2>. QED BY <2>2, <2>4, <2>5
<1>2. CASE Tick
  <2>1. UNCHANGED <<seen, row, pause, request, pass, correction, review, applied>>
        /\ now' \in Times
    BY <1>0, <1>2 DEF Tick, Times
  <2>2. TypeOK'
    BY <2>1 DEF TypeOK
  <2>3. \A x \in Sources : seen[x] # None => seen[x] \in Int
    BY DEF TypeOK, Moments, Times
  <2>. QED BY <2>1, <2>2, <2>3
<1>. QED BY <1>1, <1>2

-----------------------------------------------------------------------------
(* Corrections                                                              *)

\* A correction request is decided once and changes its row if it is approved.
Forward(k) ==
  \/ correction'[k] = correction[k] /\ applied'[k] = applied[k]
  \/ /\ correction[k].status \in {"none", "PENDING"} /\ applied'[k] = applied[k]
     /\ correction'[k].status # "APPROVED"
  \/ /\ correction[k].status = "PENDING" /\ correction'[k].status = "APPROVED"
     /\ applied'[k] = applied[k] + 1

\* The decisions that change nothing but the request.
LEMMA DecisionSteps ==
  ASSUME TypeOK, CorrectionsCoherent, ReviewsCoherent, NEW k \in Corrections,
         RequestCorrection(k) \/ Reject(k) \/ Cancel(k)
  PROVE  /\ TypeOK' /\ CorrectionsCoherent' /\ ReviewsCoherent'
         /\ UNCHANGED <<now, seen, row, pause, request, pass, applied>>
         /\ \A j \in Corrections : Forward(j)
<1>1. PICK new \in Correction :
        /\ correction' = [correction EXCEPT ![k] = new]
        /\ new.of \in Sessions /\ new.status \in {"PENDING", "REJECTED", "CANCELLED"}
        /\ correction[k].status \in {"none", "PENDING"}
        /\ \A v \in Reviewers : review[v].of # k
        /\ UNCHANGED <<now, seen, row, pause, request, pass, review, applied>>
  <2>1. CASE RequestCorrection(k)
    <3>1. PICK s \in Sessions, times \in Requestable :
            correction' = [correction EXCEPT ![k] =
              [status |-> "PENDING", of |-> s, in |-> times[1], out |-> times[2]]]
      BY <2>1 DEF RequestCorrection
    <3>2. [status |-> "PENDING", of |-> s, in |-> times[1], out |-> times[2]] \in Correction
      <4>1. times \in Moments \X Moments
        BY AttendanceAssumption
      <4>. QED BY <4>1 DEF Correction
    <3>3. correction[k].status = "none"
      BY <2>1 DEF RequestCorrection, NoCorrection
    <3>4. \A v \in Reviewers : review[v].of # k
      BY <3>3, AttendanceAssumption DEF ReviewsCoherent
    <3>. QED BY <2>1, <3>1, <3>2, <3>3, <3>4 DEF RequestCorrection
  <2>2. ASSUME NEW status \in {"REJECTED", "CANCELLED"}, Decide(k, status)
        PROVE  \E new \in Correction :
                 /\ correction' = [correction EXCEPT ![k] = new]
                 /\ new.of \in Sessions /\ new.status \in {"PENDING", "REJECTED", "CANCELLED"}
                 /\ correction[k].status \in {"none", "PENDING"}
                 /\ \A v \in Reviewers : review[v].of # k
                 /\ UNCHANGED <<now, seen, row, pause, request, pass, review, applied>>
    <3>. DEFINE new == [correction[k] EXCEPT !.status = status]
    <3>1. correction[k] \in Correction /\ correction[k].of \in Sessions
      BY <2>2 DEF TypeOK, CorrectionsCoherent, Decide, Undecided
    <3>2. new \in Correction /\ new.of \in Sessions /\ new.status = status
      BY <3>1 DEF Correction
    <3>3. correction' = [correction EXCEPT ![k] = new]
      BY <2>2 DEF Decide
    <3>. HIDE DEF new
    <3>. QED BY <2>2, <3>2, <3>3 DEF Decide, Undecided
  <2>3. CASE Reject(k)
    BY <2>2, <2>3 DEF Reject
  <2>4. CASE Cancel(k)
    BY <2>2, <2>4 DEF Cancel
  <2>. QED BY <2>1, <2>3, <2>4
<1>2. correction'[k] = new /\ \A j \in Corrections \ {k} : correction'[j] = correction[j]
  BY <1>1 DEF TypeOK
<1>3. TypeOK'
  BY <1>1 DEF TypeOK
<1>4. CorrectionsCoherent'
  BY <1>1, <1>2 DEF CorrectionsCoherent
<1>5. ASSUME NEW v \in Reviewers, review'[v].of # None
      PROVE  /\ correction'[review'[v].of].status = "PENDING"
             /\ \A w \in Reviewers : review'[w].of = review'[v].of => w = v
  <2>1. review[v].of \in Corrections \ {k}
    BY <1>1, <1>5 DEF TypeOK, Review
  <2>. QED BY <1>1, <1>2, <1>5, <2>1 DEF ReviewsCoherent
<1>6. \A j \in Corrections : Forward(j)
  BY <1>1, <1>2 DEF Forward
<1>. QED BY <1>1, <1>3, <1>4, <1>5, <1>6 DEF ReviewsCoherent

\* An approval claims the request, and changes its row when it is applied.
LEMMA ApprovalSteps ==
  ASSUME TypeOK, CorrectionsCoherent, ReviewsCoherent, NEW v \in Reviewers,
         \/ ApplyCorrection(v) \/ ApprovalFails(v)
         \/ \E k \in Corrections : BeginApproval(v, k)
  PROVE  /\ TypeOK' /\ CorrectionsCoherent' /\ ReviewsCoherent'
         /\ UNCHANGED <<now, seen, pause, request, pass>>
         /\ \/ UNCHANGED row
            \/ /\ applied' # applied
               /\ \E s \in Sessions, new \in Row : new.corrected /\ row' = [row EXCEPT ![s] = new]
         /\ \A j \in Corrections : Forward(j)
<1>. DEFINE Goal ==
       /\ TypeOK' /\ CorrectionsCoherent' /\ ReviewsCoherent'
       /\ UNCHANGED <<now, seen, pause, request, pass>>
       /\ \/ UNCHANGED row
          \/ /\ applied' # applied
             /\ \E s \in Sessions, new \in Row : new.corrected /\ row' = [row EXCEPT ![s] = new]
       /\ \A j \in Corrections : Forward(j)
<1>. SUFFICES Goal
  OBVIOUS
<1>. HIDE DEF Goal
<1>1. ASSUME NEW new \in Review, review' = [review EXCEPT ![v] = new],
             UNCHANGED <<now, seen, row, pause, request, pass, correction, applied>>,
             new.of # None =>
               /\ correction[new.of].status = "PENDING"
               /\ \A w \in Reviewers : review[w].of # new.of
      PROVE  Goal
  <2>1. TypeOK'
    BY <1>1 DEF TypeOK
  <2>2. review'[v] = new /\ \A w \in Reviewers \ {v} : review'[w] = review[w]
    BY <1>1 DEF TypeOK
  <2>3. ReviewsCoherent'
    BY <1>1, <2>2 DEF ReviewsCoherent
  <2>4. CorrectionsCoherent' /\ \A j \in Corrections : Forward(j)
    BY <1>1 DEF CorrectionsCoherent, Forward
  <2>. QED BY <1>1, <2>1, <2>3, <2>4 DEF Goal
<1>2. NoReview \in Review /\ NoReview.of = None
  BY DEF NoReview, Review, Moments
<1>3. CASE ApprovalFails(v)
  BY <1>1, <1>2, <1>3 DEF ApprovalFails
<1>4. ASSUME NEW k \in Corrections, BeginApproval(v, k)
      PROVE  Goal
  <2>. DEFINE in == Asked(correction[k].in, row[correction[k].of].in)
              out == Asked(correction[k].out, row[correction[k].of].out)
              new == [of |-> k, in |-> in, out |-> out]
  <2>1. Undecided(k) /\ review' = [review EXCEPT ![v] = new]
        /\ UNCHANGED <<now, seen, row, pause, request, pass, correction, applied>>
    BY <1>4 DEF BeginApproval
  <2>2. correction[k].status = "PENDING" /\ \A w \in Reviewers : review[w].of # k
    BY <2>1 DEF Undecided
  <2>3. correction[k].in \in Moments /\ correction[k].out \in Moments
        /\ correction[k].of \in Sessions
    BY <2>2 DEF TypeOK, Correction, CorrectionsCoherent
  <2>4. in \in Moments /\ out \in Moments
    BY <2>3 DEF Asked, TypeOK, Row
  <2>. HIDE DEF in, out
  <2>5. new \in Review /\ new.of = k
    BY <2>4 DEF Review
  <2>. HIDE DEF new
  <2>. QED BY <1>1, <2>1, <2>2, <2>5
<1>5. CASE ApplyCorrection(v)
  <2>. DEFINE k == review[v].of
              s == correction[k].of
              r == [row[s] EXCEPT !.in = review[v].in, !.out = review[v].out, !.corrected = TRUE]
              c == [correction[k] EXCEPT !.status = "APPROVED"]
  <2>1. k \in Corrections /\ k # None /\ review[v].in \in Moments /\ review[v].out \in Moments
    BY <1>5 DEF ApplyCorrection, TypeOK, Review
  <2>2. correction[k].status = "PENDING" /\ \A w \in Reviewers : review[w].of = k => w = v
    BY <2>1 DEF ReviewsCoherent
  <2>3. s \in Sessions /\ applied[k] = 0 /\ correction[k] \in Correction
    BY <2>1, <2>2 DEF CorrectionsCoherent, TypeOK
  <2>4. /\ correction' = [correction EXCEPT ![k] = c]
        /\ applied' = [applied EXCEPT ![k] = applied[k] + 1]
        /\ review' = [review EXCEPT ![v] = NoReview]
        /\ UNCHANGED <<now, seen, pause, request, pass>>
    BY <1>5 DEF ApplyCorrection
  <2>5. row' = [row EXCEPT ![s] = r]
    BY <1>5, <2>3 DEF ApplyCorrection, TypeOK
  <2>. HIDE DEF s
  <2>6. r \in Row /\ r.corrected
    BY <2>1, <2>3 DEF TypeOK, Row
  <2>7. c \in Correction /\ c.status = "APPROVED" /\ c.of = s
    BY <2>3 DEF Correction, s
  <2>. HIDE DEF k, r, c
  <2>8. /\ correction'[k] = c /\ applied'[k] = 1 /\ review'[v] = NoReview
        /\ \A j \in Corrections \ {k} : correction'[j] = correction[j] /\ applied'[j] = applied[j]
        /\ \A w \in Reviewers \ {v} : review'[w] = review[w]
    BY <2>1, <2>3, <2>4 DEF TypeOK
  <2>9. TypeOK'
    <3>1. correction' \in [Corrections -> Correction] /\ row' \in [Sessions -> Row]
      BY <2>4, <2>5, <2>6, <2>7 DEF TypeOK
    <3>2. applied \in [Corrections -> Nat] /\ applied[k] + 1 \in Nat
      BY <2>3 DEF TypeOK
    <3>3. applied' \in [Corrections -> Nat]
      BY <2>4, <3>2
    <3>4. review' \in [Reviewers -> Review]
      BY <1>2, <2>4 DEF TypeOK
    <3>. QED BY <2>4, <3>1, <3>3, <3>4 DEF TypeOK
  <2>10. CorrectionsCoherent'
    BY <2>3, <2>7, <2>8 DEF CorrectionsCoherent
  <2>11. ReviewsCoherent'
    <3>1. ASSUME NEW w \in Reviewers, review'[w].of # None
          PROVE  /\ w # v /\ review'[w] = review[w] /\ review[w].of \in Corrections \ {k}
      BY <1>2, <2>2, <2>8, <3>1 DEF TypeOK, Review
    <3>. QED BY <2>8, <3>1 DEF ReviewsCoherent
  <2>12. \A j \in Corrections : Forward(j)
    BY <2>2, <2>3, <2>7, <2>8 DEF Forward
  <2>13. applied' # applied
    BY <2>1, <2>3, <2>8
  <2>. QED BY <2>3, <2>4, <2>5, <2>6, <2>9, <2>10, <2>11, <2>12, <2>13 DEF Goal
<1>. QED BY <1>3, <1>4, <1>5

-----------------------------------------------------------------------------
(* Every step                                                               *)

\* What a step may do to a session's row: nothing; punch in; a correction; the
\* employee closes it; or the evaluation, if it is still open.
RowStep(s) ==
  \/ row'[s] = row[s]
  \/ row[s] = NoRow /\ row'[s].reason = "NONE"
  \/ row'[s].corrected /\ applied' # applied
  \/ /\ row'[s].in = row[s].in /\ row'[s].corrected = row[s].corrected
     /\ row'[s].reason \notin StaleReasons \cup {"NONE"}
  \/ /\ row'[s].in = row[s].in /\ row'[s].corrected = row[s].corrected
     /\ row'[s].reason \in StaleReasons /\ row[s].out = None /\ row'[s].out # None
     /\ ~ row[s].corrected => Credits(s, row'[s].out, row'[s].reason)

\* What was seen once stays the latest evidence or gives way to later evidence.
SeenForward ==
  \A x \in Sources : seen[x] # None => seen'[x] # None /\ seen[x] <= seen'[x]

\* The decisions under way are those of before, or are well made now.
Decided ==
  /\ \A c \in Clients : \A d \in request'[c].todo :
       d \in request[c].todo \/ d.reason \notin StaleReasons
  /\ \A e \in Evaluators : \A d \in pass'[e] :
       \/ d \in pass[e]
       \/ /\ d.reason \in StaleReasons /\ row[d.s] # NoRow
          /\ Credits(d.s, d.at, d.reason) /\ UNCHANGED <<row, seen>>

Step ==
  /\ TypeOK' /\ BreaksCoherent' /\ CorrectionsCoherent' /\ ReviewsCoherent'
  /\ SeenForward /\ Decided
  /\ \A s \in Sessions : RowStep(s)
  /\ \A k \in Corrections : Forward(k)

\* What closes a row, in the employee's name or the evaluation's
LEMMA CloseSteps ==
  ASSUME TypeOK, NEW d \in Decision, row' = Closed(d),
         d.reason \in StaleReasons =>
           /\ row[d.s].out = None
           /\ ~ row[d.s].corrected => Credits(d.s, d.at, d.reason)
  PROVE  \A s \in Sessions : RowStep(s)
<1>1. ASSUME NEW s \in Sessions
      PROVE  RowStep(s)
  <2>1. CASE s # d.s \/ d.reason = "NONE"
    <3>1. row'[s] = row[s]
      BY <2>1, ClosedRow
    <3>. QED BY <3>1 DEF RowStep
  <2>2. CASE s = d.s /\ d.reason # "NONE"
    <3>1. /\ row'[s].out = d.at /\ row'[s].reason = d.reason
          /\ row'[s].in = row[s].in /\ row'[s].corrected = row[s].corrected
      BY <2>2, ClosedRow
    <3>2. CASE d.reason \in StaleReasons
      <4>1. d.at # None
        BY AttendanceAssumption DEF Decision, Times
      <4>. QED BY <2>2, <3>1, <3>2, <4>1 DEF RowStep
    <3>3. CASE d.reason \notin StaleReasons
      BY <2>2, <3>1, <3>3 DEF RowStep
    <3>. QED BY <3>2, <3>3
  <2>. QED BY <2>1, <2>2
<1>. QED BY <1>1

LEMMA PausesSteps ==
  ASSUME TypeOK, BreaksCoherent,
         UNCHANGED pause \/ \E d \in Decision : pause' = Ended(d)
  PROVE  BreaksCoherent'
<1>1. CASE UNCHANGED pause
  BY <1>1 DEF BreaksCoherent
<1>2. ASSUME NEW d \in Decision, pause' = Ended(d)
      PROVE  BreaksCoherent'
  <2>1. \A b \in Breaks : pause'[b].of = pause[b].of /\ pause'[b].from = pause[b].from
    BY <1>2, EndedPauses
  <2>. QED BY <2>1 DEF BreaksCoherent
<1>. QED BY <1>1, <1>2

LEMMA ByRequest ==
  ASSUME IInv, NEW c \in Clients,
         \/ BeginPunchIn(c) \/ ClosePrevious(c) \/ CheckPunchIn(c) \/ PunchIn(c)
         \/ BeginPunchOut(c) \/ BeginBreakStart(c) \/ BeginBreakEnd(c)
         \/ Write(c) \/ BreakStart(c) \/ RequestDies(c)
  PROVE  Step
<1>0. TypeOK /\ BreaksCoherent /\ RequestsMild /\ CorrectionsCoherent /\ ReviewsCoherent
      /\ request[c].todo \in SUBSET Decision
  BY DEF IInv, TypeOK, Request
<1>1. /\ TypeOK' /\ UNCHANGED <<now, seen, pass, correction, review, applied>>
      /\ \/ UNCHANGED row
         \/ \E d \in request[c].todo : row' = Closed(d)
         \/ PunchIn(c)
      /\ \/ UNCHANGED pause
         \/ \E d \in request[c].todo : pause' = Ended(d)
         \/ BreakStart(c)
      /\ \E ds \in SUBSET Decision :
           /\ request'[c].todo = ds
           /\ \A b \in Clients \ {c} : request'[b] = request[b]
           /\ \A d \in ds : d \in request[c].todo \/ d.reason \notin StaleReasons
  BY <1>0, RequestSteps
<1>2. \A s \in Sessions : RowStep(s)
  <2>1. CASE UNCHANGED row
    BY <2>1 DEF RowStep
  <2>2. ASSUME NEW d \in request[c].todo, row' = Closed(d)
        PROVE  \A s \in Sessions : RowStep(s)
    <3>1. d \in Decision /\ d.reason \notin StaleReasons
      BY <1>0 DEF RequestsMild
    <3>. QED BY <1>0, <2>2, <3>1, CloseSteps
  <2>3. CASE PunchIn(c)
    <3>. DEFINE new == [NoRow EXCEPT !.day = DayOf(request[c].at), !.in = request[c].at]
    <3>1. PICK s \in Sessions : row[s] = NoRow /\ row' = [row EXCEPT ![s] = new]
      BY <2>3 DEF PunchIn
    <3>2. new.reason = "NONE"
      BY DEF NoRow
    <3>. HIDE DEF new
    <3>3. \A t \in Sessions : row'[t] = IF t = s THEN new ELSE row[t]
      BY <1>0, <3>1 DEF TypeOK
    <3>. QED BY <3>1, <3>2, <3>3 DEF RowStep
  <2>. QED BY <1>1, <2>1, <2>2, <2>3
<1>3. BreaksCoherent'
  <2>1. CASE BreakStart(c)
    <3>1. PICK b \in Breaks, d \in request[c].todo :
            pause' = [pause EXCEPT ![b] = [of |-> d.s, from |-> now, to |-> None]]
      BY <2>1 DEF BreakStart
    <3>2. now # None
      BY <1>0, AttendanceAssumption DEF TypeOK, Times
    <3>3. \A a \in Breaks : pause'[a] = pause[a] \/ pause'[a].from = now
      BY <1>0, <3>1 DEF TypeOK
    <3>. QED BY <1>0, <3>2, <3>3 DEF BreaksCoherent
  <2>2. CASE ~ BreakStart(c)
    <3>1. UNCHANGED pause \/ \E d \in Decision : pause' = Ended(d)
      BY <1>0, <1>1, <2>2
    <3>. QED BY <1>0, <3>1, PausesSteps
  <2>. QED BY <2>1, <2>2
<1>4. SeenForward
  BY <1>0, <1>1 DEF SeenForward, TypeOK, Moments, Times
<1>5. Decided
  BY <1>1 DEF Decided
<1>6. CorrectionsCoherent' /\ ReviewsCoherent' /\ \A k \in Corrections : Forward(k)
  BY <1>0, <1>1 DEF CorrectionsCoherent, ReviewsCoherent, Forward
<1>. QED BY <1>1, <1>2, <1>3, <1>4, <1>5, <1>6 DEF Step

LEMMA ByEvaluation ==
  ASSUME IInv, NEW e \in Evaluators, Evaluate(e) \/ SystemAutoClose(e) \/ EvaluationDies(e)
  PROVE  Step
<1>0. TypeOK /\ BreaksCoherent /\ PassesCredit /\ CorrectionsCoherent /\ ReviewsCoherent
      /\ pass[e] \in SUBSET Decision
  BY DEF IInv, TypeOK
<1>1. /\ TypeOK' /\ UNCHANGED <<now, seen, request, correction, review, applied>>
      /\ \/ UNCHANGED row
         \/ \E d \in pass[e] : row[d.s].out = None /\ row' = Closed(d)
      /\ \/ UNCHANGED pause
         \/ \E d \in pass[e] : pause' = Ended(d)
      /\ \E ds \in SUBSET Decision :
           /\ pass' = [pass EXCEPT ![e] = ds]
           /\ \A d \in ds : \/ d \in pass[e]
                            \/ /\ d.reason \in StaleReasons /\ row[d.s] # NoRow
                               /\ Credits(d.s, d.at, d.reason) /\ UNCHANGED <<row, pause>>
  BY <1>0, EvaluationSteps
<1>2. \A s \in Sessions : RowStep(s)
  <2>1. CASE UNCHANGED row
    BY <2>1 DEF RowStep
  <2>2. ASSUME NEW d \in pass[e], row[d.s].out = None, row' = Closed(d)
        PROVE  \A s \in Sessions : RowStep(s)
    <3>1. d \in Decision /\ (~ row[d.s].corrected => Credits(d.s, d.at, d.reason))
      BY <1>0 DEF PassesCredit
    <3>. QED BY <1>0, <2>2, <3>1, CloseSteps
  <2>. QED BY <1>1, <2>1, <2>2
<1>3. BreaksCoherent'
  <2>1. UNCHANGED pause \/ \E d \in Decision : pause' = Ended(d)
    BY <1>0, <1>1
  <2>. QED BY <1>0, <2>1, PausesSteps
<1>4. SeenForward
  BY <1>0, <1>1 DEF SeenForward, TypeOK, Moments, Times
<1>5. Decided
  <2>1. PICK ds \in SUBSET Decision :
          /\ pass' = [pass EXCEPT ![e] = ds]
          /\ \A d \in ds : \/ d \in pass[e]
                           \/ /\ d.reason \in StaleReasons /\ row[d.s] # NoRow
                              /\ Credits(d.s, d.at, d.reason) /\ UNCHANGED <<row, pause>>
    BY <1>1
  <2>2. pass'[e] = ds /\ \A f \in Evaluators \ {e} : pass'[f] = pass[f]
    BY <1>0, <2>1 DEF TypeOK
  <2>. QED BY <1>1, <2>1, <2>2 DEF Decided
<1>6. CorrectionsCoherent' /\ ReviewsCoherent' /\ \A k \in Corrections : Forward(k)
  BY <1>0, <1>1 DEF CorrectionsCoherent, ReviewsCoherent, Forward
<1>. QED BY <1>1, <1>2, <1>3, <1>4, <1>5, <1>6 DEF Step

LEMMA ByCorrection ==
  ASSUME IInv,
         \/ \E k \in Corrections : RequestCorrection(k) \/ Reject(k) \/ Cancel(k)
         \/ \E v \in Reviewers : \/ ApplyCorrection(v) \/ ApprovalFails(v)
                                 \/ \E k \in Corrections : BeginApproval(v, k)
  PROVE  Step
<1>0. TypeOK /\ BreaksCoherent /\ CorrectionsCoherent /\ ReviewsCoherent
  BY DEF IInv
<1>1. /\ TypeOK' /\ CorrectionsCoherent' /\ ReviewsCoherent'
      /\ UNCHANGED <<now, seen, pause, request, pass>>
      /\ \/ UNCHANGED row
         \/ /\ applied' # applied
            /\ \E s \in Sessions, new \in Row : new.corrected /\ row' = [row EXCEPT ![s] = new]
      /\ \A k \in Corrections : Forward(k)
  BY <1>0, DecisionSteps, ApprovalSteps
<1>2. \A s \in Sessions : RowStep(s)
  <2>1. CASE UNCHANGED row
    BY <2>1 DEF RowStep
  <2>2. ASSUME applied' # applied, NEW s \in Sessions, NEW new \in Row, new.corrected,
               row' = [row EXCEPT ![s] = new]
        PROVE  \A t \in Sessions : RowStep(t)
    <3>1. \A t \in Sessions : row'[t] = IF t = s THEN new ELSE row[t]
      BY <1>0, <2>2 DEF TypeOK
    <3>. QED BY <2>2, <3>1 DEF RowStep
  <2>. QED BY <1>1, <2>1, <2>2
<1>3. BreaksCoherent' /\ SeenForward /\ Decided
  BY <1>0, <1>1 DEF BreaksCoherent, SeenForward, Decided, TypeOK, Moments, Times
<1>. QED BY <1>1, <1>2, <1>3 DEF Step

LEMMA ByNobody ==
  ASSUME IInv, (\E x \in Sources : Evidence(x)) \/ Tick \/ UNCHANGED vars
  PROVE  Step
<1>0. TypeOK /\ BreaksCoherent /\ CorrectionsCoherent /\ ReviewsCoherent
  BY DEF IInv
<1>1. /\ TypeOK' /\ UNCHANGED <<row, pause, request, pass, correction, review, applied>>
      /\ SeenForward
  <2>1. CASE UNCHANGED vars
    BY <1>0, <2>1 DEF vars, TypeOK, SeenForward, Moments, Times
  <2>2. CASE (\E x \in Sources : Evidence(x)) \/ Tick
    BY <1>0, <2>2, EvidenceSteps DEF SeenForward
  <2>. QED BY <2>1, <2>2
<1>2. BreaksCoherent' /\ Decided /\ CorrectionsCoherent' /\ ReviewsCoherent'
  BY <1>0, <1>1 DEF BreaksCoherent, Decided, CorrectionsCoherent, ReviewsCoherent
<1>3. (\A s \in Sessions : RowStep(s)) /\ \A k \in Corrections : Forward(k)
  BY <1>1 DEF RowStep, Forward
<1>. QED BY <1>1, <1>2, <1>3 DEF Step

LEMMA Steps ==
  ASSUME IInv, [Next]_vars
  PROVE  Step
BY ByRequest, ByEvaluation, ByCorrection, ByNobody DEF Next

-----------------------------------------------------------------------------
(* The invariant                                                            *)

LEMMA Initially == Init => IInv
<1>. SUFFICES ASSUME Init
              PROVE  IInv
  OBVIOUS
<1>1. TypeOK
  <2>1. MaxTime \in Nat /\ 0 \in Times /\ "NONE" \in Reasons
    BY AttendanceAssumption DEF Times, Reasons
  <2>2. /\ NoRow \in Row /\ NoPause \in Pause /\ Idle \in Request
        /\ NoCorrection \in Correction /\ NoReview \in Review
    BY <2>1 DEF NoRow, Row, NoPause, Pause, Idle, Request, NoCorrection, Correction,
                NoReview, Review, Moments
  <2>. QED BY <2>1, <2>2 DEF Init, TypeOK, Moments
<1>2. BreaksCoherent /\ RequestsMild /\ PassesCredit
  BY DEF Init, BreaksCoherent, RequestsMild, PassesCredit, NoPause, Idle
<1>3. CorrectionsCoherent /\ ReviewsCoherent
  BY DEF Init, CorrectionsCoherent, ReviewsCoherent, NoCorrection, NoReview
<1>4. CreditsEvidence /\ RowsCoherent
  BY DEF Init, CreditsEvidence, RowsCoherent, NoRow, StaleReasons
<1>. QED BY <1>1, <1>2, <1>3, <1>4 DEF IInv

\* What may be credited may be credited still when there is later evidence.
LEMMA CreditsForward ==
  ASSUME TypeOK, TypeOK', SeenForward, NEW s \in Sessions, NEW at \in Times, NEW reason,
         row'[s].in = row[s].in, Credits(s, at, reason)
  PROVE  Credits(s, at, reason)'
<1>1. reason = "MISSED_PUNCH_OUT" => \E x \in Sources : seen'[x] # None /\ at <= seen'[x]
  <2>. SUFFICES ASSUME reason = "MISSED_PUNCH_OUT"
                PROVE  \E x \in Sources : seen'[x] # None /\ at <= seen'[x]
    OBVIOUS
  <2>1. PICK x \in Sources : seen[x] # None /\ at <= seen[x]
    BY DEF Credits
  <2>2. seen'[x] # None /\ seen[x] <= seen'[x]
    BY <2>1 DEF SeenForward
  <2>3. seen[x] \in Int /\ seen'[x] \in Int /\ at \in Int
    BY <2>1, <2>2 DEF TypeOK, Moments, Times
  <2>4. at <= seen'[x]
    BY <2>1, <2>2, <2>3
  <2>. QED BY <2>2, <2>4
<1>. QED BY <1>1 DEF Credits

LEMMA Invariance ==
  ASSUME IInv, [Next]_vars
  PROVE  IInv'
<1>0. TypeOK /\ RowsCoherent /\ RequestsMild /\ PassesCredit /\ CreditsEvidence
  BY DEF IInv
<1>1. Step
  BY Steps
<1>2. TypeOK' /\ SeenForward /\ Decided /\ \A s \in Sessions : RowStep(s)
  BY <1>1 DEF Step
<1>3. RequestsMild'
  BY <1>0, <1>2 DEF RequestsMild, Decided
<1>4. ASSUME NEW e \in Evaluators, NEW d \in pass'[e]
      PROVE  /\ d.reason \in StaleReasons /\ row'[d.s] # NoRow
             /\ ~ row'[d.s].corrected => Credits(d.s, d.at, d.reason)'
  <2>1. d \in Decision /\ d.s \in Sessions /\ d.at \in Times
    BY <1>2 DEF TypeOK, Decision
  <2>2. CASE UNCHANGED <<row, seen>> /\ d.reason \in StaleReasons /\ row[d.s] # NoRow
             /\ Credits(d.s, d.at, d.reason)
    BY <2>2 DEF Credits
  <2>3. CASE d \in pass[e]
    <3>1. d.reason \in StaleReasons /\ row[d.s] # NoRow
          /\ (~ row[d.s].corrected => Credits(d.s, d.at, d.reason))
      BY <1>0, <2>3 DEF PassesCredit
    <3>2. RowStep(d.s)
      BY <1>2, <2>1
    <3>3. row'[d.s] # NoRow
      BY <3>1, <3>2 DEF RowStep, NoRow, StaleReasons
    <3>4. ASSUME ~ row'[d.s].corrected
          PROVE  Credits(d.s, d.at, d.reason)'
      <4>1. row'[d.s].in = row[d.s].in /\ ~ row[d.s].corrected
        BY <3>1, <3>2, <3>4 DEF RowStep
      <4>. QED BY <1>0, <1>2, <2>1, <3>1, <4>1, CreditsForward
    <3>. QED BY <3>1, <3>3, <3>4
  <2>. QED BY <1>2, <2>2, <2>3 DEF Decided
<1>5. PassesCredit'
  BY <1>4 DEF PassesCredit
<1>6. RowsCoherent'
  <2>1. ASSUME NEW s \in Sessions, row'[s].reason \in StaleReasons, ~ row'[s].corrected
        PROVE  row'[s].out # None
    <3>1. RowStep(s)
      BY <1>2
    <3>. QED BY <1>0, <2>1, <3>1 DEF RowStep, RowsCoherent, StaleReasons
  <2>. QED BY <2>1 DEF RowsCoherent
<1>7. ASSUME NEW s \in Sessions, NEW at, NEW reason \in StaleReasons,
             row'[s].out = at, row'[s].reason = reason, ~ row'[s].corrected
      PROVE  Credits(s, at, reason)'
  <2>1. RowStep(s)
    BY <1>2
  <2>2. at \in Times
    BY <1>2, <1>6, <1>7 DEF TypeOK, Row, Moments, RowsCoherent
  <2>3. Credits(s, at, reason) /\ row'[s].in = row[s].in
    <3>1. CASE row'[s] = row[s]
      BY <1>0, <1>7, <3>1 DEF CreditsEvidence, Credits
    <3>2. CASE row'[s] # row[s]
      BY <1>7, <2>1, <3>2 DEF RowStep, StaleReasons
    <3>. QED BY <3>1, <3>2
  <2>. QED BY <1>0, <1>2, <2>2, <2>3, CreditsForward
<1>8. CreditsEvidence'
  BY <1>7 DEF CreditsEvidence, Credits
<1>. QED BY <1>1, <1>2, <1>3, <1>5, <1>6, <1>8 DEF IInv, Step

-----------------------------------------------------------------------------
(* The theorems                                                             *)

LEMMA Invariant == Spec => []IInv
<1>1. IInv /\ [Next]_vars => IInv'
  BY Invariance
<1>. QED BY Initially, <1>1, PTL DEF Spec

\* Every row, break, request, evaluation, correction and review is well formed,
\* whatever decides, writes late, dies or is corrected.
THEOREM TypeCorrect == Spec => []TypeOK
<1>1. IInv => TypeOK
  BY DEF IInv
<1>. QED BY Invariant, <1>1, PTL

\* A session the evaluation closed credits no time past the maximum or past the
\* last evidence of work, and none without evidence, however late the evaluation
\* writes and whatever has become of the row (enforceStaleAttendanceSessions()).
THEOREM CreditsHold == Spec => []CreditsEvidence
<1>1. IInv => CreditsEvidence
  BY DEF IInv
<1>. QED BY Invariant, <1>1, PTL

\* A late write of the evaluation never turns a closed session into one that the
\* system closed (the updateMany() of systemAutoClose()).
THEOREM StaleCloses == Spec => StaleOnlyClosesOpen
<1>1. ASSUME IInv, [Next]_vars
      PROVE  \A s \in Sessions :
               row'[s].out # row[s].out /\ row'[s].reason \in StaleReasons /\ applied' = applied =>
                 row[s].out = None
  <2>1. \A s \in Sessions : RowStep(s)
    BY <1>1, Steps DEF Step
  <2>. QED BY <2>1 DEF RowStep, StaleReasons
<1>. QED BY Invariant, <1>1, PTL DEF Spec, StaleOnlyClosesOpen

\* Of those who race to approve, reject or cancel a correction request one
\* decides, and the session is changed once if and only if it was approved
\* (review(), cancel() and applyApprovedCorrection()).
THEOREM DecidedOnceHolds == Spec => DecidedOnce
<1>1. ASSUME IInv, [Next]_vars
      PROVE  \A k \in Corrections :
               /\ applied'[k] # applied[k] => correction[k].status = "PENDING"
               /\ correction[k].status \notin {"none", "PENDING"} => correction'[k] = correction[k]
               /\ correction'[k].status = "APPROVED" <=> applied'[k] = 1
  <2>1. CorrectionsCoherent' /\ \A k \in Corrections : Forward(k)
    BY <1>1, Steps DEF Step
  <2>2. \A k \in Corrections : correction'[k].status = "APPROVED" <=> applied'[k] = 1
    BY <2>1 DEF CorrectionsCoherent
  <2>. QED BY <2>1, <2>2 DEF Forward
<1>. QED BY Invariant, <1>1, PTL DEF Spec, DecidedOnce
=============================================================================
