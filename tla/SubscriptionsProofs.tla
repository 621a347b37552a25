-------------------------- MODULE SubscriptionsProofs --------------------------
(* Proofs about Subscriptions, for any number of subscriptions and amending  *)
(* requests, any period length and any horizon.                              *)
EXTENDS Subscriptions, TLAPS

\* A renewal that waits belongs to a row that has been activated, and its cycle
\* ends within the bound.
PreparedOnActivated ==
  \A s \in Subs, c \in Times :
    renewal[<<s, c>>].status = "PREPARED" =>
      /\ sub[s].status \notin {"ABSENT", "PENDING"}
      /\ c + Period <= MaxEnd

\* An amendment in flight is of a subscription that was live.
AmendmentsOfLive ==
  \A a \in Admins :
    amendment[a] # NoAmendment =>
      amendment[a].source \in Subs /\ amendment[a].row.status \in Live

PaidInTime ==
  /\ \A s \in Subs : sub[s].paid # None => sub[s].paid \in 0 .. Horizon
  /\ \A a \in Admins : amendment[a].row.paid # None => amendment[a].row.paid \in 0 .. Horizon

IInv ==
  /\ TypeOK
  /\ OneLive
  /\ BoundaryHolds
  /\ PreparedOnActivated
  /\ AmendmentsOfLive
  /\ PaidInTime

-----------------------------------------------------------------------------
(* Facts about the data                                                      *)

LEMMA TimeFacts ==
  /\ 0 .. Horizon \subseteq Times /\ 1 .. Horizon \subseteq Times
  /\ Period \in Times
  /\ \A t \in 0 .. Horizon : t + Period \in Times
  /\ \A c \in Times : c + Period <= MaxEnd => c + Period \in Times
  /\ \A t \in Times : t # None
  /\ None \notin 0 .. Horizon
  BY SubscriptionsAssumption DEF Times

Statuses == {"ABSENT", "PENDING", "ACTIVE", "SUSPENDED", "EXPIRED", "CANCELLED", "SUPERSEDED"}

LEMMA StatusWritten ==
  ASSUME NEW r \in SubRow, NEW status \in Statuses
  PROVE  LET n == [r EXCEPT !.status = status] IN
         n \in SubRow /\ n.status = status /\ n.source = r.source /\ n.end = r.end /\ n.paid = r.paid
  BY DEF SubRow, Statuses

LEMMA PaidWritten ==
  ASSUME NEW r \in SubRow, NEW t \in Time
  PROVE  LET n == [r EXCEPT !.paid = t] IN
         n \in SubRow /\ n.status = r.status /\ n.source = r.source /\ n.end = r.end /\ n.paid = t
  BY DEF SubRow

LEMMA PeriodWritten ==
  ASSUME NEW r \in SubRow, NEW t \in Time
  PROVE  LET n == [r EXCEPT !.status = "ACTIVE", !.end = t] IN
         n \in SubRow /\ n.status = "ACTIVE" /\ n.source = r.source /\ n.end = t /\ n.paid = r.paid
  BY DEF SubRow

LEMMA RenewalClosed ==
  ASSUME NEW r \in RenewalRow, NEW status \in {"PREPARED", "APPLIED", "BLOCKED"}
  PROVE  [r EXCEPT !.status = status] \in RenewalRow /\ [r EXCEPT !.status = status].status = status
  BY DEF RenewalRow

LEMMA RenewalMoved ==
  ASSUME NEW r \in RenewalRow
  PROVE  /\ \A dispatch \in {"open", "ordered"} :
              /\ [r EXCEPT !.dispatch = dispatch] \in RenewalRow
              /\ [r EXCEPT !.dispatch = dispatch].status = r.status
         /\ [r EXCEPT !.captured = TRUE] \in RenewalRow
         /\ [r EXCEPT !.captured = TRUE].status = r.status
  BY DEF RenewalRow

LEMMA Blank ==
  /\ NoSub \in SubRow /\ NoSub.status = "ABSENT" /\ NoSub.paid = None
  /\ NoRenewal \in RenewalRow /\ NoRenewal.status = "ABSENT"
  /\ NoAmendment \in Snapshot /\ NoAmendment.row = NoSub
  BY SubscriptionsAssumption
  DEF NoSub, SubRow, NoRenewal, RenewalRow, NoAmendment, Snapshot, Times, Time

\* What an assignment to one row does to the table
LEMMA WriteRow ==
  ASSUME TypeOK, NEW s \in Subs, NEW r \in SubRow, sub' = [sub EXCEPT ![s] = r]
  PROVE  /\ sub' \in [Subs -> SubRow] /\ sub'[s] = r
         /\ \A o \in Subs \ {s} : sub'[o] = sub[o]
  BY DEF TypeOK

LEMMA WriteStatus ==
  ASSUME TypeOK, NEW s \in Subs, NEW status \in Statuses, SetStatus(s, status)
  PROVE  /\ sub' \in [Subs -> SubRow]
         /\ sub'[s].status = status /\ sub'[s].end = sub[s].end /\ sub'[s].paid = sub[s].paid
         /\ \A o \in Subs \ {s} : sub'[o] = sub[o]
<1> DEFINE n == [sub[s] EXCEPT !.status = status]
<1>1. sub' = [sub EXCEPT ![s] = n]
  BY DEF SetStatus
<1>2. n \in SubRow /\ n.status = status /\ n.end = sub[s].end /\ n.paid = sub[s].paid
  BY StatusWritten DEF TypeOK
<1> HIDE DEF n
<1>3. QED
  BY <1>1, <1>2, WriteRow

LEMMA WriteRenewal ==
  ASSUME TypeOK, NEW s \in Subs, NEW c \in Times, NEW r \in RenewalRow, SetRenewal(s, c, r)
  PROVE  /\ renewal' \in [Subs \X Times -> RenewalRow] /\ renewal'[<<s, c>>] = r
         /\ \A o \in Subs, b \in Times : <<o, b>> # <<s, c>> => renewal'[<<o, b>>] = renewal[<<o, b>>]
  BY DEF TypeOK, SetRenewal

-----------------------------------------------------------------------------
(* Steps that write one subscription                                         *)

\* A row changes, and with it nothing that the invariant is about, unless no
\* other row is live and no renewal can wait for it.
LEMMA RowStepIInv ==
  ASSUME IInv, NEW s \in Subs,
         sub' \in [Subs -> SubRow], \A o \in Subs \ {s} : sub'[o] = sub[o],
         IsLive(s)' => IsLive(s) \/ NoOtherLive(s),
         sub'[s].end = sub[s].end \/ sub[s].status \in {"ABSENT", "PENDING"},
         sub'[s].status \in {"ABSENT", "PENDING"} => sub[s].status \in {"ABSENT", "PENDING"},
         sub'[s].paid # None => sub'[s].paid \in 0 .. Horizon,
         trial' \in Time,
         UNCHANGED <<now, renewal, amendment>>
  PROVE  IInv'
<1> USE DEF IInv
<1>1. TypeOK'
  BY DEF TypeOK
<1>2. \A o \in Subs \ {s} : IsLive(o)' = IsLive(o)
  BY DEF IsLive
<1>3. OneLive'
  BY <1>2 DEF OneLive, NoOtherLive
<1>4. BoundaryHolds' /\ PreparedOnActivated'
  BY DEF BoundaryHolds, PreparedOnActivated
<1>5. AmendmentsOfLive' /\ PaidInTime'
  BY DEF AmendmentsOfLive, PaidInTime
<1>6. QED
  BY <1>1, <1>3, <1>4, <1>5

LEMMA StatusStepIInv ==
  ASSUME IInv, NEW s \in Subs, NEW status \in Statuses \ {"ABSENT", "PENDING"}, SetStatus(s, status),
         status \in Live => IsLive(s) \/ NoOtherLive(s),
         UNCHANGED <<now, renewal, trial, amendment>>
  PROVE  IInv'
<1>1. TypeOK /\ PaidInTime
  BY DEF IInv
<1>2. /\ sub' \in [Subs -> SubRow]
      /\ sub'[s].status = status /\ sub'[s].end = sub[s].end /\ sub'[s].paid = sub[s].paid
      /\ \A o \in Subs \ {s} : sub'[o] = sub[o]
  BY <1>1, WriteStatus
<1>3. /\ IsLive(s)' => status \in Live
      /\ sub'[s].status \notin {"ABSENT", "PENDING"}
      /\ sub'[s].paid # None => sub'[s].paid \in 0 .. Horizon
      /\ trial' \in Time
  BY <1>1, <1>2 DEF IsLive, PaidInTime, TypeOK
<1>4. QED
  BY <1>2, <1>3, RowStepIInv

LEMMA CreateIInv ==
  ASSUME IInv, NEW s \in Subs, NEW source \in {"PAYMENT", "OTHER"}, NEW end \in {None, Period},
         Create(s, source, end)
  PROVE  IInv'
<1> DEFINE r == [status |-> "PENDING", source |-> source, end |-> end, paid |-> None]
<1>1. r \in SubRow /\ r.status = "PENDING" /\ r.paid = None
  BY TimeFacts DEF SubRow, Time
<1>2. sub' = [sub EXCEPT ![s] = r] /\ sub[s].status = "ABSENT" /\ UNCHANGED <<now, renewal, trial, amendment>>
  BY DEF Create
<1> HIDE DEF r
<1>3. /\ sub' \in [Subs -> SubRow] /\ sub'[s] = r
      /\ \A o \in Subs \ {s} : sub'[o] = sub[o]
  BY <1>1, <1>2, WriteRow DEF IInv
<1>4. ~ IsLive(s)' /\ trial' \in Time
  BY <1>1, <1>2, <1>3 DEF IsLive, Live, IInv, TypeOK
<1>5. QED
  BY <1>1, <1>2, <1>3, <1>4, RowStepIInv

LEMMA CaptureActivationIInv ==
  ASSUME IInv, NEW s \in Subs, CaptureActivation(s)
  PROVE  IInv'
<1> DEFINE r == [sub[s] EXCEPT !.paid = now]
<1>1. now \in 0 .. Horizon /\ now \in Time /\ sub[s] \in SubRow /\ trial \in Time /\ TypeOK
  BY TimeFacts DEF IInv, TypeOK, Time
<1>2. r \in SubRow /\ r.status = sub[s].status /\ r.end = sub[s].end /\ r.paid = now
  BY <1>1, PaidWritten
<1>3. /\ sub' = [sub EXCEPT ![s] = r] /\ sub[s].status = "PENDING"
      /\ UNCHANGED <<now, renewal, trial, amendment>>
  BY DEF CaptureActivation
<1> HIDE DEF r
<1>4. /\ sub' \in [Subs -> SubRow] /\ sub'[s] = r
      /\ \A o \in Subs \ {s} : sub'[o] = sub[o]
  BY <1>1, <1>2, <1>3, WriteRow
<1>5. ~ IsLive(s)'
  BY <1>2, <1>3, <1>4 DEF IsLive, Live
<1>6. QED
  BY <1>1, <1>2, <1>3, <1>4, <1>5, RowStepIInv

LEMMA ActivatePaidIInv ==
  ASSUME IInv, NEW s \in Subs, ActivatePaid(s)
  PROVE  IInv'
<1> DEFINE end == sub[s].paid + Period
           r == [sub[s] EXCEPT !.status = "ACTIVE", !.end = end]
<1>1. TypeOK /\ sub[s] \in SubRow
  BY DEF IInv, TypeOK
<1>2. /\ sub[s].status = "PENDING" /\ sub[s].paid # None /\ NoOtherLive(s)
      /\ sub' = [sub EXCEPT ![s] = r]
      /\ UNCHANGED <<now, renewal, amendment>>
  BY DEF ActivatePaid
<1>3. sub[s].paid \in 0 .. Horizon
  BY <1>2 DEF IInv, PaidInTime
<1>4. end \in Time
  BY <1>3, TimeFacts DEF Time
<1>5. trial' \in Time
  BY <1>1 DEF ActivatePaid, TypeOK, Time
<1> HIDE DEF end
<1>6. r \in SubRow /\ r.status = "ACTIVE" /\ r.paid = sub[s].paid
  BY <1>1, <1>4, PeriodWritten
<1> HIDE DEF r
<1>7. /\ sub' \in [Subs -> SubRow] /\ sub'[s] = r
      /\ \A o \in Subs \ {s} : sub'[o] = sub[o]
  BY <1>1, <1>2, <1>6, WriteRow
<1>8. QED
  BY <1>2, <1>3, <1>5, <1>6, <1>7, RowStepIInv

LEMMA ConvertTrialIInv ==
  ASSUME IInv, NEW s \in Subs, ConvertTrial(s)
  PROVE  IInv'
<1> DEFINE r == [NoSub EXCEPT !.status = "ACTIVE"]
<1>1. r \in SubRow /\ r.status = "ACTIVE" /\ r.paid = None
  BY Blank, StatusWritten DEF Statuses
<1>2. /\ sub[s].status = "ABSENT" /\ NoOtherLive(s)
      /\ sub' = [sub EXCEPT ![s] = r] /\ trial' = None
      /\ UNCHANGED <<now, renewal, amendment>>
  BY DEF ConvertTrial
<1> HIDE DEF r
<1>3. /\ sub' \in [Subs -> SubRow] /\ sub'[s] = r
      /\ \A o \in Subs \ {s} : sub'[o] = sub[o]
  BY <1>1, <1>2, WriteRow DEF IInv
<1>4. trial' \in Time
  BY <1>2 DEF Time
<1>5. QED
  BY <1>1, <1>2, <1>3, <1>4, RowStepIInv

-----------------------------------------------------------------------------
(* Steps that write a renewal                                                *)

LEMMA RenewalStepIInv ==
  ASSUME IInv, NEW s \in Subs, NEW c \in Times, NEW r \in RenewalRow, SetRenewal(s, c, r),
         r.status = "PREPARED" =>
           /\ sub[s].end = c /\ sub[s].status \notin {"ABSENT", "PENDING"}
           /\ c + Period <= MaxEnd,
         UNCHANGED <<now, sub, trial, amendment>>
  PROVE  IInv'
<1> USE DEF IInv
<1>1. /\ renewal' \in [Subs \X Times -> RenewalRow] /\ renewal'[<<s, c>>] = r
      /\ \A o \in Subs, b \in Times : <<o, b>> # <<s, c>> => renewal'[<<o, b>>] = renewal[<<o, b>>]
  BY WriteRenewal
<1>2. TypeOK'
  BY <1>1 DEF TypeOK
<1>3. OneLive' /\ AmendmentsOfLive' /\ PaidInTime'
  BY DEF OneLive, IsLive, AmendmentsOfLive, PaidInTime
<1>4. ASSUME NEW o \in Subs, NEW b \in Times, renewal'[<<o, b>>].status = "PREPARED"
      PROVE  /\ sub'[o].end = b /\ sub'[o].status \notin {"ABSENT", "PENDING"}
             /\ b + Period <= MaxEnd
  <2>1. CASE <<o, b>> = <<s, c>>
    BY <1>1, <1>4, <2>1
  <2>2. CASE <<o, b>> # <<s, c>>
    BY <1>1, <1>4, <2>2 DEF BoundaryHolds, PreparedOnActivated
  <2>3. QED
    BY <2>1, <2>2
<1>5. BoundaryHolds' /\ PreparedOnActivated'
  BY <1>4 DEF BoundaryHolds, PreparedOnActivated
<1>6. QED
  BY <1>2, <1>3, <1>5

LEMMA ApplyRenewalIInv ==
  ASSUME IInv, NEW s \in Subs, NEW c \in Times, ApplyRenewal(s, c)
  PROVE  IInv'
<1> USE DEF IInv
<1> DEFINE q == [renewal[<<s, c>>] EXCEPT !.status = "APPLIED"]
           r == [sub[s] EXCEPT !.status = "ACTIVE", !.end = c + Period]
<1>1. TypeOK /\ sub[s] \in SubRow /\ renewal[<<s, c>>] \in RenewalRow
  BY DEF TypeOK
<1>2. /\ renewal[<<s, c>>].status = "PREPARED" /\ sub[s].end = c /\ NoOtherLive(s)
      /\ sub' = [sub EXCEPT ![s] = r] /\ SetRenewal(s, c, q)
      /\ UNCHANGED <<now, trial, amendment>>
  BY DEF ApplyRenewal, ApplyRefused
<1>3. c + Period \in Time
  BY <1>2, TimeFacts DEF PreparedOnActivated, Time
<1>4. q \in RenewalRow /\ q.status = "APPLIED"
  BY <1>1, RenewalClosed
<1>5. r \in SubRow /\ r.status = "ACTIVE" /\ r.paid = sub[s].paid
  BY <1>1, <1>3, PeriodWritten
<1> HIDE DEF q, r
<1>6. /\ sub' \in [Subs -> SubRow] /\ sub'[s] = r
      /\ \A o \in Subs \ {s} : sub'[o] = sub[o]
  BY <1>1, <1>2, <1>5, WriteRow
<1>7. /\ renewal' \in [Subs \X Times -> RenewalRow] /\ renewal'[<<s, c>>] = q
      /\ \A o \in Subs, b \in Times : <<o, b>> # <<s, c>> => renewal'[<<o, b>>] = renewal[<<o, b>>]
  BY <1>1, <1>2, <1>4, WriteRenewal
<1>8. TypeOK'
  BY <1>1, <1>2, <1>6, <1>7 DEF TypeOK
<1>9. OneLive'
  BY <1>2, <1>6 DEF OneLive, NoOtherLive, IsLive
<1>10. \A o \in Subs, b \in Times : renewal'[<<o, b>>].status = "PREPARED" =>
         o # s /\ renewal[<<o, b>>].status = "PREPARED"
  <2> SUFFICES ASSUME NEW o \in Subs, NEW b \in Times, renewal'[<<o, b>>].status = "PREPARED"
               PROVE  o # s /\ renewal[<<o, b>>].status = "PREPARED"
    OBVIOUS
  <2>1. <<o, b>> # <<s, c>>
    BY <1>4, <1>7
  <2>2. renewal[<<o, b>>].status = "PREPARED"
    BY <1>7, <2>1
  <2>3. o = s => b = c
    BY <1>2, <2>2 DEF BoundaryHolds
  <2>4. QED
    BY <2>1, <2>2, <2>3
<1>11. BoundaryHolds' /\ PreparedOnActivated'
  BY <1>6, <1>10 DEF BoundaryHolds, PreparedOnActivated
<1>12. AmendmentsOfLive' /\ PaidInTime'
  BY <1>2, <1>5, <1>6 DEF AmendmentsOfLive, PaidInTime
<1>13. QED
  BY <1>8, <1>9, <1>11, <1>12

-----------------------------------------------------------------------------
(* Amendments                                                                *)

LEMMA BeginAmendIInv ==
  ASSUME IInv, NEW a \in Admins, NEW s \in Subs, BeginAmend(a, s)
  PROVE  IInv'
<1> USE DEF IInv
<1> DEFINE m == [source |-> s, row |-> sub[s], at |-> now]
<1>1. TypeOK /\ sub[s] \in SubRow /\ sub[s].status \in Live /\ now \in Times
  BY TimeFacts DEF TypeOK, BeginAmend, IsLive
<1>2. m \in Snapshot /\ m.source = s /\ m.row = sub[s]
  BY <1>1 DEF Snapshot
<1>3. amendment' = [amendment EXCEPT ![a] = m] /\ UNCHANGED <<now, sub, renewal, trial>>
  BY DEF BeginAmend
<1> HIDE DEF m
<1>4. /\ amendment' \in [Admins -> Snapshot] /\ amendment'[a] = m
      /\ \A b \in Admins \ {a} : amendment'[b] = amendment[b]
  BY <1>1, <1>2, <1>3 DEF TypeOK
<1>5. TypeOK'
  BY <1>1, <1>3, <1>4 DEF TypeOK
<1>6. OneLive' /\ BoundaryHolds' /\ PreparedOnActivated'
  BY <1>3 DEF OneLive, IsLive, BoundaryHolds, PreparedOnActivated
<1>7. AmendmentsOfLive' /\ PaidInTime'
  BY <1>1, <1>2, <1>3, <1>4 DEF AmendmentsOfLive, PaidInTime
<1>8. QED
  BY <1>5, <1>6, <1>7

\* What an amendment leaves of itself
LEMMA AmendmentGone ==
  ASSUME IInv, NEW a \in Admins, amendment' = [amendment EXCEPT ![a] = NoAmendment]
  PROVE  /\ amendment' \in [Admins -> Snapshot]
         /\ AmendmentsOfLive'
         /\ \A b \in Admins : amendment'[b].row.paid # None => amendment'[b].row.paid \in 0 .. Horizon
<1>1. /\ amendment' \in [Admins -> Snapshot] /\ amendment'[a] = NoAmendment
      /\ \A b \in Admins \ {a} : amendment'[b] = amendment[b]
  BY Blank DEF IInv, TypeOK
<1>2. AmendmentsOfLive'
  BY <1>1 DEF IInv, AmendmentsOfLive
<1>3. NoAmendment.row.paid = None
  BY Blank
<1>4. QED
  BY <1>1, <1>2, <1>3 DEF IInv, PaidInTime

LEMMA AbandonAmendIInv ==
  ASSUME IInv, NEW a \in Admins, AbandonAmend(a)
  PROVE  IInv'
<1> USE DEF IInv
<1>1. amendment' = [amendment EXCEPT ![a] = NoAmendment] /\ UNCHANGED <<now, sub, renewal, trial>>
  BY DEF AbandonAmend
<1>2. TypeOK' /\ AmendmentsOfLive' /\ PaidInTime'
  BY <1>1, AmendmentGone DEF TypeOK, PaidInTime
<1>3. OneLive' /\ BoundaryHolds' /\ PreparedOnActivated'
  BY <1>1 DEF OneLive, IsLive, BoundaryHolds, PreparedOnActivated
<1>4. QED
  BY <1>2, <1>3

\* The source is superseded by a row that copies what was read of it.
LEMMA AmendIInv ==
  ASSUME IInv, NEW a \in Admins, NEW t \in Subs, Amend(a, t)
  PROVE  IInv'
<1> USE DEF IInv
<1> DEFINE s == amendment[a].source
           old == [sub[s] EXCEPT !.status = "SUPERSEDED"]
           new == [amendment[a].row EXCEPT !.paid = None]
<1>1. TypeOK /\ s \in Subs /\ amendment[a].row \in SubRow /\ amendment[a].row.status \in Live
  BY DEF Amend, AmendmentsOfLive, TypeOK, Snapshot
<1>2. /\ sub[s].status = amendment[a].row.status /\ NoOtherLive(s) /\ sub[t].status = "ABSENT"
      /\ sub' = [sub EXCEPT ![s].status = "SUPERSEDED", ![t] = new]
      /\ amendment' = [amendment EXCEPT ![a] = NoAmendment]
      /\ UNCHANGED <<now, renewal, trial>>
  BY DEF Amend, AmendPermitted, Successor
<1>3. s # t /\ IsLive(s)
  BY <1>1, <1>2 DEF IsLive, Live
<1>4. old \in SubRow /\ old.status = "SUPERSEDED" /\ old.end = sub[s].end /\ old.paid = sub[s].paid
  BY <1>1, StatusWritten DEF TypeOK, Statuses
<1>5. new \in SubRow /\ new.paid = None
  BY <1>1, PaidWritten DEF Time
<1>6. sub' = [sub EXCEPT ![s] = old, ![t] = new]
  BY <1>2
<1> HIDE DEF s, old, new
<1>7. /\ sub' \in [Subs -> SubRow] /\ sub'[s] = old /\ sub'[t] = new
      /\ \A o \in Subs \ {s, t} : sub'[o] = sub[o]
  BY <1>1, <1>3, <1>4, <1>5, <1>6 DEF TypeOK
<1>8. TypeOK' /\ AmendmentsOfLive' /\ PaidInTime'
  BY <1>1, <1>2, <1>4, <1>5, <1>7, AmendmentGone DEF TypeOK, PaidInTime
<1>9. \A o \in Subs : IsLive(o)' => o = t
  BY <1>2, <1>4, <1>7 DEF IsLive, Live, NoOtherLive
<1>10. OneLive'
  BY <1>9 DEF OneLive
<1>11. \A o \in Subs, b \in Times : renewal'[<<o, b>>].status = "PREPARED" =>
         /\ sub'[o].end = sub[o].end
         /\ sub'[o].status \notin {"ABSENT", "PENDING"}
  BY <1>2, <1>4, <1>7 DEF PreparedOnActivated
<1>12. BoundaryHolds' /\ PreparedOnActivated'
  BY <1>2, <1>11 DEF BoundaryHolds, PreparedOnActivated
<1>13. QED
  BY <1>8, <1>10, <1>12

-----------------------------------------------------------------------------
(* Every step preserves the invariant                                        *)

LEMMA InitIInv == Init => IInv
<1> SUFFICES ASSUME Init PROVE IInv
  OBVIOUS
<1>1. TypeOK
  BY Blank, TimeFacts, SubscriptionsAssumption DEF Init, TypeOK, Time
<1>2. \A s \in Subs : sub[s] = NoSub /\ ~ IsLive(s)
  BY Blank DEF Init, IsLive, Live
<1>3. \A k \in Subs \X Times : renewal[k].status = "ABSENT"
  BY Blank DEF Init
<1>4. OneLive /\ BoundaryHolds /\ PreparedOnActivated
  BY <1>2, <1>3 DEF OneLive, BoundaryHolds, PreparedOnActivated
<1>5. AmendmentsOfLive /\ PaidInTime
  BY <1>2, Blank DEF Init, AmendmentsOfLive, PaidInTime
<1>6. QED
  BY <1>1, <1>4, <1>5 DEF IInv

LEMMA ClockAndTrialIInv ==
  ASSUME IInv, now' \in 0 .. Horizon, trial' \in Time, UNCHANGED <<sub, renewal, amendment>>
  PROVE  IInv'
<1> USE DEF IInv
<1>1. TypeOK'
  BY DEF TypeOK
<1>2. OneLive' /\ BoundaryHolds' /\ PreparedOnActivated'
  BY DEF OneLive, IsLive, BoundaryHolds, PreparedOnActivated
<1>3. AmendmentsOfLive' /\ PaidInTime'
  BY DEF AmendmentsOfLive, PaidInTime
<1>4. QED
  BY <1>1, <1>2, <1>3

LEMMA TickAndTrialStepIInv ==
  ASSUME IInv, Tick \/ TrialStep
  PROVE  IInv'
<1>1. now \in 0 .. Horizon /\ trial \in Time
  BY DEF IInv, TypeOK
<1>2. CASE Tick
  <2>1. now' \in 0 .. Horizon
    BY <1>1, <1>2, SubscriptionsAssumption DEF Tick
  <2>2. QED
    BY <1>1, <1>2, <2>1, ClockAndTrialIInv DEF Tick
<1>3. CASE TrialStep
  <2>1. trial' \in Time
    BY <1>3, TimeFacts DEF TrialStep, EndTrial, StartTrial, ExtendTrial, Time
  <2>2. UNCHANGED <<now, sub, renewal, amendment>>
    BY <1>3 DEF TrialStep, EndTrial, StartTrial, ExtendTrial
  <2>3. QED
    BY <1>1, <2>1, <2>2, ClockAndTrialIInv
<1>4. QED
  BY <1>2, <1>3

LEMMA PrepareRenewalIInv ==
  ASSUME IInv, NEW s \in Subs, PrepareRenewal(s)
  PROVE  IInv'
<1> DEFINE c == sub[s].end
           r == [NoRenewal EXCEPT !.status = "PREPARED", !.created = now]
<1>1. now \in Times /\ c \in Times
  BY TimeFacts DEF PrepareRenewal, IInv, TypeOK, SubRow, Time
<1>2. r \in RenewalRow /\ r.status = "PREPARED"
  BY <1>1 DEF NoRenewal, RenewalRow
<1>3. /\ SetRenewal(s, c, r) /\ sub[s].status = "ACTIVE" /\ c + Period <= MaxEnd
      /\ UNCHANGED <<now, sub, trial, amendment>>
  BY DEF PrepareRenewal
<1>4. sub[s].end = c
  OBVIOUS
<1> HIDE DEF c, r
<1>5. QED
  BY <1>1, <1>2, <1>3, <1>4, RenewalStepIInv

LEMMA SubStepIInv ==
  ASSUME IInv, NEW s \in Subs, SubStep(s)
  PROVE  IInv'
<1>1. CASE \E source \in {"PAYMENT", "OTHER"}, end \in {None, Period} : Create(s, source, end)
  BY <1>1, CreateIInv
<1>2. CASE Activate(s)
  BY <1>2, StatusStepIInv DEF Activate, Statuses
<1>3. CASE CaptureActivation(s)
  BY <1>3, CaptureActivationIInv
<1>4. CASE ActivatePaid(s)
  BY <1>4, ActivatePaidIInv
<1>5. CASE Suspend(s)
  <2>1. IsLive(s)
    BY <1>5 DEF Suspend, IsLive, Live
  <2>2. QED
    BY <1>5, <2>1, StatusStepIInv DEF Suspend, Statuses
<1>6. CASE Resume(s)
  BY <1>6, StatusStepIInv DEF Resume, Statuses
<1>7. CASE Cancel(s)
  BY <1>7, StatusStepIInv DEF Cancel, Statuses, Live
<1>8. CASE Expire(s)
  BY <1>8, StatusStepIInv DEF Expire, Statuses, Live
<1>9. CASE PrepareRenewal(s)
  BY <1>9, PrepareRenewalIInv
<1>10. CASE ConvertTrial(s)
  BY <1>10, ConvertTrialIInv
<1>11. QED
  BY <1>1, <1>2, <1>3, <1>4, <1>5, <1>6, <1>7, <1>8, <1>9, <1>10 DEF SubStep

LEMMA RenewalStepsIInv ==
  ASSUME IInv, NEW s \in Subs, NEW c \in Times, RenewalStep(s, c)
  PROVE  IInv'
<1> DEFINE q == renewal[<<s, c>>]
<1>1. q \in RenewalRow
  BY DEF IInv, TypeOK
<1>2. q.status = "PREPARED" =>
        /\ sub[s].end = c /\ sub[s].status \notin {"ABSENT", "PENDING"}
        /\ c + Period <= MaxEnd
  BY DEF IInv, BoundaryHolds, PreparedOnActivated
<1>3. CASE OpenDispatch(s, c)
  <2> DEFINE r == [q EXCEPT !.dispatch = "open"]
  <2>1. r \in RenewalRow /\ r.status = q.status
    BY <1>1, RenewalMoved
  <2>2. SetRenewal(s, c, r) /\ UNCHANGED <<now, sub, trial, amendment>>
    BY <1>3 DEF OpenDispatch
  <2> HIDE DEF q, r
  <2>3. QED
    BY <1>2, <2>1, <2>2, RenewalStepIInv
<1>4. CASE RecordRenewalOrder(s, c)
  <2> DEFINE r == [q EXCEPT !.dispatch = "ordered"]
  <2>1. r \in RenewalRow /\ r.status = q.status
    BY <1>1, RenewalMoved
  <2>2. SetRenewal(s, c, r) /\ UNCHANGED <<now, sub, trial, amendment>>
    BY <1>4 DEF RecordRenewalOrder
  <2> HIDE DEF q, r
  <2>3. QED
    BY <1>2, <2>1, <2>2, RenewalStepIInv
<1>5. CASE CaptureRenewal(s, c)
  <2> DEFINE r == [q EXCEPT !.captured = TRUE]
  <2>1. r \in RenewalRow /\ r.status = q.status
    BY <1>1, RenewalMoved
  <2>2. SetRenewal(s, c, r) /\ UNCHANGED <<now, sub, trial, amendment>>
    BY <1>5 DEF CaptureRenewal
  <2> HIDE DEF q, r
  <2>3. QED
    BY <1>2, <2>1, <2>2, RenewalStepIInv
<1>6. CASE BlockRenewal(s, c)
  <2> DEFINE r == [q EXCEPT !.status = "BLOCKED"]
  <2>1. r \in RenewalRow /\ r.status = "BLOCKED"
    BY <1>1, RenewalClosed
  <2>2. SetRenewal(s, c, r) /\ UNCHANGED <<now, sub, trial, amendment>>
    BY <1>6 DEF BlockRenewal
  <2> HIDE DEF q, r
  <2>3. QED
    BY <2>1, <2>2, RenewalStepIInv
<1>7. QED
  BY <1>3, <1>4, <1>5, <1>6, ApplyRenewalIInv DEF RenewalStep

LEMMA NextIInv ==
  ASSUME IInv, [Next]_vars
  PROVE  IInv'
<1>1. CASE UNCHANGED vars
  <2>1. now' \in 0 .. Horizon /\ trial' \in Time /\ UNCHANGED <<sub, renewal, amendment>>
    BY <1>1 DEF vars, IInv, TypeOK
  <2>2. QED
    BY <2>1, ClockAndTrialIInv
<1>2. ASSUME NEW a \in Admins, AmendStep(a) PROVE IInv'
  BY <1>2, AbandonAmendIInv, BeginAmendIInv, AmendIInv DEF AmendStep
<1>3. CASE Next
  BY <1>2, <1>3, TickAndTrialStepIInv, SubStepIInv, RenewalStepsIInv DEF Next
<1>4. QED
  BY <1>1, <1>3

-----------------------------------------------------------------------------
(* The theorems                                                              *)

THEOREM Invariance == Spec => []IInv
<1>1. Init => IInv
  BY InitIInv
<1>2. IInv /\ [Next]_vars => IInv'
  BY NextIInv
<1>3. QED
  BY <1>1, <1>2, PTL DEF Spec

\* Every variable keeps its type; in particular the period that a late
\* activation grants, from the capture on, and the one that apply() grants from
\* the boundary on are periods a row can hold.
THEOREM TypeCorrect == Spec => []TypeOK
<1>1. IInv => TypeOK
  BY DEF IInv
<1>2. QED
  BY <1>1, Invariance, PTL

\* A company has at most one live subscription, however many rows it has and
\* however create, activate, resume, amend, convert and apply() follow each other
\* under the Company lock: none of them relies on the unique index.
THEOREM OneIsLive == Spec => []OneLive
<1>1. IInv => OneLive
  BY DEF IInv
<1>2. QED
  BY <1>1, Invariance, PTL

\* A renewal that is not yet applied starts where its subscription's period
\* ends, so apply() never blocks a captured renewal for its boundary.
THEOREM BoundaryKept == Spec => []BoundaryHolds
<1>1. IInv => BoundaryHolds
  BY DEF IInv
<1>2. QED
  BY <1>1, Invariance, PTL

\* A subscription becomes live beside a running Trial, or a Trial beside a live
\* subscription, in one way only: apply() revives an EXPIRED row.  start(),
\* activate(), resume(), amend() and convert() look for the other or end it.
THEOREM OnlyLateRenewalsJoin == Spec => OnlyLateRenewalJoinsTrial
<1> DEFINE Revived == \E s \in Subs : sub[s].status = "EXPIRED" /\ sub'[s].status = "ACTIVE"
           Excluded == ~ TrialBesideLive /\ TrialBesideLive' => Revived
<1>1. ASSUME IInv, Next, ~ TrialBesideLive, TrialBesideLive'
      PROVE  Revived
  <2>1. TypeOK
    BY <1>1 DEF IInv
  <2>2. PICK s \in Subs : IsLive(s)'
    BY <1>1 DEF TrialBesideLive
  <2>3. trial' # None /\ trial' > now'
    BY <1>1 DEF TrialBesideLive, EffectiveTrial
  <2>4. EffectiveTrial => \A o \in Subs : ~ IsLive(o)
    BY <1>1 DEF TrialBesideLive
  <2>5. trial' = trial /\ now' = now => EffectiveTrial
    BY <2>3 DEF EffectiveTrial
  <2>6. CASE Tick
    <3>1. trial \in Times /\ now \in 0 .. Horizon /\ trial > now + 1
      BY <2>1, <2>3, <2>6 DEF Tick, TypeOK, Time
    <3>2. trial > now
      BY <3>1 DEF Times
    <3>3. EffectiveTrial /\ IsLive(s)
      BY <2>2, <2>3, <2>6, <3>2 DEF Tick, EffectiveTrial, IsLive
    <3>4. QED
      BY <2>4, <3>3
  <2>7. CASE TrialStep
    BY <2>2, <2>3, <2>4, <2>7 DEF TrialStep, EndTrial, StartTrial, ExtendTrial, IsLive
  <2>8. ASSUME NEW x \in Subs, SubStep(x) PROVE Revived
    <3>1. CASE \E source \in {"PAYMENT", "OTHER"}, end \in {None, Period} : Create(x, source, end)
      BY <2>1, <2>2, <2>4, <2>5, <3>1 DEF Create, IsLive, Live, TypeOK
    <3>2. CASE Activate(x) \/ Resume(x)
      BY <2>5, <3>2 DEF Activate, Resume
    <3>3. CASE ActivatePaid(x) \/ ConvertTrial(x)
      BY <2>3, <3>3 DEF ActivatePaid, ConvertTrial, EffectiveTrial
    <3>4. CASE CaptureActivation(x) \/ PrepareRenewal(x)
      <4>1. sub'[s].status = sub[s].status /\ trial' = trial /\ now' = now
        BY <2>1, <3>4 DEF CaptureActivation, PrepareRenewal, TypeOK, SubRow
      <4>2. QED
        BY <2>2, <2>4, <2>5, <4>1 DEF IsLive
    <3>5. CASE Suspend(x) \/ Cancel(x) \/ Expire(x)
      <4>1. PICK status \in Statuses : SetStatus(x, status) /\ (status \in Live => IsLive(x))
        BY <3>5 DEF Suspend, Cancel, Expire, Statuses, IsLive, Live
      <4>2. sub'[x].status = status /\ \A o \in Subs \ {x} : sub'[o] = sub[o]
        BY <2>1, <4>1, WriteStatus
      <4>3. IsLive(s)
        BY <2>2, <4>1, <4>2 DEF IsLive
      <4>4. QED
        BY <2>4, <2>5, <3>5, <4>3 DEF Suspend, Cancel, Expire
    <3>6. QED
      BY <2>8, <3>1, <3>2, <3>3, <3>4, <3>5 DEF SubStep
  <2>9. ASSUME NEW x \in Subs, NEW c \in Times, RenewalStep(x, c) PROVE Revived
    <3>1. now' = now /\ trial' = trial
      BY <2>9 DEF RenewalStep, OpenDispatch, RecordRenewalOrder, CaptureRenewal, ApplyRenewal, BlockRenewal
    <3>2. ~ IsLive(x) /\ ~ IsLive(s)
      BY <2>4, <2>5, <3>1
    <3>3. sub' # sub
      BY <2>2, <3>2 DEF IsLive
    <3>4. ApplyRenewal(x, c)
      BY <2>9, <3>3 DEF RenewalStep, OpenDispatch, RecordRenewalOrder, CaptureRenewal, BlockRenewal
    <3>5. sub[x].status = "EXPIRED"
      BY <3>2, <3>4 DEF ApplyRenewal, ApplyRefused, IsLive, Live
    <3>6. sub'[x].status = "ACTIVE"
      BY <2>1, <3>4 DEF ApplyRenewal, TypeOK, SubRow
    <3>7. QED
      BY <3>5, <3>6
  <2>10. ASSUME NEW a \in Admins, AmendStep(a) PROVE Revived
    <3>1. now' = now /\ trial' = trial
      BY <2>10 DEF AmendStep, AbandonAmend, BeginAmend, Amend
    <3>2. ~ IsLive(s) /\ EffectiveTrial
      BY <2>4, <2>5, <3>1
    <3>3. sub' # sub
      BY <2>2, <3>2 DEF IsLive
    <3>4. QED
      BY <2>10, <3>2, <3>3 DEF AmendStep, AbandonAmend, BeginAmend, Amend, AmendPermitted
  <2>11. QED
    BY <1>1, <2>6, <2>7, <2>8, <2>9, <2>10 DEF Next
<1>2. ASSUME UNCHANGED vars PROVE Excluded
  BY <1>2 DEF vars, TrialBesideLive, EffectiveTrial, IsLive
<1>3. IInv /\ [Next]_vars => Excluded
  BY <1>1, <1>2
<1>4. QED
  BY <1>3, Invariance, PTL DEF Spec, OnlyLateRenewalJoinsTrial

-----------------------------------------------------------------------------
(* The history of applied renewals                                           *)

Applied(s, c) == renewal[<<s, c>>].status = "APPLIED"

\* Only a row that has been activated was renewed.
AppliedOnActivated ==
  \A s \in Subs, c \in Times : Applied(s, c) => sub[s].status \notin {"ABSENT", "PENDING"}

\* ... and its later cycles fit, which does not depend on the status.
AppliedFits ==
  \A s \in Subs, c \in Times : Applied(s, c) => HistoryFits(s, c)

History == AppliedOnActivated /\ AppliedFits

LEMMA RenewalWritten ==
  ASSUME TypeOK, NEW s \in Subs, NEW c \in Times, NEW r \in RenewalRow, SetRenewal(s, c, r),
         r.status = "APPLIED" <=> Applied(s, c)
  PROVE  \A o \in Subs, b \in Times : Applied(o, b)' <=> Applied(o, b)
<1> SUFFICES ASSUME NEW o \in Subs, NEW b \in Times
             PROVE  Applied(o, b)' <=> Applied(o, b)
  OBVIOUS
<1>1. CASE <<o, b>> = <<s, c>>
  BY <1>1, WriteRenewal DEF Applied
<1>2. CASE <<o, b>> # <<s, c>>
  BY <1>2, WriteRenewal DEF Applied
<1>3. QED
  BY <1>1, <1>2

\* Nothing but apply() adds to a history, and nothing takes from it.
LEMMA OnlyApplyRenews ==
  ASSUME IInv, [Next]_vars, ~ \E s \in Subs, c \in Times : ApplyRenewal(s, c)
  PROVE  \A o \in Subs, b \in Times : Applied(o, b)' <=> Applied(o, b)
<1> DEFINE Kept == \A o \in Subs, b \in Times : Applied(o, b)' <=> Applied(o, b)
<1>0. TypeOK
  BY DEF IInv
<1>1. CASE renewal' = renewal
  BY <1>1 DEF Applied
<1>2. ASSUME NEW s \in Subs, PrepareRenewal(s)
      PROVE  Kept
  <2> DEFINE c == sub[s].end
             r == [NoRenewal EXCEPT !.status = "PREPARED", !.created = now]
  <2>1. now \in Times /\ c \in Times
    BY <1>0, <1>2, TimeFacts DEF PrepareRenewal, TypeOK, SubRow, Time
  <2>2. r \in RenewalRow /\ r.status = "PREPARED"
    BY <2>1 DEF NoRenewal, RenewalRow
  <2>3. SetRenewal(s, c, r) /\ ~ Applied(s, c)
    BY <1>2 DEF PrepareRenewal, Applied
  <2> HIDE DEF r, Kept
  <2>4. PICK b \in Times : b = c
    BY <2>1
  <2>5. \A o \in Subs, d \in Times : Applied(o, d)' <=> Applied(o, d)
    BY <1>0, <2>2, <2>3, <2>4, RenewalWritten DEF SetRenewal, Applied
  <2>6. QED
    BY <2>5 DEF Kept
<1>3. ASSUME NEW s \in Subs, NEW c \in Times, RenewalStep(s, c)
      PROVE  Kept
  <2> DEFINE q == renewal[<<s, c>>]
  <2>1. q \in RenewalRow
    BY <1>0 DEF TypeOK
  <2>2. CASE OpenDispatch(s, c)
    <3> DEFINE r == [q EXCEPT !.dispatch = "open"]
    <3>1. r \in RenewalRow /\ r.status = q.status
      BY <2>1, RenewalMoved
    <3>2. SetRenewal(s, c, r)
      BY <2>2 DEF OpenDispatch
    <3> HIDE DEF r
    <3>3. QED
      BY <1>0, <3>1, <3>2, RenewalWritten DEF Applied
  <2>3. CASE RecordRenewalOrder(s, c)
    <3> DEFINE r == [q EXCEPT !.dispatch = "ordered"]
    <3>1. r \in RenewalRow /\ r.status = q.status
      BY <2>1, RenewalMoved
    <3>2. SetRenewal(s, c, r)
      BY <2>3 DEF RecordRenewalOrder
    <3> HIDE DEF r
    <3>3. QED
      BY <1>0, <3>1, <3>2, RenewalWritten DEF Applied
  <2>4. CASE CaptureRenewal(s, c)
    <3> DEFINE r == [q EXCEPT !.captured = TRUE]
    <3>1. r \in RenewalRow /\ r.status = q.status
      BY <2>1, RenewalMoved
    <3>2. SetRenewal(s, c, r)
      BY <2>4 DEF CaptureRenewal
    <3> HIDE DEF r
    <3>3. QED
      BY <1>0, <3>1, <3>2, RenewalWritten DEF Applied
  <2>5. CASE BlockRenewal(s, c)
    <3> DEFINE r == [q EXCEPT !.status = "BLOCKED"]
    <3>1. r \in RenewalRow /\ r.status = "BLOCKED"
      BY <2>1, RenewalClosed
    <3>2. SetRenewal(s, c, r) /\ q.status = "PREPARED"
      BY <2>5 DEF BlockRenewal
    <3> HIDE DEF r
    <3>3. QED
      BY <1>0, <3>1, <3>2, RenewalWritten DEF Applied
  <2>6. QED
    BY <1>3, <2>2, <2>3, <2>4, <2>5 DEF RenewalStep
<1>4. \/ renewal' = renewal
      \/ \E s \in Subs : PrepareRenewal(s)
      \/ \E s \in Subs, c \in Times : RenewalStep(s, c)
  BY DEF Next, vars, Tick, TrialStep, EndTrial, StartTrial, ExtendTrial, SubStep, Create, Activate,
     CaptureActivation, ActivatePaid, Suspend, Resume, Cancel, Expire, ConvertTrial, AmendStep,
     BeginAmend, Amend, AbandonAmend
<1>5. QED
  BY <1>1, <1>2, <1>3, <1>4

\* Nothing but apply() moves the end of a period that was activated.
LEMMA OnlyApplyMovesEnd ==
  ASSUME IInv, [Next]_vars, ~ \E s \in Subs, c \in Times : ApplyRenewal(s, c),
         NEW o \in Subs, sub[o].status \notin {"ABSENT", "PENDING"}
  PROVE  sub'[o].status \notin {"ABSENT", "PENDING"} /\ sub'[o].end = sub[o].end
<1> DEFINE Kept == sub'[o].status \notin {"ABSENT", "PENDING"} /\ sub'[o].end = sub[o].end
<1>0. TypeOK
  BY DEF IInv
<1>1. CASE sub' = sub
  BY <1>1
<1>2. ASSUME NEW s \in Subs, NEW status \in Statuses \ {"ABSENT", "PENDING"}, SetStatus(s, status)
      PROVE  Kept
  BY <1>0, <1>2, WriteStatus
<1>3. ASSUME NEW s \in Subs, SubStep(s)
      PROVE  Kept
  <2>1. CASE \E source \in {"PAYMENT", "OTHER"}, end \in {None, Period} : Create(s, source, end)
    BY <1>0, <2>1 DEF Create, TypeOK
  <2>2. CASE Activate(s)
    BY <1>2, <2>2 DEF Activate, Statuses
  <2>3. CASE CaptureActivation(s)
    BY <1>0, <2>3 DEF CaptureActivation, TypeOK
  <2>4. CASE ActivatePaid(s)
    BY <1>0, <2>4 DEF ActivatePaid, TypeOK
  <2>5. CASE Suspend(s)
    BY <1>2, <2>5 DEF Suspend, Statuses
  <2>6. CASE Resume(s)
    BY <1>2, <2>6 DEF Resume, Statuses
  <2>7. CASE Cancel(s)
    BY <1>2, <2>7 DEF Cancel, Statuses
  <2>8. CASE Expire(s)
    BY <1>2, <2>8 DEF Expire, Statuses
  <2>9. CASE ConvertTrial(s)
    BY <1>0, <2>9 DEF ConvertTrial, TypeOK
  <2>10. QED
    BY <1>1, <1>3, <2>1, <2>2, <2>3, <2>4, <2>5, <2>6, <2>7, <2>8, <2>9 DEF SubStep, PrepareRenewal
<1>4. ASSUME NEW a \in Admins, NEW t \in Subs, Amend(a, t)
      PROVE  Kept
  <2> DEFINE s == amendment[a].source
             old == [sub[s] EXCEPT !.status = "SUPERSEDED"]
             new == [amendment[a].row EXCEPT !.paid = None]
  <2>1. /\ s \in Subs /\ amendment[a].row \in SubRow
        /\ sub[t].status = "ABSENT"
        /\ sub' = [sub EXCEPT ![s].status = "SUPERSEDED", ![t] = new]
    BY <1>0, <1>4 DEF Amend, Successor, IInv, AmendmentsOfLive, TypeOK, Snapshot
  <2>2. old \in SubRow /\ old.status = "SUPERSEDED" /\ old.end = sub[s].end
    BY <1>0, <2>1, StatusWritten DEF TypeOK, Statuses
  <2>3. new \in SubRow
    BY <2>1, PaidWritten DEF Time
  <2>4. amendment[a].row.status \in Live /\ sub[s].status = amendment[a].row.status
    BY <1>4 DEF Amend, AmendPermitted, IInv, AmendmentsOfLive
  <2>5. s # t /\ o # t
    BY <2>1, <2>4 DEF Live
  <2>6. sub' = [sub EXCEPT ![s] = old, ![t] = new]
    BY <2>1
  <2> HIDE DEF s, old, new
  <2>7. sub'[s] = old /\ \A x \in Subs \ {s, t} : sub'[x] = sub[x]
    BY <1>0, <2>1, <2>2, <2>3, <2>5, <2>6 DEF TypeOK
  <2>8. QED
    BY <2>2, <2>5, <2>7
<1>5. \/ sub' = sub
      \/ \E s \in Subs : SubStep(s)
      \/ \E a \in Admins, t \in Subs : Amend(a, t)
  BY DEF Next, vars, Tick, TrialStep, EndTrial, StartTrial, ExtendTrial, RenewalStep, OpenDispatch,
     RecordRenewalOrder, CaptureRenewal, BlockRenewal, AmendStep, BeginAmend, AbandonAmend
<1>6. QED
  BY <1>1, <1>3, <1>4, <1>5

LEMMA Multiples ==
  ASSUME NEW n \in Nat
  PROVE  /\ Period * n \in Nat /\ n <= Period * n
         /\ Period * (n + 1) = Period * n + Period
<1>1. PICK k \in Nat : Period = k + 1
  <2>1. Period - 1 \in Nat /\ Period = (Period - 1) + 1
    BY SubscriptionsAssumption
  <2>2. QED
    BY <2>1
<1>2. k * n \in Nat /\ Period * n = k * n + n
  BY <1>1
<1>3. Period * (n + 1) = Period * n + Period
  BY <1>1
<1>4. QED
  BY <1>2, <1>3

\* Every applied cycle ends at or before the end of the period.
LEMMA AppliedIsPast ==
  ASSUME AppliedFits, NEW s \in Subs, NEW c \in Times, Applied(s, c)
  PROVE  c + Period <= sub[s].end
<1>1. PICK n \in 0 .. MaxEnd : sub[s].end = c + Period * (n + 1)
  BY DEF AppliedFits, HistoryFits, Applied
<1>2. n \in Nat /\ c \in Nat /\ Period \in Nat
  BY SubscriptionsAssumption DEF Times
<1>3. Period * n \in Nat /\ Period * (n + 1) = Period * n + Period
  BY <1>2, Multiples
<1>4. QED
  BY <1>1, <1>2, <1>3

\* apply() adds one cycle to the history, the one that ended the period.
LEMMA ApplyHistory ==
  ASSUME IInv, History, NEW s \in Subs, NEW c \in Times, ApplyRenewal(s, c)
  PROVE  History'
<1> DEFINE q == [renewal[<<s, c>>] EXCEPT !.status = "APPLIED"]
           r == [sub[s] EXCEPT !.status = "ACTIVE", !.end = c + Period]
<1>1. TypeOK /\ sub[s] \in SubRow /\ renewal[<<s, c>>] \in RenewalRow
  BY DEF IInv, TypeOK
<1>2. /\ renewal[<<s, c>>].status = "PREPARED" /\ sub[s].end = c
      /\ sub' = [sub EXCEPT ![s] = r] /\ SetRenewal(s, c, q)
  BY DEF ApplyRenewal, ApplyRefused
<1>3. c + Period \in Times
  BY <1>2, TimeFacts DEF IInv, PreparedOnActivated
<1>4. q \in RenewalRow /\ q.status = "APPLIED"
  BY <1>1, RenewalClosed
<1>5. r \in SubRow /\ r.status = "ACTIVE" /\ r.end = c + Period
  BY <1>1, <1>3, PeriodWritten DEF Time
<1> HIDE DEF q, r
<1>6. /\ sub'[s].status = "ACTIVE" /\ sub'[s].end = c + Period
      /\ \A o \in Subs \ {s} : sub'[o] = sub[o]
  BY <1>1, <1>2, <1>5, WriteRow
<1>7. ASSUME NEW o \in Subs, NEW b \in Times
      PROVE  Applied(o, b)' <=> Applied(o, b) \/ (o = s /\ b = c)
  <2>1. CASE <<o, b>> = <<s, c>>
    BY <1>1, <1>2, <1>4, <2>1, WriteRenewal DEF Applied
  <2>2. CASE <<o, b>> # <<s, c>>
    BY <1>1, <1>2, <1>4, <2>2, WriteRenewal DEF Applied
  <2>3. QED
    BY <2>1, <2>2
<1>8. AppliedOnActivated'
  BY <1>6, <1>7 DEF History, AppliedOnActivated
<1>9. c \in Nat /\ Period \in Nat /\ Period > 0 /\ MaxEnd \in Nat
  BY SubscriptionsAssumption DEF Times
<1>10. ASSUME NEW o \in Subs \ {s}, NEW b \in Times, Applied(o, b)'
       PROVE  HistoryFits(o, b)'
  <2>1. Applied(o, b) /\ sub'[o].end = sub[o].end
    BY <1>6, <1>7, <1>10
  <2>2. LaterApplied(o, b)' = LaterApplied(o, b)
    BY <1>7 DEF LaterApplied, Applied
  <2>3. QED
    BY <2>1, <2>2 DEF History, AppliedFits, HistoryFits, Applied
<1>11. HistoryFits(s, c)'
  <2>1. LaterApplied(s, c)' = {}
    <3> SUFFICES ASSUME NEW b \in Times, Applied(s, b)', b >= c + Period
                 PROVE  FALSE
      BY DEF LaterApplied, Applied
    <3>1. b # c /\ b \in Nat
      BY <1>9 DEF Times
    <3>2. Applied(s, b)
      BY <1>7, <3>1
    <3>3. b + Period <= c
      BY <1>2, <3>2, AppliedIsPast DEF History
    <3>4. QED
      BY <1>9, <3>1, <3>3
  <2>2. {b \in Times : \E i \in 1 .. 0 : b = c + Period * i} = {}
    OBVIOUS
  <2>3. sub'[s].end = c + Period * (0 + 1) /\ 0 \in 0 .. MaxEnd
    BY <1>6, <1>9
  <2>4. QED
    BY <2>1, <2>2, <2>3 DEF HistoryFits
<1>12. ASSUME NEW b \in Times, Applied(s, b)
       PROVE  HistoryFits(s, b)'
  <2>1. PICK n \in 0 .. MaxEnd :
          /\ LaterApplied(s, b) = {d \in Times : \E i \in 1 .. n : d = b + Period * i}
          /\ sub[s].end = b + Period * (n + 1)
    BY <1>12 DEF History, AppliedFits, HistoryFits, Applied
  <2>2. n \in Nat /\ n + 1 \in Nat /\ b \in Nat /\ c = b + Period * (n + 1)
    BY <1>2, <1>9, <2>1 DEF Times
  <2>3. /\ Period * (n + 1) \in Nat /\ n + 1 <= Period * (n + 1)
        /\ Period * (n + 2) = Period * (n + 1) + Period
        /\ Period * (n + 1) = Period * n + Period /\ Period * n \in Nat
    BY <2>2, Multiples
  <2>4. n + 1 \in 0 .. MaxEnd
    BY <1>9, <2>2, <2>3 DEF Times
  <2>5. sub'[s].end = b + Period * ((n + 1) + 1)
    BY <1>6, <1>9, <2>2, <2>3
  <2>6. c >= b + Period
    BY <1>9, <2>2, <2>3
  <2>7. LaterApplied(s, b)' = LaterApplied(s, b) \cup {c}
    BY <1>7, <2>6 DEF LaterApplied, Applied
  <2>8. 1 .. (n + 1) = (1 .. n) \cup {n + 1}
    BY <2>2
  <2>9. {d \in Times : \E i \in 1 .. (n + 1) : d = b + Period * i}
          = {d \in Times : \E i \in 1 .. n : d = b + Period * i} \cup {c}
    BY <2>2, <2>8
  <2>10. LaterApplied(s, b)' = {d \in Times : \E i \in 1 .. (n + 1) : d = b + Period * i}
    BY <2>1, <2>7, <2>9
  <2>11. QED
    BY <2>4, <2>5, <2>10 DEF HistoryFits
<1>13. AppliedFits'
  BY <1>7, <1>10, <1>11, <1>12 DEF AppliedFits, Applied
<1>14. QED
  BY <1>8, <1>13 DEF History

LEMMA StepHistory ==
  ASSUME IInv, History, [Next]_vars
  PROVE  History'
<1>1. ASSUME NEW s \in Subs, NEW c \in Times, ApplyRenewal(s, c)
      PROVE  History'
  BY <1>1, ApplyHistory
<1>2. CASE ~ \E s \in Subs, c \in Times : ApplyRenewal(s, c)
  <2>1. \A o \in Subs, b \in Times : Applied(o, b)' <=> Applied(o, b)
    BY <1>2, OnlyApplyRenews
  <2>2. ASSUME NEW o \in Subs, NEW b \in Times, Applied(o, b)'
        PROVE  /\ Applied(o, b)
               /\ sub'[o].status \notin {"ABSENT", "PENDING"} /\ sub'[o].end = sub[o].end
    BY <1>2, <2>1, <2>2, OnlyApplyMovesEnd DEF History, AppliedOnActivated
  <2>3. \A o \in Subs, b \in Times : LaterApplied(o, b)' = LaterApplied(o, b)
    BY <2>1 DEF LaterApplied, Applied
  <2>4. AppliedOnActivated'
    BY <2>2 DEF AppliedOnActivated
  <2>5. AppliedFits'
    BY <2>2, <2>3 DEF History, AppliedFits, HistoryFits, Applied
  <2>6. QED
    BY <2>4, <2>5 DEF History
<1>3. QED
  BY <1>1, <1>2

\* Replaying any applied renewal, by a webhook, the scheduler or by hand, finds
\* the later cycles in an unbroken row up to the end of the period, however many
\* were applied: reconcileAppliedPeriod() accepts what apply() has done as long as
\* the subscription is ACTIVE, and its status is all that it can object to.
THEOREM HistoryKept == Spec => []HistoryReconciles
<1>1. Init => History
  BY DEF Init, NoRenewal, History, AppliedOnActivated, AppliedFits, Applied
<1>2. IInv /\ History /\ [Next]_vars => History'
  BY StepHistory
<1>3. History => HistoryReconciles
  <2> SUFFICES ASSUME History, NEW s \in Subs, NEW c \in Times, Applied(s, c)
               PROVE  HistoryFits(s, c) /\ (Reconciles(s, c) <=> sub[s].status = "ACTIVE")
    BY DEF HistoryReconciles, Applied
  <2>1. HistoryFits(s, c)
    BY DEF History, AppliedFits
  <2>2. PICK n \in 0 .. MaxEnd : sub[s].end = c + Period * (n + 1)
    BY <2>1 DEF HistoryFits
  <2>3. sub[s].end \in Nat
    BY <2>2, Multiples, SubscriptionsAssumption DEF Times
  <2>4. sub[s].end # None
    BY <2>3, SubscriptionsAssumption
  <2>5. QED
    BY <2>1, <2>4 DEF Reconciles
<1>4. QED
  BY <1>1, <1>2, <1>3, Invariance, PTL DEF Spec

-----------------------------------------------------------------------------
(* What becomes of captured money                                            *)

\* A renewal is answered only if it was captured.
AnsweredWasCaptured ==
  \A s \in Subs, c \in Times :
    renewal[<<s, c>>].status \in {"APPLIED", "BLOCKED"} => renewal[<<s, c>>].captured

\* The period of a subscription that has been activated moves only by the
\* renewal that starts where it ends, by one period, and only for its money.
GrantsWhatIsPaid ==
  [][\A s \in Subs :
       sub[s].status \notin {"ABSENT", "PENDING"} /\ sub'[s].end # sub[s].end =>
         LET c == sub[s].end IN
         /\ c \in Times /\ sub'[s].end = c + Period
         /\ renewal[<<s, c>>].status = "PREPARED" /\ renewal[<<s, c>>].captured
         /\ renewal'[<<s, c>>].status = "APPLIED"]_vars

\* A captured renewal of a subscription that is ACTIVE is never blocked.
ActiveIsNotBlocked ==
  [][\A s \in Subs, c \in Times :
       renewal[<<s, c>>].status # "BLOCKED" /\ renewal'[<<s, c>>].status = "BLOCKED" =>
         sub[s].status # "ACTIVE" /\ renewal[<<s, c>>].captured]_vars

\* An answer is for good: no replay takes it back or gives another one.
AnsweredForGood ==
  [][\A s \in Subs, c \in Times : renewal[<<s, c>>].status \in {"APPLIED", "BLOCKED"} =>
       renewal'[<<s, c>>] = renewal[<<s, c>>]]_vars

\* What a step may do to one renewal.
IsAnswered(row) == row.status \in {"APPLIED", "BLOCKED"}
Moves(o, b) ==
  \/ renewal'[<<o, b>>] = renewal[<<o, b>>]
  \/ /\ ~ IsAnswered(renewal[<<o, b>>]) /\ ~ IsAnswered(renewal'[<<o, b>>])
     /\ renewal'[<<o, b>>].status = renewal[<<o, b>>].status \/ PrepareRenewal(o)
  \/ ApplyRenewal(o, b) /\ renewal'[<<o, b>>].status = "APPLIED" /\ renewal'[<<o, b>>].captured
  \/ BlockRenewal(o, b) /\ renewal'[<<o, b>>].status = "BLOCKED" /\ renewal'[<<o, b>>].captured

LEMMA FieldsOf ==
  ASSUME NEW r \in RenewalRow
  PROVE  /\ \A status \in {"PREPARED", "APPLIED", "BLOCKED"} :
              [r EXCEPT !.status = status].captured = r.captured
         /\ [r EXCEPT !.captured = TRUE].captured = TRUE
  BY DEF RenewalRow

\* A renewal that is written moves, if its new row does so, and no other does.
LEMMA MovesOfWritten ==
  ASSUME TypeOK, NEW s \in Subs, NEW c \in Times, NEW r \in RenewalRow, SetRenewal(s, c, r),
         renewal'[<<s, c>>] = r => Moves(s, c),
         NEW o \in Subs, NEW b \in Times
  PROVE  Moves(o, b)
<1>1. CASE <<o, b>> = <<s, c>>
  BY <1>1, WriteRenewal
<1>2. CASE <<o, b>> # <<s, c>>
  BY <1>2, WriteRenewal DEF Moves
<1>3. QED
  BY <1>1, <1>2

LEMMA RenewalMoves ==
  ASSUME IInv, AnsweredWasCaptured, [Next]_vars, NEW o \in Subs, NEW b \in Times
  PROVE  Moves(o, b)
<1>0. TypeOK
  BY DEF IInv
<1>1. CASE renewal' = renewal
  BY <1>1 DEF Moves
<1>2. ASSUME NEW s \in Subs, PrepareRenewal(s)
      PROVE  Moves(o, b)
  <2> DEFINE r == [NoRenewal EXCEPT !.status = "PREPARED", !.created = now]
  <2>1. PICK c \in Times : c = sub[s].end
    BY <1>0, <1>2 DEF PrepareRenewal, TypeOK, SubRow, Time
  <2>2. now \in Times
    BY <1>0, TimeFacts DEF TypeOK
  <2>3. r \in RenewalRow /\ r.status = "PREPARED"
    BY <2>2 DEF NoRenewal, RenewalRow
  <2>4. SetRenewal(s, c, r) /\ renewal[<<s, c>>].status = "ABSENT"
    BY <1>2, <2>1 DEF PrepareRenewal
  <2> HIDE DEF r
  <2>5. renewal'[<<s, c>>] = r => Moves(s, c)
    BY <1>2, <2>3, <2>4 DEF Moves, IsAnswered
  <2>6. QED
    BY <1>0, <2>3, <2>4, <2>5, MovesOfWritten
<1>3. ASSUME NEW s \in Subs, NEW c \in Times, RenewalStep(s, c)
      PROVE  Moves(o, b)
  <2> DEFINE q == renewal[<<s, c>>]
  <2>1. q \in RenewalRow
    BY <1>0 DEF TypeOK
  <2>2. CASE ApplyRenewal(s, c) \/ BlockRenewal(s, c)
    <3>1. PICK status \in {"APPLIED", "BLOCKED"} :
            /\ SetRenewal(s, c, [q EXCEPT !.status = status])
            /\ \/ status = "APPLIED" /\ ApplyRenewal(s, c)
               \/ status = "BLOCKED" /\ BlockRenewal(s, c)
      BY <2>2 DEF ApplyRenewal, BlockRenewal
    <3> DEFINE r == [q EXCEPT !.status = status]
    <3>2. r \in RenewalRow /\ r.status = status /\ r.captured
      <4>1. q.captured
        BY <2>2 DEF ApplyRenewal, BlockRenewal
      <4>2. r \in RenewalRow /\ r.status = status
        BY <2>1, RenewalClosed
      <4>3. r.captured = q.captured
        BY <2>1, FieldsOf
      <4>4. QED
        BY <4>1, <4>2, <4>3
    <3>3. SetRenewal(s, c, r)
      BY <3>1
    <3> HIDE DEF r
    <3>4. renewal'[<<s, c>>] = r => Moves(s, c)
      BY <3>1, <3>2 DEF Moves
    <3>5. QED
      BY <1>0, <3>2, <3>3, <3>4, MovesOfWritten
  <2>3. CASE OpenDispatch(s, c) \/ RecordRenewalOrder(s, c)
    <3>1. PICK dispatch \in {"open", "ordered"} :
            SetRenewal(s, c, [q EXCEPT !.dispatch = dispatch])
      BY <2>3 DEF OpenDispatch, RecordRenewalOrder
    <3> DEFINE r == [q EXCEPT !.dispatch = dispatch]
    <3>2. r \in RenewalRow /\ r.status = "PREPARED" /\ q.status = "PREPARED"
      BY <2>1, <2>3, RenewalMoved DEF OpenDispatch, RecordRenewalOrder
    <3>3. SetRenewal(s, c, r)
      BY <3>1
    <3> HIDE DEF r
    <3>4. renewal'[<<s, c>>] = r => Moves(s, c)
      BY <3>2 DEF Moves, IsAnswered
    <3>5. QED
      BY <1>0, <3>2, <3>3, <3>4, MovesOfWritten
  <2>4. CASE CaptureRenewal(s, c)
    <3> DEFINE r == [q EXCEPT !.captured = TRUE]
    <3>1. r \in RenewalRow /\ r.status = q.status /\ ~ IsAnswered(q)
      BY <2>1, <2>4, RenewalMoved DEF CaptureRenewal, AnsweredWasCaptured, IsAnswered
    <3>2. SetRenewal(s, c, r)
      BY <2>4 DEF CaptureRenewal
    <3> HIDE DEF r
    <3>3. renewal'[<<s, c>>] = r => Moves(s, c)
      BY <3>1 DEF Moves, IsAnswered
    <3>4. QED
      BY <1>0, <3>1, <3>2, <3>3, MovesOfWritten
  <2>5. QED
    BY <1>3, <2>2, <2>3, <2>4 DEF RenewalStep
<1>4. \/ renewal' = renewal
      \/ \E s \in Subs : PrepareRenewal(s)
      \/ \E s \in Subs, c \in Times : RenewalStep(s, c)
  BY DEF Next, vars, Tick, TrialStep, EndTrial, StartTrial, ExtendTrial, SubStep, Create, Activate,
     CaptureActivation, ActivatePaid, Suspend, Resume, Cancel, Expire, ConvertTrial, AmendStep,
     BeginAmend, Amend, AbandonAmend
<1>5. QED
  BY <1>1, <1>2, <1>3, <1>4

LEMMA AnsweredInvariance == Spec => []AnsweredWasCaptured
<1>1. Init => AnsweredWasCaptured
  BY DEF Init, NoRenewal, AnsweredWasCaptured
<1>2. IInv /\ AnsweredWasCaptured /\ [Next]_vars => AnsweredWasCaptured'
  <2> SUFFICES ASSUME IInv, AnsweredWasCaptured, [Next]_vars, NEW s \in Subs, NEW c \in Times,
                      IsAnswered(renewal'[<<s, c>>])
               PROVE  renewal'[<<s, c>>].captured
    BY DEF AnsweredWasCaptured, IsAnswered
  <2>1. Moves(s, c)
    BY RenewalMoves
  <2>2. QED
    BY <2>1 DEF Moves, AnsweredWasCaptured, IsAnswered
<1>3. QED
  BY <1>1, <1>2, Invariance, PTL DEF Spec

\* Once a captured renewal is applied or blocked, no webhook, recovery job or
\* administrator that asks again changes the answer.
THEOREM AnswersStay == Spec => AnsweredForGood
<1> DEFINE Stay == \A s \in Subs, c \in Times : renewal[<<s, c>>].status \in {"APPLIED", "BLOCKED"} =>
                     renewal'[<<s, c>>] = renewal[<<s, c>>]
<1>1. IInv /\ AnsweredWasCaptured /\ [Next]_vars => Stay
  <2> SUFFICES ASSUME IInv, AnsweredWasCaptured, [Next]_vars, NEW s \in Subs, NEW c \in Times,
                      IsAnswered(renewal[<<s, c>>])
               PROVE  renewal'[<<s, c>>] = renewal[<<s, c>>]
    BY DEF IsAnswered
  <2>1. Moves(s, c)
    BY RenewalMoves
  <2>2. QED
    BY <2>1 DEF Moves, IsAnswered, ApplyRenewal, BlockRenewal
<1>2. QED
  BY <1>1, Invariance, AnsweredInvariance, PTL DEF Spec, AnsweredForGood

\* Money captured for the renewal of an ACTIVE subscription is always applied:
\* the boundary still fits, and no other subscription is live beside it.
THEOREM ActiveIsApplied == Spec => ActiveIsNotBlocked
<1> DEFINE NotBlocked == \A s \in Subs, c \in Times :
             renewal[<<s, c>>].status # "BLOCKED" /\ renewal'[<<s, c>>].status = "BLOCKED" =>
               sub[s].status # "ACTIVE" /\ renewal[<<s, c>>].captured
<1>1. IInv /\ AnsweredWasCaptured /\ [Next]_vars => NotBlocked
  <2> SUFFICES ASSUME IInv, AnsweredWasCaptured, [Next]_vars, NEW s \in Subs, NEW c \in Times,
                      renewal[<<s, c>>].status # "BLOCKED", renewal'[<<s, c>>].status = "BLOCKED"
               PROVE  sub[s].status # "ACTIVE" /\ renewal[<<s, c>>].captured
    OBVIOUS
  <2>1. Moves(s, c)
    BY RenewalMoves
  <2>2. BlockRenewal(s, c)
    BY <2>1 DEF Moves, IsAnswered
  <2>3. /\ renewal[<<s, c>>].status = "PREPARED" /\ renewal[<<s, c>>].captured
        /\ ApplyRefused(s, c)
    BY <2>2 DEF BlockRenewal
  <2>4. sub[s].end = c
    BY <2>3 DEF IInv, BoundaryHolds
  <2>5. sub[s].status = "ACTIVE" => NoOtherLive(s)
    BY DEF IInv, OneLive, NoOtherLive, IsLive, Live
  <2>6. QED
    BY <2>3, <2>4, <2>5 DEF ApplyRefused
<1>2. QED
  BY <1>1, Invariance, AnsweredInvariance, PTL DEF Spec, ActiveIsNotBlocked

\* No operation but apply() prolongs or moves a period once it runs, and apply()
\* does so for a captured cycle that starts where the period ends.
THEOREM GrantsPaid == Spec => GrantsWhatIsPaid
<1> DEFINE Granted == \A s \in Subs :
             sub[s].status \notin {"ABSENT", "PENDING"} /\ sub'[s].end # sub[s].end =>
               LET c == sub[s].end IN
               /\ c \in Times /\ sub'[s].end = c + Period
               /\ renewal[<<s, c>>].status = "PREPARED" /\ renewal[<<s, c>>].captured
               /\ renewal'[<<s, c>>].status = "APPLIED"
<1>1. IInv /\ [Next]_vars => Granted
  <2> SUFFICES ASSUME IInv, [Next]_vars, NEW s \in Subs,
                      sub[s].status \notin {"ABSENT", "PENDING"}, sub'[s].end # sub[s].end
               PROVE  /\ sub[s].end \in Times /\ sub'[s].end = sub[s].end + Period
                      /\ renewal[<<s, sub[s].end>>].status = "PREPARED"
                      /\ renewal[<<s, sub[s].end>>].captured
                      /\ renewal'[<<s, sub[s].end>>].status = "APPLIED"
    OBVIOUS
  <2>1. PICK o \in Subs, c \in Times : ApplyRenewal(o, c)
    BY OnlyApplyMovesEnd
  <2> DEFINE q == [renewal[<<o, c>>] EXCEPT !.status = "APPLIED"]
             r == [sub[o] EXCEPT !.status = "ACTIVE", !.end = c + Period]
  <2>2. TypeOK /\ sub[o] \in SubRow /\ renewal[<<o, c>>] \in RenewalRow
    BY DEF IInv, TypeOK
  <2>3. /\ renewal[<<o, c>>].status = "PREPARED" /\ renewal[<<o, c>>].captured
        /\ sub[o].end = c /\ sub' = [sub EXCEPT ![o] = r] /\ SetRenewal(o, c, q)
    BY <2>1 DEF ApplyRenewal, ApplyRefused
  <2>4. c + Period \in Time
    BY <2>3, TimeFacts DEF IInv, PreparedOnActivated, Time
  <2>5. q \in RenewalRow /\ q.status = "APPLIED"
    BY <2>2, RenewalClosed
  <2>6. r \in SubRow /\ r.end = c + Period
    BY <2>2, <2>4, PeriodWritten
  <2> HIDE DEF q, r
  <2>7. /\ sub'[o] = r /\ \A p \in Subs \ {o} : sub'[p] = sub[p]
        /\ renewal'[<<o, c>>] = q
    BY <2>2, <2>3, <2>5, <2>6, WriteRow, WriteRenewal
  <2>8. s = o
    BY <2>7
  <2>9. QED
    BY <2>3, <2>5, <2>6, <2>7, <2>8
<1>2. QED
  BY <1>1, Invariance, PTL DEF Spec, GrantsWhatIsPaid

-----------------------------------------------------------------------------
(* Amendments commit on what they read                                       *)

\* Only paid subscriptions are renewed.
PreparedIsPaid ==
  \A s \in Subs, c \in Times : renewal[<<s, c>>].status = "PREPARED" => sub[s].source = "PAYMENT"

\* What an amendment in flight has read is still so, but for the status and, if the
\* subscription is a paid one, for its period.
ReadIsCurrent ==
  \A a \in Admins :
    amendment[a] # NoAmendment =>
      LET row == amendment[a].row
          current == sub[amendment[a].source] IN
      /\ current.status \notin {"ABSENT", "PENDING"}
      /\ current.source = row.source /\ current.paid = row.paid
      /\ row.source # "PAYMENT" => current.end = row.end

LEMMA SameRow ==
  ASSUME NEW r \in SubRow, NEW q \in SubRow,
         r.status = q.status, r.source = q.source, r.end = q.end, r.paid = q.paid
  PROVE  r = q
  BY DEF SubRow

\* A subscription keeps its source and its payment once it has been activated, and
\* its period too unless it is a paid one.
ActivatedKept(o) ==
  /\ sub'[o].status \notin {"ABSENT", "PENDING"}
  /\ sub'[o].source = sub[o].source /\ sub'[o].paid = sub[o].paid
  /\ sub[o].source # "PAYMENT" => sub'[o].end = sub[o].end

LEMMA StatusKeepsRow ==
  ASSUME TypeOK, NEW s \in Subs, NEW status \in Statuses \ {"ABSENT", "PENDING"},
         SetStatus(s, status), NEW o \in Subs, sub[o].status \notin {"ABSENT", "PENDING"}
  PROVE  ActivatedKept(o)
<1> DEFINE n == [sub[s] EXCEPT !.status = status]
<1>1. sub' = [sub EXCEPT ![s] = n]
  BY DEF SetStatus
<1>2. /\ n \in SubRow /\ n.status = status
      /\ n.source = sub[s].source /\ n.end = sub[s].end /\ n.paid = sub[s].paid
  BY StatusWritten DEF TypeOK
<1> HIDE DEF n
<1>3. QED
  BY <1>1, <1>2, WriteRow DEF ActivatedKept

LEMMA ActivatedRowKept ==
  ASSUME IInv, PreparedIsPaid, [Next]_vars,
         NEW o \in Subs, sub[o].status \notin {"ABSENT", "PENDING"}
  PROVE  ActivatedKept(o)
<1>0. TypeOK
  BY DEF IInv
<1>1. CASE sub' = sub
  BY <1>1 DEF ActivatedKept
<1>2. ASSUME NEW s \in Subs, SubStep(s)
      PROVE  ActivatedKept(o)
  <2>1. CASE Activate(s) \/ Suspend(s) \/ Resume(s) \/ Cancel(s) \/ Expire(s)
    <3>1. PICK status \in Statuses \ {"ABSENT", "PENDING"} : SetStatus(s, status)
      BY <2>1 DEF Activate, Suspend, Resume, Cancel, Expire, Statuses
    <3>2. QED
      BY <1>0, <3>1, StatusKeepsRow
  <2>2. CASE \/ \E source \in {"PAYMENT", "OTHER"}, end \in {None, Period} : Create(s, source, end)
             \/ CaptureActivation(s) \/ ActivatePaid(s) \/ ConvertTrial(s)
    BY <1>0, <2>2 DEF Create, CaptureActivation, ActivatePaid, ConvertTrial, TypeOK, ActivatedKept
  <2>3. QED
    BY <1>1, <1>2, <2>1, <2>2 DEF SubStep, PrepareRenewal
<1>3. ASSUME NEW s \in Subs, NEW c \in Times, ApplyRenewal(s, c)
      PROVE  ActivatedKept(o)
  <2> DEFINE r == [sub[s] EXCEPT !.status = "ACTIVE", !.end = c + Period]
  <2>1. /\ renewal[<<s, c>>].status = "PREPARED" /\ sub' = [sub EXCEPT ![s] = r]
        /\ sub[s].source = "PAYMENT"
    BY <1>3 DEF ApplyRenewal, PreparedIsPaid
  <2>2. c + Period \in Time
    BY <2>1, TimeFacts DEF IInv, PreparedOnActivated, Time
  <2>3. /\ r \in SubRow /\ r.status = "ACTIVE"
        /\ r.source = sub[s].source /\ r.paid = sub[s].paid
    BY <1>0, <2>2, PeriodWritten DEF TypeOK
  <2> HIDE DEF r
  <2>4. QED
    BY <1>0, <2>1, <2>3, WriteRow DEF ActivatedKept
<1>4. ASSUME NEW a \in Admins, NEW t \in Subs, Amend(a, t)
      PROVE  ActivatedKept(o)
  <2> DEFINE s == amendment[a].source
             old == [sub[s] EXCEPT !.status = "SUPERSEDED"]
  <2>1. /\ s \in Subs /\ sub[t].status = "ABSENT" /\ sub[s].status \in Live
        /\ sub' = [sub EXCEPT ![s].status = "SUPERSEDED", ![t] = Successor(a)]
    BY <1>0, <1>4 DEF Amend, AmendPermitted, IInv, AmendmentsOfLive
  <2>2. /\ old \in SubRow /\ old.status = "SUPERSEDED"
        /\ old.source = sub[s].source /\ old.end = sub[s].end /\ old.paid = sub[s].paid
    BY <1>0, <2>1, StatusWritten DEF TypeOK, Statuses
  <2>3. s # t /\ o # t
    BY <2>1 DEF Live
  <2>4. sub' = [sub EXCEPT ![s] = old, ![t] = Successor(a)]
    BY <2>1
  <2> HIDE DEF s, old
  <2>5. sub'[s] = old /\ \A x \in Subs \ {s, t} : sub'[x] = sub[x]
    BY <1>0, <2>1, <2>2, <2>3, <2>4 DEF TypeOK
  <2>6. QED
    BY <2>2, <2>3, <2>5 DEF ActivatedKept
<1>5. \/ sub' = sub
      \/ \E s \in Subs : SubStep(s)
      \/ \E s \in Subs, c \in Times : ApplyRenewal(s, c)
      \/ \E a \in Admins, t \in Subs : Amend(a, t)
  BY DEF Next, vars, Tick, TrialStep, EndTrial, StartTrial, ExtendTrial, RenewalStep, OpenDispatch,
     RecordRenewalOrder, CaptureRenewal, BlockRenewal, AmendStep, BeginAmend, AbandonAmend
<1>6. QED
  BY <1>1, <1>2, <1>3, <1>4, <1>5

\* What an amendment has read goes on being so, or the amendment is over.
LEMMA AmendmentMoves ==
  ASSUME IInv, [Next]_vars, NEW a \in Admins
  PROVE  \/ amendment'[a] = amendment[a] \/ amendment'[a] = NoAmendment
         \/ \E s \in Subs :
              /\ IsLive(s) /\ sub' = sub
              /\ amendment'[a] = [source |-> s, row |-> sub[s], at |-> now]
<1>0. amendment \in [Admins -> Snapshot]
  BY DEF IInv, TypeOK
<1>1. CASE amendment' = amendment
  BY <1>1
<1>2. ASSUME NEW b \in Admins, AmendStep(b)
      PROVE  \/ amendment'[a] = amendment[a] \/ amendment'[a] = NoAmendment
             \/ \E s \in Subs :
                  /\ IsLive(s) /\ sub' = sub
                  /\ amendment'[a] = [source |-> s, row |-> sub[s], at |-> now]
  BY <1>0, <1>2 DEF AmendStep, BeginAmend, Amend, AbandonAmend
<1>3. amendment' = amendment \/ \E b \in Admins : AmendStep(b)
  BY DEF Next, vars, Tick, TrialStep, EndTrial, StartTrial, ExtendTrial, SubStep, Create, Activate,
     CaptureActivation, ActivatePaid, Suspend, Resume, Cancel, Expire, ConvertTrial, PrepareRenewal,
     RenewalStep, OpenDispatch, RecordRenewalOrder, CaptureRenewal, ApplyRenewal, BlockRenewal
<1>4. QED
  BY <1>1, <1>2, <1>3

LEMMA ReadInvariance == Spec => [](PreparedIsPaid /\ ReadIsCurrent)
<1>1. Init => PreparedIsPaid /\ ReadIsCurrent
  BY DEF Init, NoRenewal, PreparedIsPaid, ReadIsCurrent
<1>2. ASSUME IInv, AnsweredWasCaptured, PreparedIsPaid, [Next]_vars
      PROVE  PreparedIsPaid'
  <2> SUFFICES ASSUME NEW s \in Subs, NEW c \in Times, renewal'[<<s, c>>].status = "PREPARED"
               PROVE  sub'[s].source = "PAYMENT"
    BY DEF PreparedIsPaid
  <2>1. renewal[<<s, c>>].status = "PREPARED" \/ PrepareRenewal(s)
    BY <1>2, RenewalMoves DEF Moves
  <2>2. CASE PrepareRenewal(s)
    BY <2>2 DEF PrepareRenewal
  <2>3. CASE renewal[<<s, c>>].status = "PREPARED"
    <3>1. sub[s].status \notin {"ABSENT", "PENDING"} /\ sub[s].source = "PAYMENT"
      BY <1>2, <2>3 DEF IInv, PreparedOnActivated, PreparedIsPaid
    <3>2. QED
      BY <1>2, <3>1, ActivatedRowKept DEF ActivatedKept
  <2>4. QED
    BY <2>1, <2>2, <2>3
<1>3. ASSUME IInv, PreparedIsPaid, ReadIsCurrent, [Next]_vars
      PROVE  ReadIsCurrent'
  <2> SUFFICES ASSUME NEW a \in Admins, amendment'[a] # NoAmendment
               PROVE  LET row == amendment'[a].row
                          current == sub'[amendment'[a].source] IN
                      /\ current.status \notin {"ABSENT", "PENDING"}
                      /\ current.source = row.source /\ current.paid = row.paid
                      /\ row.source # "PAYMENT" => current.end = row.end
    BY DEF ReadIsCurrent
  <2>1. CASE amendment'[a] = amendment[a]
    <3>1. PICK s \in Subs : s = amendment[a].source
      BY <1>3, <2>1 DEF IInv, AmendmentsOfLive
    <3>2. /\ sub[s].status \notin {"ABSENT", "PENDING"}
          /\ sub[s].source = amendment[a].row.source /\ sub[s].paid = amendment[a].row.paid
          /\ amendment[a].row.source # "PAYMENT" => sub[s].end = amendment[a].row.end
      BY <1>3, <2>1, <3>1 DEF ReadIsCurrent
    <3>3. ActivatedKept(s)
      BY <1>3, <3>2, ActivatedRowKept
    <3>4. QED
      BY <2>1, <3>1, <3>2, <3>3 DEF ActivatedKept
  <2>2. CASE \E s \in Subs : /\ IsLive(s) /\ sub' = sub
                             /\ amendment'[a] = [source |-> s, row |-> sub[s], at |-> now]
    BY <2>2 DEF IsLive, Live
  <2>3. QED
    BY <1>3, <2>1, <2>2, AmendmentMoves
<1>4. QED
  BY <1>1, <1>2, <1>3, Invariance, AnsweredInvariance, PTL DEF Spec

\* An amendment that commits replaces the very row that it read before it took the
\* lock: the status is compared, the source and the payment of an activated row never
\* change, and its period does only for a paid one, whose successor the database
\* refuses.
THEOREM AmendedAsRead == Spec => AmendsWhatItRead
<1> DEFINE AsRead == \A a \in Admins :
             amendment[a] # NoAmendment /\ sub' # sub /\ amendment'[a] = NoAmendment =>
               sub[amendment[a].source] = amendment[a].row
<1>1. ASSUME IInv, PreparedIsPaid, ReadIsCurrent, [Next]_vars
      PROVE  AsRead
  <2> SUFFICES ASSUME NEW a \in Admins,
                      amendment[a] # NoAmendment, sub' # sub, amendment'[a] = NoAmendment
               PROVE  sub[amendment[a].source] = amendment[a].row
    OBVIOUS
  <2>0. TypeOK
    BY <1>1 DEF IInv
  <2>1. PICK b \in Admins, t \in Subs : Amend(b, t)
    BY <1>1 DEF Next, vars, Tick, TrialStep, EndTrial, StartTrial, ExtendTrial, SubStep, Create,
       Activate, CaptureActivation, ActivatePaid, Suspend, Resume, Cancel, Expire, ConvertTrial,
       PrepareRenewal, RenewalStep, OpenDispatch, RecordRenewalOrder, CaptureRenewal, ApplyRenewal,
       BlockRenewal, AmendStep, BeginAmend, AbandonAmend
  <2>2. a = b
    BY <2>0, <2>1 DEF Amend, TypeOK
  <2>3. PICK s \in Subs : s = amendment[a].source
    BY <1>1 DEF IInv, AmendmentsOfLive
  <2>4. PICK row \in SubRow : row = amendment[a].row
    BY <2>0 DEF TypeOK, Snapshot
  <2> DEFINE n == [row EXCEPT !.paid = None]
  <2>5. n \in SubRow /\ n.status = row.status /\ n.source = row.source /\ n.paid = None
    BY <2>4, PaidWritten DEF Time
  <2>6. row.status \in Live /\ sub[s].status = row.status /\ PaymentActivationCheck(n)
    BY <1>1, <2>1, <2>2, <2>3, <2>4 DEF Amend, AmendPermitted, Successor, IInv, AmendmentsOfLive
  <2> HIDE DEF n
  <2>7. row.source # "PAYMENT"
    BY <2>5, <2>6 DEF PaymentActivationCheck, Live
  <2>8. sub[s].source = row.source /\ sub[s].paid = row.paid /\ sub[s].end = row.end
    BY <1>1, <2>3, <2>4, <2>7 DEF ReadIsCurrent
  <2>9. sub[s] \in SubRow
    BY <2>0 DEF TypeOK
  <2>10. QED
    BY <2>3, <2>4, <2>6, <2>8, <2>9, SameRow
<1>2. QED
  BY <1>1, Invariance, ReadInvariance, PTL DEF Spec, AmendsWhatItRead

=============================================================================
