-------------------------- MODULE NotificationDelivery --------------------------
(***************************************************************************)
(* The delivery of e-mails: NotificationDelivery rows, the minute workers  *)
(* that claim and send them (NotificationDeliveryService), the bootstrap   *)
(* that sends a verification e-mail before the platform has an SMTP        *)
(* authority (SmtpEmailVerificationBootstrapService), and the activation   *)
(* of that authority (SmtpConfigurationAuthorityService), which a bootstrap*)
(* in flight is to hold off.                                               *)
(*                                                                         *)
(* A transaction is one action, but for select(): it is Serializable, and  *)
(* what it reads is as of its first statement, before it waits for the     *)
(* advisory lock.  A claimToken is random; here it is the number of the    *)
(* attempt it was drawn for, which is as unique to its row.  A delivery's  *)
(* Notification gets its status in the same transactions and is left out.  *)
(***************************************************************************)
EXTENDS Naturals

CONSTANTS
  Deliveries,       \* NotificationDelivery rows of channel EMAIL
  Workers,          \* processes that run the minute worker
  Bootstraps,       \* requests of send() of the bootstrap
  Verifications,    \* the rows a bootstrap may select
  MaxAttempts,      \* maxAttempts, MAX_ATTEMPTS
  BatchLimit,       \* batchLimit
  EnvironmentMail,  \* EMAIL_NOTIFICATIONS_ENABLED, with an SMTP server to use
  None              \* null

ASSUME NotificationDeliveryAssumption ==
  /\ MaxAttempts \in Nat \ {0}
  /\ BatchLimit \in Nat \ {0}
  /\ EnvironmentMail \in BOOLEAN
  /\ Verifications \subseteq Deliveries
  /\ Workers \cap Bootstraps = {}
  /\ None \notin Deliveries
  /\ None \notin Nat

VARIABLES
  row,        \* NotificationDelivery rows
  lapsed,     \* the claims of a row whose claimExpiresAt has passed
  accepted,   \* the claims of a row under which the provider took the mail
  started,    \* audit log: bootstraps STARTED, as <<row, claim>>
  completed,  \* audit log: bootstraps COMPLETED
  authority,  \* the platform's e-mail settings: not established, or enabled or not
  seen,       \* the bootstraps in flight in the snapshot of select(), or None
  pc,         \* where each process stands
  held,       \* the delivery it holds, and how sending it ended
  processed   \* deliveries of this run of a worker

vars == <<row, lapsed, accepted, started, completed, authority, seen, pc, held, processed>>

Processes == Workers \cup Bootstraps
Claims == 1 .. MaxAttempts
Dispatches == Deliveries \X Claims

\* UNCERTAIN is FAILED with errorCode SMTP_ACCEPTANCE_UNCERTAIN.
Row == [status : {"PENDING", "DELIVERED", "FAILED", "CANCELLED", "UNCERTAIN"},
        attempts : 0 .. MaxAttempts,
        due : BOOLEAN,
        claim : Claims \cup {None}]
Held == [delivery : Deliveries \cup {None}, claim : Claims \cup {None},
         result : {"none", "accepted", "failed", "stale"}]

Unheld == [delivery |-> None, claim |-> None, result |-> "none"]

TypeOK ==
  /\ row \in [Deliveries -> Row]
  /\ lapsed \in [Deliveries -> SUBSET Claims]
  /\ accepted \in [Deliveries -> SUBSET Claims]
  /\ started \in SUBSET Dispatches
  /\ completed \in SUBSET started
  /\ authority \in {"unset", "enabled", "disabled"}
  /\ seen \in (SUBSET Dispatches) \cup {None}
  /\ pc \in [Processes -> {"idle", "claim", "revalidate", "send", "settle"}]
  /\ held \in [Processes -> Held]
  /\ processed \in [Workers -> 0 .. BatchLimit]

Init ==
  /\ row = [d \in Deliveries |->
              [status |-> "PENDING", attempts |-> 0, due |-> TRUE, claim |-> None]]
  /\ lapsed = [d \in Deliveries |-> {}]
  /\ accepted = [d \in Deliveries |-> {}]
  /\ started = {} /\ completed = {}
  /\ authority = "unset"
  /\ seen = None
  /\ pc = [p \in Processes |-> "idle"]
  /\ held = [p \in Processes |-> Unheld]
  /\ processed = [w \in Workers |-> 0]

Goto(p, label) == pc' = [pc EXCEPT ![p] = label]

-----------------------------------------------------------------------------
\* resolveForClaim(): whose SMTP server, if any, the workers may use
Usable == IF authority = "unset" THEN EnvironmentMail ELSE authority = "enabled"

\* MUTANTS stand before the definition each is a plausible slip of.
\* Mutant of Claimable: an expired claim is not taken over.
ClaimableOnce(d) ==
  /\ row[d].status = "PENDING" /\ row[d].attempts < MaxAttempts /\ row[d].due
  /\ row[d].claim = None

\* Mutant of Claimable: the claim's expiry is not looked at.
ClaimableAnyway(d) ==
  row[d].status = "PENDING" /\ row[d].attempts < MaxAttempts /\ row[d].due

Claimable(d) ==
  /\ row[d].status = "PENDING"
  /\ row[d].attempts < MaxAttempts
  /\ row[d].due
  /\ row[d].claim = None \/ row[d].claim \in lapsed[d]

\* A claim by process p leaves the row with this status.
TakeClaim(p, d, status) ==
  LET claim == row[d].attempts + 1 IN
  /\ row' = [row EXCEPT ![d] =
               [status |-> status, attempts |-> claim, due |-> TRUE, claim |-> claim]]
  /\ held' = [held EXCEPT ![p] = [delivery |-> d, claim |-> claim, result |-> "none"]]

\* processPendingDeliveries(), unless it still runs in this process
Tick(w) ==
  /\ pc[w] = "idle"
  /\ Goto(w, "claim")
  /\ processed' = [processed EXCEPT ![w] = 0]
  /\ UNCHANGED <<row, lapsed, accepted, started, completed, authority, seen, held>>

\* claimNextDelivery(): the oldest row that no other claim has locked
Claim(w, d) ==
  /\ pc[w] = "claim"
  /\ Usable
  /\ Claimable(d)
  /\ TakeClaim(w, d, "PENDING")
  /\ Goto(w, "send")
  /\ UNCHANGED <<lapsed, accepted, started, completed, authority, seen, processed>>

NothingToClaim(w) ==
  /\ pc[w] = "claim"
  /\ ~ Usable \/ \A d \in Deliveries : ~ Claimable(d)
  /\ Goto(w, "idle")
  /\ UNCHANGED <<row, lapsed, accepted, started, completed, authority, seen, held, processed>>

\* EmailNotificationChannel.send(): it ends with a result, and the provider has
\* taken the mail or not; an answer that is lost looks like a failure.
SendEnds(p, result, taken) ==
  /\ pc[p] = "send"
  /\ held' = [held EXCEPT ![p].result = result]
  /\ accepted' = IF taken
                 THEN [accepted EXCEPT ![held[p].delivery] = @ \cup {held[p].claim}]
                 ELSE accepted
  /\ Goto(p, "settle")
  /\ UNCHANGED <<row, lapsed, started, completed, authority, seen, processed>>

\* A token that is used up or an invitation withdrawn is not sent.
WorkerSends(w) ==
  \/ SendEnds(w, "accepted", TRUE)
  \/ \E taken \in BOOLEAN : SendEnds(w, "failed", taken)
  \/ SendEnds(w, "stale", FALSE)

\* The row as a failed attempt leaves it, to be tried again later or not
AfterFailure(r, claim) ==
  [r EXCEPT !.claim = None,
            !.status = IF claim >= MaxAttempts THEN "FAILED" ELSE "PENDING",
            !.due = claim >= MaxAttempts]
Settled(r, status) == [r EXCEPT !.status = status, !.due = TRUE, !.claim = None]

AfterSend(p, r) ==
  CASE held[p].result = "accepted" -> Settled(r, "DELIVERED")
    [] held[p].result = "stale" -> Settled(r, "CANCELLED")
    [] OTHER -> AfterFailure(r, held[p].claim)

\* Mutant of Owned: the status is not compared, nor the claim of a row without one.
OwnedUnlessTaken(p, status) == row[held[p].delivery].claim \in {held[p].claim, None}

\* finalizeOwned(), finalize(): the row still carries the claim
Owned(p, status) ==
  /\ row[held[p].delivery].status = status
  /\ row[held[p].delivery].claim = held[p].claim

WriteOwned(p, status) ==
  row' = IF Owned(p, status)
         THEN [row EXCEPT ![held[p].delivery] = AfterSend(p, @)]
         ELSE row

\* The next delivery of the batch
Proceed(w) ==
  /\ held' = [held EXCEPT ![w] = Unheld]
  /\ processed' = [processed EXCEPT ![w] = @ + 1]
  /\ Goto(w, IF processed[w] + 1 < BatchLimit THEN "claim" ELSE "idle")

\* finalizeClaimSuccess(), -Failure(), -Cancellation(), committed
WorkerSettles(w) ==
  /\ pc[w] = "settle"
  /\ WriteOwned(w, "PENDING")
  /\ Proceed(w)
  /\ UNCHANGED <<lapsed, accepted, started, completed, authority, seen>>

\* finalizeClaimSuccess() throws, before its commit or after it: the delivery is
\* then finalized as failed.
SuccessThrows(w) ==
  /\ pc[w] = "settle" /\ held[w].result = "accepted"
  /\ row' = row \/ WriteOwned(w, "PENDING")
  /\ held' = [held EXCEPT ![w].result = "failed"]
  /\ UNCHANGED <<lapsed, accepted, started, completed, authority, seen, pc, processed>>

\* The others throw: the delivery is left claimed.
FinalizeThrows(w) ==
  /\ pc[w] = "settle" /\ held[w].result # "accepted"
  /\ Proceed(w)
  /\ UNCHANGED <<row, lapsed, accepted, started, completed, authority, seen>>

-----------------------------------------------------------------------------
InFlight == started \ completed

Eligible == {d \in Verifications : Claimable(d)}

\* reserve(): the row is FAILED before anything is sent
Reserve(b, d) ==
  /\ pc[b] = "idle"
  /\ ~ EnvironmentMail
  /\ InFlight = {}
  /\ authority = "unset"
  /\ Eligible = {d}
  /\ TakeClaim(b, d, "UNCERTAIN")
  /\ started' = started \cup {<<d, row[d].attempts + 1>>}
  /\ Goto(b, "revalidate")
  /\ UNCHANGED <<lapsed, accepted, completed, authority, seen, processed>>

\* revalidateBeforeSend()
Revalidate(b) ==
  /\ pc[b] = "revalidate"
  /\ authority = "unset"
  /\ Owned(b, "UNCERTAIN")
  /\ held[b].claim \notin lapsed[held[b].delivery]
  /\ Goto(b, "send")
  /\ UNCHANGED <<row, lapsed, accepted, started, completed, authority, seen, held, processed>>

\* ... refuses, for these or for other reasons; or the credential cannot be read
NotSent(b) ==
  /\ pc[b] = "revalidate"
  /\ held' = [held EXCEPT ![b].result = "failed"]
  /\ Goto(b, "settle")
  /\ UNCHANGED <<row, lapsed, accepted, started, completed, authority, seen, processed>>

\* The answer does not tell whether the provider took the mail: the request ends
\* and the row stays as it is.
Ambiguous(b, taken) ==
  /\ pc[b] = "send"
  /\ accepted' = IF taken
                 THEN [accepted EXCEPT ![held[b].delivery] = @ \cup {held[b].claim}]
                 ELSE accepted
  /\ held' = [held EXCEPT ![b] = Unheld]
  /\ Goto(b, "idle")
  /\ UNCHANGED <<row, lapsed, started, completed, authority, seen, processed>>

\* Mutant of BootstrapSends: every error counts as a failure to deliver.
BootstrapRetries(b) ==
  \/ SendEnds(b, "accepted", TRUE)
  \/ \E taken \in BOOLEAN : SendEnds(b, "failed", taken)
  \/ SendEnds(b, "stale", FALSE)

\* A failure is recorded as one only if the provider certainly has not the mail.
BootstrapSends(b) ==
  \/ SendEnds(b, "accepted", TRUE)
  \/ SendEnds(b, "failed", FALSE)
  \/ SendEnds(b, "stale", FALSE)
  \/ \E taken \in BOOLEAN : Ambiguous(b, taken)

\* finalize()
BootstrapSettles(b) ==
  /\ pc[b] = "settle"
  /\ WriteOwned(b, "UNCERTAIN")
  /\ completed' = IF Owned(b, "UNCERTAIN")
                  THEN completed \cup {<<held[b].delivery, held[b].claim>>}
                  ELSE completed
  /\ held' = [held EXCEPT ![b] = Unheld]
  /\ Goto(b, "idle")
  /\ UNCHANGED <<lapsed, accepted, started, authority, seen, processed>>

\* A process dies with a delivery in hand; or finalize() throws, for a bootstrap.
Crash(p) ==
  /\ held[p] # Unheld
  /\ held' = [held EXCEPT ![p] = Unheld]
  /\ Goto(p, "idle")
  /\ UNCHANGED <<row, lapsed, accepted, started, completed, authority, seen, processed>>

-----------------------------------------------------------------------------
\* select(): its snapshot is taken by the statement that asks for the lock.
BeginSelect ==
  /\ seen = None
  /\ seen' = InFlight
  /\ UNCHANGED <<row, lapsed, accepted, started, completed, authority, pc, held, processed>>

Select ==
  /\ seen = {}
  /\ authority' = "enabled"
  /\ seen' = None
  /\ UNCHANGED <<row, lapsed, accepted, started, completed, pc, held, processed>>

SelectRefused ==
  /\ seen # None
  /\ seen' = None
  /\ UNCHANGED <<row, lapsed, accepted, started, completed, authority, pc, held, processed>>

\* toggle(): what it reads is as of each statement, once it has the lock.
Toggle ==
  /\ InFlight = {}
  /\ authority # "unset"
  /\ authority' \in {"enabled", "disabled"} \ {authority}
  /\ UNCHANGED <<row, lapsed, accepted, started, completed, seen, pc, held, processed>>

\* Time: a claim expires, a retry falls due.
Lapse(d) ==
  /\ row[d].claim # None
  /\ row[d].claim \notin lapsed[d]
  /\ lapsed' = [lapsed EXCEPT ![d] = @ \cup {row[d].claim}]
  /\ UNCHANGED <<row, accepted, started, completed, authority, seen, pc, held, processed>>

FallDue(d) ==
  /\ ~ row[d].due
  /\ row' = [row EXCEPT ![d].due = TRUE]
  /\ UNCHANGED <<lapsed, accepted, started, completed, authority, seen, pc, held, processed>>

WorkerStep(w) ==
  \/ Tick(w)
  \/ \E d \in Deliveries : Claim(w, d)
  \/ NothingToClaim(w)
  \/ WorkerSends(w) \/ WorkerSettles(w) \/ SuccessThrows(w) \/ FinalizeThrows(w)

BootstrapStep(b) ==
  \/ \E d \in Verifications : Reserve(b, d)
  \/ Revalidate(b) \/ NotSent(b) \/ BootstrapSends(b) \/ BootstrapSettles(b)

Next ==
  \/ \E w \in Workers : WorkerStep(w)
  \/ \E b \in Bootstraps : BootstrapStep(b)
  \/ \E p \in Processes : Crash(p)
  \/ BeginSelect \/ Select \/ SelectRefused \/ Toggle
  \/ \E d \in Deliveries : Lapse(d) \/ FallDue(d)

Spec == Init /\ [][Next]_vars

\* The worker runs every minute, a transport times out, time passes.  Nothing
\* makes an operator enable the authority or a bootstrap be requested.
Fairness ==
  /\ \A w \in Workers : WF_vars(WorkerStep(w))
  /\ \A d \in Deliveries : WF_vars(Lapse(d)) /\ WF_vars(FallDue(d))

FairSpec == Spec /\ Fairness

-----------------------------------------------------------------------------
\* A process that is sending within its lease has the row to itself: no other
\* process, however late, has finalized it or claimed it over.
LeaseExclusive ==
  \A p \in Processes :
    pc[p] = "send" /\ held[p].claim \notin lapsed[held[p].delivery] =>
      Owned(p, IF p \in Workers THEN "PENDING" ELSE "UNCERTAIN")

\* An e-mail that a bootstrap may have got through is never sent again, by a
\* worker or by another bootstrap.
QuarantineHolds ==
  \A d \in Deliveries, k \in Claims :
    <<d, k>> \in started /\ k \in accepted[d] => row[d].attempts = k

\* What is finalized stays so: late, repeated and crossed finalizations miss.
TerminalIsFinal ==
  [][\A d \in Deliveries :
       row[d].status \in {"DELIVERED", "FAILED", "CANCELLED"} => row'[d] = row[d]]_vars

\* A delivery that may be tried again is: crashes, expired claims and failed
\* finalizations strand no row before its last attempt.
RetryComes ==
  <>[]Usable => \A d \in Deliveries :
    row[d].status = "PENDING" /\ row[d].attempts < MaxAttempts ~>
      row[d].status # "PENDING" \/ row[d].attempts = MaxAttempts
=============================================================================
