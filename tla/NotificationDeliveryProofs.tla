---------------------- MODULE NotificationDeliveryProofs ----------------------
(* Proofs about NotificationDelivery, for any number of deliveries, workers  *)
(* and bootstraps, and any bounds.                                           *)
EXTENDS NotificationDelivery, TLAPS

Holding(p) == pc[p] \in {"revalidate", "send", "settle"}

\* Who holds a delivery holds a claim that was drawn for it.
HoldersTyped ==
  \A p \in Processes :
    /\ Holding(p) => /\ held[p].delivery \in Deliveries
                     /\ held[p].claim \in Claims
                     /\ held[p].claim <= row[held[p].delivery].attempts
    /\ ~ Holding(p) => held[p] = Unheld

LabelsTyped ==
  /\ \A w \in Workers : /\ pc[w] # "revalidate"
                        /\ pc[w] # "idle" => processed[w] < BatchLimit
  /\ \A b \in Bootstraps : pc[b] # "claim"

\* No claim is drawn twice.
ClaimsDistinct ==
  \A p, q \in Processes :
    Holding(p) /\ Holding(q) /\ held[p].delivery = held[q].delivery /\ held[p].claim = held[q].claim
      => p = q

RowsCoherent ==
  \A d \in Deliveries :
    /\ row[d].claim # None => row[d].claim = row[d].attempts
    /\ row[d].status \in {"DELIVERED", "FAILED", "CANCELLED"} => row[d].due

\* A bootstrap's row waits for it, and was audited; its mail is not out, unless
\* that is what it is about to record.
BootstrapOwns ==
  \A b \in Bootstraps : Holding(b) =>
    /\ Owned(b, "UNCERTAIN")
    /\ <<held[b].delivery, held[b].claim>> \in started
    /\ held[b].claim \in accepted[held[b].delivery] =>
         pc[b] = "settle" /\ held[b].result = "accepted"

WorkersUnaudited ==
  \A w \in Workers : Holding(w) => <<held[w].delivery, held[w].claim>> \notin started

HistoryBounded ==
  \A d \in Deliveries, k \in Claims :
    (<<d, k>> \in started \/ k \in accepted[d]) => k <= row[d].attempts

\* What a bootstrap may have got through is uncertain or delivered.
Quarantined ==
  \A d \in Deliveries, k \in Claims :
    <<d, k>> \in started /\ k \in accepted[d] =>
      row[d].attempts = k /\ row[d].status \in {"UNCERTAIN", "DELIVERED"}

IInv ==
  /\ TypeOK
  /\ HoldersTyped /\ LabelsTyped /\ ClaimsDistinct
  /\ RowsCoherent
  /\ BootstrapOwns /\ WorkersUnaudited
  /\ HistoryBounded /\ Quarantined
  /\ LeaseExclusive

-----------------------------------------------------------------------------
(* Facts about the data                                                      *)

LEMMA Successor ==
  ASSUME NEW n \in 0 .. MaxAttempts, n < MaxAttempts
  PROVE  /\ n + 1 \in Claims /\ n + 1 \in 0 .. MaxAttempts
         /\ \A k \in Claims : k <= n => k # n + 1 /\ k <= n + 1
  BY NotificationDeliveryAssumption DEF Claims

LEMMA ClaimNotNone == \A k \in Claims : k # None
  BY NotificationDeliveryAssumption DEF Claims

LEMMA BatchSuccessor ==
  ASSUME NEW n \in 0 .. BatchLimit, n < BatchLimit
  PROVE  n + 1 \in 0 .. BatchLimit
  BY NotificationDeliveryAssumption

LEMMA ProcessesDisjoint ==
  ASSUME NEW p \in Processes
  PROVE  (p \in Workers /\ p \notin Bootstraps) \/ (p \in Bootstraps /\ p \notin Workers)
  BY NotificationDeliveryAssumption DEF Processes

\* The row that a finalization writes
LEMMA AfterSendRow ==
  ASSUME NEW p, NEW r \in Row
  PROVE  /\ AfterSend(p, r) \in Row
         /\ AfterSend(p, r).claim = None
         /\ AfterSend(p, r).attempts = r.attempts
         /\ AfterSend(p, r).status \in {"PENDING", "DELIVERED", "FAILED", "CANCELLED"}
         /\ AfterSend(p, r).status # "PENDING" => AfterSend(p, r).due
         /\ held[p].result = "accepted" => AfterSend(p, r).status = "DELIVERED"
<1>1. CASE held[p].result = "accepted"
  BY <1>1 DEF AfterSend, Settled, Row
<1>2. CASE held[p].result = "stale"
  BY <1>2 DEF AfterSend, Settled, Row
<1>3. CASE held[p].result \notin {"accepted", "stale"}
  <2>1. AfterSend(p, r) = AfterFailure(r, held[p].claim)
    BY <1>3 DEF AfterSend
  <2>2. CASE held[p].claim >= MaxAttempts
    <3>1. AfterFailure(r, held[p].claim)
            = [r EXCEPT !.claim = None, !.status = "FAILED", !.due = TRUE]
      BY <2>2 DEF AfterFailure
    <3>2. QED
      BY <1>3, <2>1, <3>1 DEF Row
  <2>3. CASE ~ (held[p].claim >= MaxAttempts)
    <3>1. AfterFailure(r, held[p].claim)
            = [r EXCEPT !.claim = None, !.status = "PENDING", !.due = FALSE]
      <4>1. (held[p].claim >= MaxAttempts) = FALSE
        BY <2>3
      <4>2. QED
        BY <2>3, <4>1 DEF AfterFailure
    <3>2. QED
      BY <1>3, <2>1, <3>1 DEF Row
  <2>4. QED
    BY <2>2, <2>3
<1>4. QED
  BY <1>1, <1>2, <1>3

\* What a finalization changes
Finalized(p, status, d) ==
  /\ d = held[p].delivery
  /\ row[d].status = status /\ row[d].claim = held[p].claim
  /\ row'[d].claim = None
  /\ row'[d].status \in {"PENDING", "DELIVERED", "FAILED", "CANCELLED"}
  /\ row'[d].status # "PENDING" => row'[d].due
  /\ held[p].result = "accepted" => row'[d].status = "DELIVERED"

LEMMA WriteOwnedEffect ==
  ASSUME TypeOK, NEW p, NEW status, WriteOwned(p, status)
  PROVE  /\ row' \in [Deliveries -> Row]
         /\ \A d \in Deliveries :
              /\ row'[d].attempts = row[d].attempts
              /\ row'[d] = row[d] \/ Finalized(p, status, d)
<1>1. CASE Owned(p, status) /\ held[p].delivery \in Deliveries
  <2> DEFINE e == held[p].delivery
             new == AfterSend(p, row[e])
  <2>1. row' = [row EXCEPT ![e] = new]
    BY <1>1 DEF WriteOwned
  <2>2. row[e] \in Row
    BY <1>1 DEF TypeOK
  <2>3. /\ new \in Row /\ new.claim = None /\ new.attempts = row[e].attempts
        /\ new.status \in {"PENDING", "DELIVERED", "FAILED", "CANCELLED"}
        /\ new.status # "PENDING" => new.due
        /\ held[p].result = "accepted" => new.status = "DELIVERED"
    BY <2>2, AfterSendRow
  <2> HIDE DEF new
  <2>4. row' \in [Deliveries -> Row] /\ row'[e] = new /\ \A d \in Deliveries \ {e} : row'[d] = row[d]
    BY <1>1, <2>1, <2>3 DEF TypeOK
  <2>5. QED
    BY <1>1, <2>3, <2>4 DEF Finalized, Owned
<1>2. CASE Owned(p, status) /\ held[p].delivery \notin Deliveries
  BY <1>2 DEF WriteOwned, TypeOK
<1>3. CASE ~ Owned(p, status)
  BY <1>3 DEF WriteOwned, TypeOK
<1>4. QED
  BY <1>1, <1>2, <1>3

-----------------------------------------------------------------------------
(* Steps of one process that keep the rows                                   *)

\* A process lets go of what it holds, or goes on without a delivery.
LEMMA ReleaseIInv ==
  ASSUME IInv, TypeOK', NEW p \in Processes,
         ~ Holding(p)', held'[p] = Unheld,
         p \in Bootstraps => pc'[p] # "claim",
         \A q \in Processes \ {p} : pc'[q] = pc[q] /\ held'[q] = held[q],
         \A w \in Workers : pc'[w] # "idle" => processed'[w] < BatchLimit,
         UNCHANGED <<row, lapsed, accepted, started>>
  PROVE  IInv'
<1> USE DEF IInv
<1>1. \A q \in Processes : Holding(q)' => Holding(q) /\ pc'[q] = pc[q] /\ held'[q] = held[q]
  BY DEF Holding
<1>2. HoldersTyped'
  BY <1>1 DEF HoldersTyped, Holding
<1>3. LabelsTyped'
  BY DEF LabelsTyped, Holding, Processes
<1>4. ClaimsDistinct'
  BY <1>1 DEF ClaimsDistinct
<1>5. RowsCoherent' /\ HistoryBounded' /\ Quarantined'
  BY DEF RowsCoherent, HistoryBounded, Quarantined
<1>6. BootstrapOwns' /\ WorkersUnaudited'
  BY <1>1 DEF BootstrapOwns, WorkersUnaudited, Owned, Processes
<1>7. LeaseExclusive'
  BY <1>1 DEF LeaseExclusive, Owned, Holding
<1>8. QED
  BY <1>2, <1>3, <1>4, <1>5, <1>6, <1>7

\* The lapse of a lease, the audit of a completion, the authority's changes and
\* a due retry leave what is held and what was sent.
LEMMA QuietIInv ==
  ASSUME IInv, TypeOK',
         \A d \in Deliveries : /\ row'[d].status = row[d].status
                               /\ row'[d].claim = row[d].claim
                               /\ row'[d].attempts = row[d].attempts
                               /\ row[d].due => row'[d].due
                               /\ lapsed[d] \subseteq lapsed'[d],
         UNCHANGED <<accepted, started, pc, held, processed>>
  PROVE  IInv'
<1> USE DEF IInv
<1>1. \A q : Holding(q)' = Holding(q)
  BY DEF Holding
<1>2. HoldersTyped' /\ LabelsTyped' /\ ClaimsDistinct'
  BY <1>1 DEF HoldersTyped, LabelsTyped, ClaimsDistinct
<1>3. RowsCoherent' /\ HistoryBounded' /\ Quarantined'
  BY DEF RowsCoherent, HistoryBounded, Quarantined
<1>4. \A q \in Processes : \A status : Holding(q) /\ Owned(q, status) => Owned(q, status)'
  BY DEF Owned, HoldersTyped
<1>5. BootstrapOwns' /\ WorkersUnaudited'
  BY <1>1, <1>4 DEF BootstrapOwns, WorkersUnaudited, Processes
<1>6. LeaseExclusive'
  BY <1>1, <1>4 DEF LeaseExclusive, Holding, HoldersTyped
<1>7. QED
  BY <1>2, <1>3, <1>5, <1>6

\* Sending ends, with the mail taken or not.
LEMMA SendEndsIInv ==
  ASSUME IInv, TypeOK', NEW p \in Processes, NEW result, NEW taken \in BOOLEAN,
         p \in Bootstraps => taken = (result = "accepted"),
         SendEnds(p, result, taken)
  PROVE  IInv'
<1> USE DEF IInv
<1>1. /\ pc[p] = "send" /\ Holding(p) /\ Holding(p)' /\ pc'[p] = "settle"
      /\ held'[p].delivery = held[p].delivery /\ held'[p].claim = held[p].claim
      /\ held'[p].result = result
      /\ \A q \in Processes \ {p} : pc'[q] = pc[q] /\ held'[q] = held[q]
      /\ UNCHANGED <<row, lapsed, started, processed>>
  BY DEF SendEnds, Goto, Holding, TypeOK, Held
<1>2. \A q \in Processes : /\ Holding(q)' = Holding(q)
                           /\ held'[q].delivery = held[q].delivery
                           /\ held'[q].claim = held[q].claim
  BY <1>1 DEF Holding
<1>3. \A d \in Deliveries, k \in Claims :
        k \in accepted'[d] =>
          k \in accepted[d] \/ (taken /\ d = held[p].delivery /\ k = held[p].claim)
  BY DEF SendEnds, TypeOK
<1>4. HoldersTyped'
  BY <1>1, <1>2 DEF HoldersTyped
<1>5. LabelsTyped'
  BY <1>1 DEF LabelsTyped, Processes
<1>6. ClaimsDistinct'
  BY <1>2 DEF ClaimsDistinct
<1>7. RowsCoherent'
  BY <1>1 DEF RowsCoherent
<1>8. \A q \in Processes : \A status : Owned(q, status)' = Owned(q, status)
  BY <1>1, <1>2 DEF Owned
<1>9. BootstrapOwns'
  <2> SUFFICES ASSUME NEW b \in Bootstraps, Holding(b)'
               PROVE  /\ Owned(b, "UNCERTAIN")'
                      /\ <<held'[b].delivery, held'[b].claim>> \in started'
                      /\ held'[b].claim \in accepted'[held'[b].delivery] =>
                           pc'[b] = "settle" /\ held'[b].result = "accepted"
    BY DEF BootstrapOwns
  <2>1. b \in Processes /\ Holding(b) /\ held[b].delivery \in Deliveries /\ held[b].claim \in Claims
    BY <1>2 DEF Processes, HoldersTyped
  <2>2. CASE b = p
    BY <1>1, <1>2, <1>3, <1>8, <2>1, <2>2 DEF BootstrapOwns
  <2>3. CASE b # p
    BY <1>1, <1>2, <1>3, <1>8, <2>1, <2>3 DEF BootstrapOwns, ClaimsDistinct
  <2>4. QED
    BY <2>2, <2>3
<1>10. WorkersUnaudited'
  BY <1>1, <1>2 DEF WorkersUnaudited, Processes
<1>11. HistoryBounded'
  BY <1>1, <1>3 DEF HistoryBounded, HoldersTyped
<1>12. Quarantined'
  <2> SUFFICES ASSUME NEW d \in Deliveries, NEW k \in Claims, <<d, k>> \in started, k \in accepted'[d]
               PROVE  row[d].attempts = k /\ row[d].status \in {"UNCERTAIN", "DELIVERED"}
    BY <1>1 DEF Quarantined
  <2>1. CASE k \in accepted[d]
    BY <2>1 DEF Quarantined
  <2>2. CASE d = held[p].delivery /\ k = held[p].claim
    <3>1. p \in Bootstraps
      BY <1>1, <2>2, ProcessesDisjoint DEF WorkersUnaudited
    <3>2. Owned(p, "UNCERTAIN")
      BY <1>1, <3>1 DEF BootstrapOwns
    <3>3. k # None
      BY ClaimNotNone
    <3>4. QED
      BY <2>2, <3>2, <3>3 DEF Owned, RowsCoherent
  <2>3. QED
    BY <1>3, <2>1, <2>2
<1>13. LeaseExclusive'
  BY <1>1, <1>2, <1>8 DEF LeaseExclusive
<1>14. QED
  BY <1>4, <1>5, <1>6, <1>7, <1>9, <1>10, <1>11, <1>12, <1>13

-----------------------------------------------------------------------------
(* Steps that write rows                                                     *)

\* A row is claimed, by a worker or by a bootstrap.
LEMMA TakeClaimIInv ==
  ASSUME IInv, TypeOK', NEW p \in Processes, NEW d \in Deliveries, NEW status,
         Claimable(d), ~ Holding(p), TakeClaim(p, d, status),
         \/ /\ p \in Workers /\ pc[p] # "idle" /\ status = "PENDING" /\ Goto(p, "send")
            /\ started' = started
         \/ /\ p \in Bootstraps /\ status = "UNCERTAIN" /\ Goto(p, "revalidate")
            /\ started' = started \cup {<<d, row[d].attempts + 1>>},
         UNCHANGED <<lapsed, accepted, processed>>
  PROVE  IInv'
<1> USE DEF IInv
<1> DEFINE n == row[d].attempts + 1
<1>1. /\ n \in Claims
      /\ row[d].attempts \in 0 .. MaxAttempts
      /\ \A k \in Claims : k <= row[d].attempts => k # n /\ k <= n
  BY Successor DEF Claimable, TypeOK, Row
<1>2. /\ row'[d] = [status |-> status, attempts |-> n, due |-> TRUE, claim |-> n]
      /\ \A e \in Deliveries \ {d} : row'[e] = row[e]
  BY DEF TakeClaim, TypeOK
<1>3. /\ held'[p] = [delivery |-> d, claim |-> n, result |-> "none"]
      /\ Holding(p)' /\ pc'[p] # "settle"
      /\ \A q \in Processes \ {p} : pc'[q] = pc[q] /\ held'[q] = held[q]
      /\ p \in Workers => /\ pc[p] # "idle" /\ pc'[p] = "send" /\ status = "PENDING"
                          /\ started' = started
      /\ p \in Bootstraps => /\ pc'[p] = "revalidate" /\ status = "UNCERTAIN"
                             /\ started' = started \cup {<<d, n>>}
  BY ProcessesDisjoint DEF TakeClaim, TypeOK, Goto, Holding
<1>4. row'[d].status = status /\ row'[d].attempts = n /\ row'[d].due /\ row'[d].claim = n
  BY <1>2
<1>5. n <= n
  BY <1>1 DEF Claims
<1> HIDE DEF n
<1>6. \A q \in Processes \ {p} :
        /\ Holding(q)' = Holding(q)
        /\ Holding(q) => /\ held[q].delivery \in Deliveries /\ held[q].claim \in Claims
                         /\ held[q].delivery = d => held[q].claim # n /\ held[q].claim <= n
  BY <1>1, <1>3 DEF Holding, HoldersTyped
<1>7. HoldersTyped'
  BY <1>1, <1>2, <1>3, <1>4, <1>5, <1>6 DEF HoldersTyped
<1>8. LabelsTyped'
  BY <1>3, ProcessesDisjoint DEF LabelsTyped, Processes
<1>9. ClaimsDistinct'
  BY <1>3, <1>6 DEF ClaimsDistinct
<1>10. RowsCoherent'
  BY <1>2, <1>4 DEF RowsCoherent
<1>11. HistoryBounded'
  BY <1>1, <1>2, <1>3, <1>4, <1>5, ProcessesDisjoint DEF HistoryBounded
<1>12. \A k \in Claims : k \in accepted[d] => k # n
  BY <1>1 DEF HistoryBounded
<1>13. \A k \in Claims : <<d, k>> \in started => k # n
  BY <1>1 DEF HistoryBounded
<1>14. ASSUME NEW b \in Bootstraps, Holding(b)', b # p
       PROVE  held[b].delivery # d /\ b \in Processes /\ Holding(b)
  BY <1>14, <1>6 DEF BootstrapOwns, Owned, Claimable, Processes
<1>15. BootstrapOwns'
  <2> SUFFICES ASSUME NEW b \in Bootstraps, Holding(b)'
               PROVE  /\ Owned(b, "UNCERTAIN")'
                      /\ <<held'[b].delivery, held'[b].claim>> \in started'
                      /\ held'[b].claim \in accepted'[held'[b].delivery] =>
                           pc'[b] = "settle" /\ held'[b].result = "accepted"
    BY DEF BootstrapOwns
  <2>1. CASE b = p
    BY <1>1, <1>3, <1>4, <1>12, <2>1 DEF Owned
  <2>2. CASE b # p
    <3>1. held[b].delivery \in Deliveries \ {d} /\ held'[b] = held[b] /\ pc'[b] = pc[b] /\ Holding(b)
      BY <1>3, <1>6, <1>14, <2>2
    <3>2. started \subseteq started'
      BY <1>3, ProcessesDisjoint
    <3>3. QED
      BY <1>2, <3>1, <3>2 DEF BootstrapOwns, Owned
  <2>3. QED
    BY <2>1, <2>2
<1>16. WorkersUnaudited'
  <2> SUFFICES ASSUME NEW w \in Workers, Holding(w)'
               PROVE  <<held'[w].delivery, held'[w].claim>> \notin started'
    BY DEF WorkersUnaudited
  <2>1. CASE w = p
    BY <1>1, <1>3, <1>13, <2>1
  <2>2. CASE w # p
    <3>1. w \in Processes /\ Holding(w) /\ held'[w] = held[w]
      BY <1>3, <1>6, <2>2 DEF Processes
    <3>2. <<held[w].delivery, held[w].claim>> # <<d, n>>
      BY <1>6, <2>2, <3>1
    <3>3. QED
      BY <1>3, <3>1, <3>2, ProcessesDisjoint DEF WorkersUnaudited
  <2>3. QED
    BY <2>1, <2>2
<1>17. Quarantined'
  <2> SUFFICES ASSUME NEW e \in Deliveries, NEW k \in Claims, <<e, k>> \in started', k \in accepted[e]
               PROVE  row'[e].attempts = k /\ row'[e].status \in {"UNCERTAIN", "DELIVERED"}
    BY DEF Quarantined
  <2>1. <<e, k>> # <<d, n>>
    BY <1>12
  <2>2. <<e, k>> \in started
    BY <1>3, <2>1, ProcessesDisjoint
  <2>3. e # d
    BY <2>2 DEF Quarantined, Claimable
  <2>4. QED
    BY <1>2, <2>2, <2>3 DEF Quarantined
<1>18. LeaseExclusive'
  <2> SUFFICES ASSUME NEW q \in Processes, pc'[q] = "send",
                      held'[q].claim \notin lapsed[held'[q].delivery]
               PROVE  Owned(q, IF q \in Workers THEN "PENDING" ELSE "UNCERTAIN")'
    BY DEF LeaseExclusive
  <2>1. CASE q = p
    BY <1>3, <1>4, <2>1, ProcessesDisjoint DEF Owned
  <2>2. CASE q # p
    <3>1. /\ held'[q] = held[q] /\ pc[q] = "send" /\ held[q].delivery \in Deliveries
          /\ held[q].claim \in Claims
      BY <1>3, <1>6, <2>2 DEF Holding
    <3>2. Owned(q, IF q \in Workers THEN "PENDING" ELSE "UNCERTAIN")
      BY <3>1 DEF LeaseExclusive
    <3>3. held[q].delivery # d
      BY <3>1, <3>2, ClaimNotNone DEF Claimable, Owned
    <3>4. QED
      BY <1>2, <3>1, <3>2, <3>3 DEF Owned
  <2>3. QED
    BY <2>1, <2>2
<1>19. QED
  BY <1>7, <1>8, <1>9, <1>10, <1>11, <1>15, <1>16, <1>17, <1>18

\* A delivery is finalized, or found not to be owned any more; the process lets
\* it go, or keeps it to finalize it as failed.
LEMMA SettleIInv ==
  ASSUME IInv, TypeOK', NEW p \in Processes, NEW status, pc[p] = "settle",
         p \in Workers => status = "PENDING",
         p \in Bootstraps => status = "UNCERTAIN",
         WriteOwned(p, status),
         \/ /\ p \in Workers
            /\ UNCHANGED <<pc, processed>> /\ held' = [held EXCEPT ![p].result = "failed"]
         \/ ~ Holding(p)' /\ held'[p] = Unheld,
         p \in Bootstraps => pc'[p] # "claim",
         \A q \in Processes \ {p} : pc'[q] = pc[q] /\ held'[q] = held[q],
         \A w \in Workers : pc'[w] # "idle" => processed'[w] < BatchLimit,
         UNCHANGED <<lapsed, accepted, started>>
  PROVE  IInv'
<1> USE DEF IInv
<1>1. \A d \in Deliveries :
        /\ row'[d].attempts = row[d].attempts
        /\ row'[d] = row[d] \/ Finalized(p, status, d)
  BY WriteOwnedEffect
<1>2. Holding(p) /\ held[p].delivery \in Deliveries /\ held[p].claim \in Claims
  BY DEF Holding, HoldersTyped
<1>3. \A q \in Processes : Holding(q)' =>
        /\ Holding(q) /\ pc'[q] = pc[q]
        /\ held'[q].delivery = held[q].delivery /\ held'[q].claim = held[q].claim
        /\ q # p => held'[q] = held[q]
        /\ q = p => p \in Workers
  BY DEF Holding, TypeOK, Held
<1>4. HoldersTyped'
  <2> SUFFICES ASSUME NEW q \in Processes
               PROVE  /\ Holding(q)' => /\ held'[q].delivery \in Deliveries
                                        /\ held'[q].claim \in Claims
                                        /\ held'[q].claim <= row'[held'[q].delivery].attempts
                      /\ ~ Holding(q)' => held'[q] = Unheld
    BY DEF HoldersTyped
  <2>1. CASE Holding(q)'
    BY <1>1, <1>3, <2>1 DEF HoldersTyped
  <2>2. CASE ~ Holding(q)'
    BY <1>2, <2>2 DEF HoldersTyped, Holding
  <2>3. QED
    BY <2>1, <2>2
<1>5. LabelsTyped'
  BY <1>3 DEF LabelsTyped, Holding, Processes
<1>6. ClaimsDistinct'
  BY <1>3 DEF ClaimsDistinct
<1>7. RowsCoherent'
  <2> SUFFICES ASSUME NEW d \in Deliveries
               PROVE  /\ row'[d].claim # None => row'[d].claim = row'[d].attempts
                      /\ row'[d].status \in {"DELIVERED", "FAILED", "CANCELLED"} => row'[d].due
    BY DEF RowsCoherent
  <2>1. CASE row'[d] = row[d]
    BY <2>1 DEF RowsCoherent
  <2>2. CASE Finalized(p, status, d)
    BY <2>2 DEF Finalized
  <2>3. QED
    BY <1>1, <2>1, <2>2
<1>8. HistoryBounded'
  BY <1>1 DEF HistoryBounded
<1>9. \A q \in Processes : \A s :
        Holding(q) /\ Holding(q)' /\ q # p /\ Owned(q, s) => Owned(q, s)'
  <2> SUFFICES ASSUME NEW q \in Processes, NEW s, Holding(q), q # p, Owned(q, s)
               PROVE  Owned(q, s)'
    OBVIOUS
  <2>1. held[q].delivery \in Deliveries /\ held'[q] = held[q]
    BY DEF HoldersTyped
  <2>2. ~ Finalized(p, status, held[q].delivery)
    BY <1>2 DEF Finalized, ClaimsDistinct, Owned
  <2>3. QED
    BY <1>1, <2>1, <2>2 DEF Owned
<1>10. BootstrapOwns'
  <2> SUFFICES ASSUME NEW b \in Bootstraps, Holding(b)'
               PROVE  /\ Owned(b, "UNCERTAIN")'
                      /\ <<held'[b].delivery, held'[b].claim>> \in started'
                      /\ held'[b].claim \in accepted'[held'[b].delivery] =>
                           pc'[b] = "settle" /\ held'[b].result = "accepted"
    BY DEF BootstrapOwns
  <2>1. b \in Processes /\ Holding(b) /\ b # p /\ held'[b] = held[b] /\ pc'[b] = pc[b]
    BY <1>3, ProcessesDisjoint DEF Processes
  <2>2. QED
    BY <1>9, <2>1 DEF BootstrapOwns
<1>11. WorkersUnaudited'
  BY <1>3 DEF WorkersUnaudited, Processes
<1>12. Quarantined'
  <2> SUFFICES ASSUME NEW d \in Deliveries, NEW k \in Claims, <<d, k>> \in started, k \in accepted[d]
               PROVE  row'[d].attempts = k /\ row'[d].status \in {"UNCERTAIN", "DELIVERED"}
    BY DEF Quarantined
  <2>1. row[d].attempts = k /\ row[d].status \in {"UNCERTAIN", "DELIVERED"}
    BY DEF Quarantined
  <2>2. CASE row'[d] = row[d]
    BY <2>1, <2>2
  <2>3. CASE Finalized(p, status, d)
    <3>1. p \in Bootstraps /\ d = held[p].delivery /\ row[d].claim = held[p].claim
      BY <2>1, <2>3, ProcessesDisjoint DEF Finalized
    <3>2. held[p].claim = k
      BY <1>2, <2>1, <3>1, ClaimNotNone DEF RowsCoherent
    <3>3. held[p].result = "accepted"
      BY <1>2, <3>1, <3>2 DEF BootstrapOwns
    <3>4. QED
      BY <1>1, <2>1, <2>3, <3>3 DEF Finalized
  <2>4. QED
    BY <1>1, <2>2, <2>3
<1>13. LeaseExclusive'
  <2> SUFFICES ASSUME NEW q \in Processes, pc'[q] = "send",
                      held'[q].claim \notin lapsed[held'[q].delivery]
               PROVE  Owned(q, IF q \in Workers THEN "PENDING" ELSE "UNCERTAIN")'
    BY DEF LeaseExclusive
  <2>1. Holding(q)'
    BY DEF Holding
  <2>2. q # p /\ held'[q] = held[q] /\ pc[q] = "send" /\ Holding(q)
    BY <1>3, <2>1
  <2>3. QED
    BY <1>9, <2>1, <2>2 DEF LeaseExclusive
<1>14. QED
  BY <1>4, <1>5, <1>6, <1>7, <1>8, <1>10, <1>11, <1>12, <1>13

\* A bootstrap that has its row still goes on to send, or does not send; or a
\* worker is to finalize its delivery as failed.
LEMMA DecideIInv ==
  ASSUME IInv, TypeOK', NEW p \in Processes,
         \/ p \in Bootstraps /\ (Revalidate(p) \/ NotSent(p))
         \/ /\ p \in Workers /\ pc[p] = "settle"
            /\ held' = [held EXCEPT ![p].result = "failed"]
            /\ UNCHANGED <<row, lapsed, accepted, started, pc, processed>>
  PROVE  IInv'
<1> USE DEF IInv
<1>1. /\ Holding(p) /\ Holding(p)'
      /\ p \in Bootstraps => pc[p] = "revalidate" /\ pc'[p] \in {"send", "settle"}
      /\ p \in Workers => pc'[p] = "settle"
      /\ held'[p].delivery = held[p].delivery /\ held'[p].claim = held[p].claim
      /\ \A q \in Processes \ {p} : pc'[q] = pc[q] /\ held'[q] = held[q]
      /\ UNCHANGED <<row, lapsed, accepted, started, processed>>
  BY ProcessesDisjoint DEF Revalidate, NotSent, Goto, Holding, TypeOK, Held
<1>2. \A q \in Processes : /\ Holding(q)' = Holding(q)
                           /\ held'[q].delivery = held[q].delivery
                           /\ held'[q].claim = held[q].claim
  BY <1>1 DEF Holding
<1>3. \A q \in Processes : \A status : Owned(q, status)' = Owned(q, status)
  BY <1>1, <1>2 DEF Owned
<1>4. HoldersTyped'
  BY <1>1, <1>2 DEF HoldersTyped
<1>5. LabelsTyped'
  <2>1. pc[p] # "idle" /\ p \in Workers => pc'[p] = "settle"
    BY <1>1
  <2>2. QED
    BY <1>1, <2>1, ProcessesDisjoint DEF LabelsTyped, Processes, Holding
<1>6. ClaimsDistinct'
  BY <1>2 DEF ClaimsDistinct
<1>7. RowsCoherent' /\ HistoryBounded' /\ Quarantined'
  BY <1>1 DEF RowsCoherent, HistoryBounded, Quarantined
<1>8. BootstrapOwns'
  BY <1>1, <1>2, <1>3 DEF BootstrapOwns, Processes
<1>9. WorkersUnaudited'
  BY <1>1, <1>2 DEF WorkersUnaudited, Processes
<1>10. LeaseExclusive'
  <2> SUFFICES ASSUME NEW q \in Processes, pc'[q] = "send",
                      held'[q].claim \notin lapsed[held'[q].delivery]
               PROVE  Owned(q, IF q \in Workers THEN "PENDING" ELSE "UNCERTAIN")
    BY <1>1, <1>3 DEF LeaseExclusive
  <2>1. CASE q = p
    BY <1>1, <2>1, ProcessesDisjoint DEF BootstrapOwns
  <2>2. CASE q # p
    BY <1>1, <1>2, <2>2 DEF LeaseExclusive
  <2>3. QED
    BY <2>1, <2>2
<1>11. QED
  BY <1>4, <1>5, <1>6, <1>7, <1>8, <1>9, <1>10

\* A bootstrap goes off without knowing whether the provider took its mail: the
\* row it leaves is uncertain.
LEMMA AmbiguousIInv ==
  ASSUME IInv, TypeOK', NEW b \in Bootstraps, NEW taken \in BOOLEAN, Ambiguous(b, taken)
  PROVE  IInv'
<1> USE DEF IInv
<1>1. /\ b \in Processes /\ pc[b] = "send" /\ Holding(b) /\ ~ Holding(b)'
      /\ pc'[b] = "idle" /\ held'[b] = Unheld
      /\ held[b].delivery \in Deliveries /\ held[b].claim \in Claims
      /\ \A q \in Processes \ {b} : pc'[q] = pc[q] /\ held'[q] = held[q]
      /\ UNCHANGED <<row, lapsed, started, processed>>
  BY DEF Ambiguous, Goto, Holding, TypeOK, Processes, HoldersTyped
<1>2. \A q \in Processes : Holding(q)' =>
        q # b /\ Holding(q) /\ pc'[q] = pc[q] /\ held'[q] = held[q]
  BY <1>1 DEF Holding
<1>3. \A d \in Deliveries, k \in Claims :
        k \in accepted'[d] => k \in accepted[d] \/ (d = held[b].delivery /\ k = held[b].claim)
  BY <1>1 DEF Ambiguous, TypeOK
<1>4. HoldersTyped'
  <2>1. \A q \in Processes : ~ Holding(q)' => held'[q] = Unheld
    BY <1>1 DEF HoldersTyped, Holding
  <2>2. QED
    BY <1>1, <1>2, <2>1 DEF HoldersTyped
<1>5. LabelsTyped'
  BY <1>1, ProcessesDisjoint DEF LabelsTyped, Processes
<1>6. ClaimsDistinct'
  BY <1>2 DEF ClaimsDistinct
<1>7. RowsCoherent'
  BY <1>1 DEF RowsCoherent
<1>8. BootstrapOwns'
  <2> SUFFICES ASSUME NEW c \in Bootstraps, Holding(c)'
               PROVE  /\ Owned(c, "UNCERTAIN")'
                      /\ <<held'[c].delivery, held'[c].claim>> \in started'
                      /\ held'[c].claim \in accepted'[held'[c].delivery] =>
                           pc'[c] = "settle" /\ held'[c].result = "accepted"
    BY DEF BootstrapOwns
  <2>1. /\ c \in Processes /\ Holding(c) /\ c # b /\ pc'[c] = pc[c] /\ held'[c] = held[c]
        /\ held[c].delivery \in Deliveries /\ held[c].claim \in Claims
    BY <1>2 DEF Processes, HoldersTyped
  <2>2. held[c].claim \in accepted'[held[c].delivery] => held[c].claim \in accepted[held[c].delivery]
    BY <1>1, <1>3, <2>1 DEF ClaimsDistinct
  <2>3. QED
    BY <1>1, <2>1, <2>2 DEF BootstrapOwns, Owned
<1>9. WorkersUnaudited'
  BY <1>1, <1>2 DEF WorkersUnaudited, Processes
<1>10. HistoryBounded'
  BY <1>1, <1>3 DEF HistoryBounded, HoldersTyped
<1>11. Quarantined'
  <2> SUFFICES ASSUME NEW d \in Deliveries, NEW k \in Claims, <<d, k>> \in started, k \in accepted'[d]
               PROVE  row[d].attempts = k /\ row[d].status \in {"UNCERTAIN", "DELIVERED"}
    BY <1>1 DEF Quarantined
  <2>1. CASE k \in accepted[d]
    BY <2>1 DEF Quarantined
  <2>2. CASE d = held[b].delivery /\ k = held[b].claim
    BY <1>1, <2>2, ClaimNotNone DEF BootstrapOwns, Owned, RowsCoherent
  <2>3. QED
    BY <1>3, <2>1, <2>2
<1>12. LeaseExclusive'
  <2>1. \A q \in Processes : pc'[q] = "send" => q # b /\ pc[q] = "send" /\ held'[q] = held[q]
    BY <1>1
  <2>2. QED
    BY <1>1, <2>1 DEF LeaseExclusive, Owned
<1>13. QED
  BY <1>4, <1>5, <1>6, <1>7, <1>8, <1>9, <1>10, <1>11, <1>12

-----------------------------------------------------------------------------
(* Every step has the types                                                  *)

LEMMA UnheldTyped == Unheld \in Held
  BY DEF Unheld, Held

LEMMA ResultTyped ==
  ASSUME NEW h \in Held, NEW result \in {"none", "accepted", "failed", "stale"}
  PROVE  [h EXCEPT !.result = result] \in Held
  BY DEF Held

LEMMA GotoTyped ==
  ASSUME TypeOK, NEW p \in Processes, NEW label \in {"idle", "claim", "revalidate", "send", "settle"},
         Goto(p, label)
  PROVE  pc' \in [Processes -> {"idle", "claim", "revalidate", "send", "settle"}]
  BY DEF TypeOK, Goto

LEMMA InitIInv == Init => IInv
<1> SUFFICES ASSUME Init PROVE IInv
  OBVIOUS
<1>1. TypeOK
  <2>1. [status |-> "PENDING", attempts |-> 0, due |-> TRUE, claim |-> None] \in Row
    BY NotificationDeliveryAssumption DEF Row
  <2>2. row \in [Deliveries -> Row] /\ held \in [Processes -> Held]
    BY <2>1, UnheldTyped DEF Init
  <2>3. processed \in [Workers -> 0 .. BatchLimit]
    BY NotificationDeliveryAssumption DEF Init
  <2>4. QED
    BY <2>2, <2>3 DEF Init, TypeOK
<1>2. \A p \in Processes : pc[p] = "idle" /\ held[p] = Unheld /\ ~ Holding(p)
  BY DEF Init, Holding
<1>3. \A d \in Deliveries : /\ row[d].status = "PENDING" /\ row[d].claim = None
                            /\ accepted[d] = {}
  BY DEF Init
<1>4. HoldersTyped /\ LabelsTyped /\ ClaimsDistinct /\ LeaseExclusive
  BY <1>2 DEF HoldersTyped, LabelsTyped, ClaimsDistinct, LeaseExclusive, Processes
<1>5. BootstrapOwns /\ WorkersUnaudited
  BY <1>2 DEF BootstrapOwns, WorkersUnaudited, Processes
<1>6. RowsCoherent /\ HistoryBounded /\ Quarantined
  BY <1>3 DEF Init, RowsCoherent, HistoryBounded, Quarantined
<1>7. QED
  BY <1>1, <1>4, <1>5, <1>6 DEF IInv

\* The claim of a row, by a worker or by a bootstrap
LEMMA TakeClaimTyped ==
  ASSUME TypeOK, NEW p \in Processes, NEW d \in Deliveries, NEW status \in {"PENDING", "UNCERTAIN"},
         Claimable(d), TakeClaim(p, d, status)
  PROVE  /\ row' \in [Deliveries -> Row] /\ held' \in [Processes -> Held]
         /\ <<d, row[d].attempts + 1>> \in Dispatches
<1> DEFINE n == row[d].attempts + 1
<1>1. n \in Claims /\ n \in 0 .. MaxAttempts
  BY Successor DEF Claimable, TypeOK, Row
<1>2. /\ row' = [row EXCEPT ![d] = [status |-> status, attempts |-> n, due |-> TRUE, claim |-> n]]
      /\ held' = [held EXCEPT ![p] = [delivery |-> d, claim |-> n, result |-> "none"]]
  BY DEF TakeClaim
<1> HIDE DEF n
<1>3. /\ [status |-> status, attempts |-> n, due |-> TRUE, claim |-> n] \in Row
      /\ [delivery |-> d, claim |-> n, result |-> "none"] \in Held
  BY <1>1 DEF Row, Held
<1>4. row' \in [Deliveries -> Row] /\ held' \in [Processes -> Held]
  BY <1>2, <1>3 DEF TypeOK
<1>5. QED
  BY <1>1, <1>4 DEF n, Dispatches

LEMMA SendTyped ==
  ASSUME IInv, NEW p \in Processes, NEW taken \in BOOLEAN, pc[p] = "send",
         accepted' = IF taken
                     THEN [accepted EXCEPT ![held[p].delivery] = @ \cup {held[p].claim}]
                     ELSE accepted
  PROVE  accepted' \in [Deliveries -> SUBSET Claims]
<1>1. held[p].delivery \in Deliveries /\ held[p].claim \in Claims
  BY DEF IInv, HoldersTyped, Holding
<1>2. QED
  BY <1>1 DEF IInv, TypeOK

LEMMA ProceedTyped ==
  ASSUME IInv, NEW w \in Workers, pc[w] = "settle", Proceed(w)
  PROVE  /\ held' \in [Processes -> Held]
         /\ processed' \in [Workers -> 0 .. BatchLimit]
         /\ pc' \in [Processes -> {"idle", "claim", "revalidate", "send", "settle"}]
         /\ pc'[w] \in {"claim", "idle"} /\ held'[w] = Unheld
         /\ \A q \in Processes \ {w} : pc'[q] = pc[q] /\ held'[q] = held[q]
         /\ \A v \in Workers : pc'[v] # "idle" => processed'[v] < BatchLimit
<1>1. w \in Processes
  BY DEF Processes
<1>2. processed[w] \in 0 .. BatchLimit /\ processed[w] < BatchLimit
  BY <1>1 DEF IInv, TypeOK, LabelsTyped
<1>3. processed[w] + 1 \in 0 .. BatchLimit
  BY <1>2, BatchSuccessor
<1>4. processed' \in [Workers -> 0 .. BatchLimit] /\ processed'[w] = processed[w] + 1
      /\ \A v \in Workers \ {w} : processed'[v] = processed[v]
  BY <1>3 DEF Proceed, IInv, TypeOK
<1>5. held' \in [Processes -> Held] /\ held'[w] = Unheld
      /\ \A q \in Processes \ {w} : held'[q] = held[q]
  BY <1>1, UnheldTyped DEF Proceed, IInv, TypeOK
<1> DEFINE label == IF processed[w] + 1 < BatchLimit THEN "claim" ELSE "idle"
<1>6. label \in {"claim", "idle"} /\ Goto(w, label)
  BY DEF Proceed
<1>7. label = "claim" => processed[w] + 1 < BatchLimit
  OBVIOUS
<1> HIDE DEF label
<1>8. pc' = [pc EXCEPT ![w] = label]
  BY <1>6 DEF Goto
<1>9. /\ pc' \in [Processes -> {"idle", "claim", "revalidate", "send", "settle"}]
      /\ pc'[w] = label /\ \A q \in Processes \ {w} : pc'[q] = pc[q]
  BY <1>1, <1>6, <1>8 DEF IInv, TypeOK
<1>10. \A v \in Workers : pc'[v] # "idle" => processed'[v] < BatchLimit
  BY <1>4, <1>6, <1>7, <1>9 DEF IInv, LabelsTyped, Processes
<1>11. QED
  BY <1>4, <1>5, <1>6, <1>9, <1>10


LEMMA SendEndsTyped ==
  ASSUME IInv, NEW p \in Processes, NEW result \in {"accepted", "failed", "stale"},
         NEW taken \in BOOLEAN, SendEnds(p, result, taken)
  PROVE  TypeOK'
<1>1. accepted' \in [Deliveries -> SUBSET Claims]
  BY SendTyped DEF SendEnds
<1>2. held' \in [Processes -> Held]
  <2>1. [held[p] EXCEPT !.result = result] \in Held
    BY ResultTyped DEF IInv, TypeOK
  <2>2. held' = [held EXCEPT ![p] = [held[p] EXCEPT !.result = result]]
    BY DEF SendEnds
  <2>3. QED
    BY <2>1, <2>2 DEF IInv, TypeOK
<1>3. pc' \in [Processes -> {"idle", "claim", "revalidate", "send", "settle"}]
  BY GotoTyped DEF SendEnds, IInv
<1>4. QED
  BY <1>1, <1>2, <1>3 DEF SendEnds, IInv, TypeOK

\* A process that ends its work on a delivery without a word to the database
LEMMA LetGoTyped ==
  ASSUME IInv, NEW p \in Processes, held' = [held EXCEPT ![p] = Unheld], Goto(p, "idle")
  PROVE  /\ held' \in [Processes -> Held]
         /\ pc' \in [Processes -> {"idle", "claim", "revalidate", "send", "settle"}]
         /\ pc'[p] = "idle" /\ held'[p] = Unheld /\ ~ Holding(p)'
         /\ \A q \in Processes \ {p} : pc'[q] = pc[q] /\ held'[q] = held[q]
<1>1. held' \in [Processes -> Held] /\ held'[p] = Unheld
      /\ \A q \in Processes \ {p} : held'[q] = held[q]
  BY UnheldTyped DEF IInv, TypeOK
<1>2. pc' \in [Processes -> {"idle", "claim", "revalidate", "send", "settle"}]
  BY GotoTyped DEF IInv
<1>3. pc'[p] = "idle" /\ \A q \in Processes \ {p} : pc'[q] = pc[q]
  BY DEF Goto, IInv, TypeOK
<1>4. QED
  BY <1>1, <1>2, <1>3 DEF Holding

-----------------------------------------------------------------------------
(* Every step preserves the invariant                                        *)

LEMMA WorkerStepIInv ==
  ASSUME IInv, NEW w \in Workers, WorkerStep(w)
  PROVE  IInv'
<1>1. w \in Processes /\ w \notin Bootstraps /\ TypeOK /\ LabelsTyped /\ HoldersTyped
  BY ProcessesDisjoint DEF Processes, IInv
<1>2. CASE Tick(w)
  <2>1. TypeOK'
    <3>1. pc' \in [Processes -> {"idle", "claim", "revalidate", "send", "settle"}]
      BY <1>1, <1>2, GotoTyped DEF Tick
    <3>2. processed' \in [Workers -> 0 .. BatchLimit]
      BY <1>1, <1>2, NotificationDeliveryAssumption DEF Tick, TypeOK
    <3>3. QED
      BY <1>1, <1>2, <3>1, <3>2 DEF Tick, TypeOK
  <2>2. /\ pc'[w] = "claim" /\ held' = held
        /\ \A q \in Processes \ {w} : pc'[q] = pc[q]
        /\ \A v \in Workers \ {w} : processed'[v] = processed[v]
        /\ processed'[w] = 0
    BY <1>1, <1>2 DEF Tick, Goto, TypeOK
  <2>3. held'[w] = Unheld /\ ~ Holding(w)'
    BY <1>1, <1>2, <2>2 DEF Tick, HoldersTyped, Holding
  <2>4. 0 < BatchLimit
    BY NotificationDeliveryAssumption
  <2>5. \A v \in Workers : pc'[v] # "idle" => processed'[v] < BatchLimit
    BY <1>1, <2>2, <2>4 DEF LabelsTyped, Processes
  <2>6. UNCHANGED <<row, lapsed, accepted, started>>
    BY <1>2 DEF Tick
  <2>7. QED
    BY <1>1, <2>1, <2>2, <2>3, <2>5, <2>6, ReleaseIInv
<1>3. CASE \E d \in Deliveries : Claim(w, d)
  <2> SUFFICES ASSUME NEW d \in Deliveries, Claim(w, d) PROVE IInv'
    BY <1>3
  <2>1. TypeOK'
    <3>1. row' \in [Deliveries -> Row] /\ held' \in [Processes -> Held]
      BY <1>1, TakeClaimTyped DEF Claim
    <3>2. pc' \in [Processes -> {"idle", "claim", "revalidate", "send", "settle"}]
      BY <1>1, GotoTyped DEF Claim
    <3>3. QED
      BY <1>1, <3>1, <3>2 DEF Claim, TypeOK
  <2>2. /\ Claimable(d) /\ ~ Holding(w) /\ TakeClaim(w, d, "PENDING") /\ pc[w] # "idle"
        /\ Goto(w, "send") /\ UNCHANGED <<lapsed, accepted, started, processed>>
    BY DEF Claim, Holding
  <2>3. QED
    BY <1>1, <2>1, <2>2, TakeClaimIInv
<1>4. CASE NothingToClaim(w)
  <2>1. TypeOK'
    <3>1. pc' \in [Processes -> {"idle", "claim", "revalidate", "send", "settle"}]
      BY <1>1, <1>4, GotoTyped DEF NothingToClaim
    <3>2. QED
      BY <1>1, <1>4, <3>1 DEF NothingToClaim, TypeOK
  <2>2. pc'[w] = "idle" /\ held' = held /\ processed' = processed
        /\ \A q \in Processes \ {w} : pc'[q] = pc[q]
    BY <1>1, <1>4 DEF NothingToClaim, Goto, TypeOK
  <2>3. held'[w] = Unheld /\ ~ Holding(w)'
    BY <1>1, <1>4, <2>2 DEF NothingToClaim, HoldersTyped, Holding
  <2>4. \A v \in Workers : pc'[v] # "idle" => processed'[v] < BatchLimit
    BY <1>1, <2>2 DEF LabelsTyped, Processes
  <2>5. UNCHANGED <<row, lapsed, accepted, started>>
    BY <1>4 DEF NothingToClaim
  <2>6. QED
    BY <1>1, <2>1, <2>2, <2>3, <2>4, <2>5, ReleaseIInv
<1>5. CASE WorkerSends(w)
  <2> SUFFICES ASSUME NEW result \in {"accepted", "failed", "stale"}, NEW taken \in BOOLEAN,
                      SendEnds(w, result, taken)
               PROVE  IInv'
    BY <1>5 DEF WorkerSends
  <2>1. TypeOK'
    BY <1>1, SendEndsTyped
  <2>2. QED
    BY <1>1, <2>1, SendEndsIInv
<1>6. CASE WorkerSettles(w)
  <2>1. /\ pc[w] = "settle" /\ WriteOwned(w, "PENDING") /\ Proceed(w)
        /\ UNCHANGED <<lapsed, accepted, started, completed, authority, seen>>
    BY <1>6 DEF WorkerSettles
  <2>2. row' \in [Deliveries -> Row]
    BY <1>1, <2>1, WriteOwnedEffect
  <2>3. TypeOK'
    BY <1>1, <2>1, <2>2, ProceedTyped DEF TypeOK
  <2>4. ~ Holding(w)'
    BY <2>1, ProceedTyped DEF Holding
  <2>5. /\ held'[w] = Unheld
        /\ \A q \in Processes \ {w} : pc'[q] = pc[q] /\ held'[q] = held[q]
        /\ \A v \in Workers : pc'[v] # "idle" => processed'[v] < BatchLimit
    BY <2>1, ProceedTyped
  <2>6. QED
    BY <1>1, <2>1, <2>3, <2>4, <2>5, SettleIInv
<1>7. CASE SuccessThrows(w)
  <2>1. /\ pc[w] = "settle" /\ held' = [held EXCEPT ![w].result = "failed"]
        /\ UNCHANGED <<lapsed, accepted, started, completed, authority, seen, pc, processed>>
        /\ row' = row \/ WriteOwned(w, "PENDING")
    BY <1>7 DEF SuccessThrows
  <2>2. row' \in [Deliveries -> Row]
    BY <1>1, <2>1, WriteOwnedEffect DEF TypeOK
  <2>3. TypeOK'
    <3>1. [held[w] EXCEPT !.result = "failed"] \in Held
      BY <1>1, ResultTyped DEF TypeOK
    <3>2. held' \in [Processes -> Held]
      BY <1>1, <2>1, <3>1 DEF TypeOK
    <3>3. QED
      BY <1>1, <2>1, <2>2, <3>2 DEF TypeOK
  <2>4. CASE row' = row
    <3>1. UNCHANGED <<row, lapsed, accepted, started, pc, processed>>
      BY <2>1, <2>4
    <3>2. QED
      BY <1>1, <2>1, <2>3, <3>1, DecideIInv
  <2>5. CASE WriteOwned(w, "PENDING")
    <3>1. \A q \in Processes \ {w} : pc'[q] = pc[q] /\ held'[q] = held[q]
      BY <1>1, <2>1 DEF TypeOK
    <3>2. \A v \in Workers : pc'[v] # "idle" => processed'[v] < BatchLimit
      BY <1>1, <2>1 DEF LabelsTyped
    <3>3. QED
      BY <1>1, <2>1, <2>3, <2>5, <3>1, <3>2, SettleIInv
  <2>6. QED
    BY <2>1, <2>4, <2>5
<1>8. CASE FinalizeThrows(w)
  <2>1. /\ pc[w] = "settle" /\ Proceed(w)
        /\ UNCHANGED <<row, lapsed, accepted, started, completed, authority, seen>>
    BY <1>8 DEF FinalizeThrows
  <2>2. TypeOK'
    BY <1>1, <2>1, ProceedTyped DEF TypeOK
  <2>3. ~ Holding(w)'
    BY <2>1, ProceedTyped DEF Holding
  <2>4. /\ held'[w] = Unheld
        /\ \A q \in Processes \ {w} : pc'[q] = pc[q] /\ held'[q] = held[q]
        /\ \A v \in Workers : pc'[v] # "idle" => processed'[v] < BatchLimit
    BY <2>1, ProceedTyped
  <2>5. QED
    BY <1>1, <2>1, <2>2, <2>3, <2>4, ReleaseIInv
<1>9. QED
  BY <1>2, <1>3, <1>4, <1>5, <1>6, <1>7, <1>8 DEF WorkerStep

LEMMA BootstrapStepIInv ==
  ASSUME IInv, NEW b \in Bootstraps, BootstrapStep(b)
  PROVE  IInv'
<1>1. b \in Processes /\ b \notin Workers /\ TypeOK /\ LabelsTyped /\ HoldersTyped
  BY ProcessesDisjoint DEF Processes, IInv
<1>2. CASE \E d \in Verifications : Reserve(b, d)
  <2> SUFFICES ASSUME NEW d \in Verifications, Reserve(b, d) PROVE IInv'
    BY <1>2
  <2>1. d \in Deliveries
    BY NotificationDeliveryAssumption
  <2>2. /\ Claimable(d) /\ ~ Holding(b) /\ TakeClaim(b, d, "UNCERTAIN") /\ Goto(b, "revalidate")
        /\ started' = started \cup {<<d, row[d].attempts + 1>>}
        /\ UNCHANGED <<lapsed, accepted, completed, authority, seen, processed>>
    BY DEF Reserve, Holding, Eligible
  <2>3. TypeOK'
    <3>1. /\ row' \in [Deliveries -> Row] /\ held' \in [Processes -> Held]
          /\ <<d, row[d].attempts + 1>> \in Dispatches
      BY <1>1, <2>1, <2>2, TakeClaimTyped
    <3>2. pc' \in [Processes -> {"idle", "claim", "revalidate", "send", "settle"}]
      BY <1>1, <2>2, GotoTyped
    <3>3. QED
      BY <1>1, <2>2, <3>1, <3>2 DEF TypeOK
  <2>4. QED
    BY <1>1, <2>1, <2>2, <2>3, TakeClaimIInv
<1>3. CASE Revalidate(b)
  <2>1. TypeOK'
    BY <1>1, <1>3, GotoTyped DEF Revalidate, TypeOK
  <2>2. QED
    BY <1>1, <1>3, <2>1, DecideIInv
<1>4. CASE NotSent(b)
  <2>1. TypeOK'
    <3>1. [held[b] EXCEPT !.result = "failed"] \in Held
      BY <1>1, ResultTyped DEF TypeOK
    <3>2. held' \in [Processes -> Held]
      BY <1>1, <1>4, <3>1 DEF NotSent, TypeOK
    <3>3. pc' \in [Processes -> {"idle", "claim", "revalidate", "send", "settle"}]
      BY <1>1, <1>4, GotoTyped DEF NotSent
    <3>4. QED
      BY <1>1, <1>4, <3>2, <3>3 DEF NotSent, TypeOK
  <2>2. QED
    BY <1>1, <1>4, <2>1, DecideIInv
<1>5. CASE BootstrapSends(b)
  <2>1. ASSUME NEW result \in {"accepted", "failed", "stale"}, NEW taken \in BOOLEAN,
               taken = (result = "accepted"), SendEnds(b, result, taken)
        PROVE  IInv'
    <3>1. TypeOK'
      BY <1>1, <2>1, SendEndsTyped
    <3>2. QED
      BY <1>1, <2>1, <3>1, SendEndsIInv
  <2>2. ASSUME NEW taken \in BOOLEAN, Ambiguous(b, taken)
        PROVE  IInv'
    <3>1. accepted' \in [Deliveries -> SUBSET Claims]
      BY <1>1, <2>2, SendTyped DEF Ambiguous
    <3>2. TypeOK'
      BY <1>1, <2>2, <3>1, LetGoTyped DEF Ambiguous, TypeOK
    <3>3. QED
      BY <2>2, <3>2, AmbiguousIInv
  <2>3. /\ SendEnds(b, "accepted", TRUE) => IInv'
        /\ SendEnds(b, "failed", FALSE) => IInv'
        /\ SendEnds(b, "stale", FALSE) => IInv'
    BY <2>1
  <2>4. QED
    BY <1>5, <2>2, <2>3 DEF BootstrapSends
<1>6. CASE BootstrapSettles(b)
  <2>1. /\ pc[b] = "settle" /\ WriteOwned(b, "UNCERTAIN")
        /\ held' = [held EXCEPT ![b] = Unheld] /\ Goto(b, "idle")
        /\ UNCHANGED <<lapsed, accepted, started, authority, seen, processed>>
    BY <1>6 DEF BootstrapSettles
  <2>2. completed' \in SUBSET started
    <3>1. <<held[b].delivery, held[b].claim>> \in started
      BY <1>1, <2>1 DEF IInv, BootstrapOwns, Holding
    <3>2. QED
      BY <1>1, <1>6, <3>1 DEF BootstrapSettles, TypeOK
  <2>3. row' \in [Deliveries -> Row]
    BY <1>1, <2>1, WriteOwnedEffect
  <2>4. /\ held' \in [Processes -> Held]
        /\ pc' \in [Processes -> {"idle", "claim", "revalidate", "send", "settle"}]
        /\ pc'[b] = "idle" /\ held'[b] = Unheld /\ ~ Holding(b)'
        /\ \A q \in Processes \ {b} : pc'[q] = pc[q] /\ held'[q] = held[q]
    BY <1>1, <2>1, LetGoTyped
  <2>5. TypeOK'
    BY <1>1, <2>1, <2>2, <2>3, <2>4 DEF TypeOK
  <2>6. \A v \in Workers : pc'[v] # "idle" => processed'[v] < BatchLimit
    BY <1>1, <2>1, <2>4 DEF LabelsTyped, Processes
  <2>7. QED
    BY <1>1, <2>1, <2>4, <2>5, <2>6, SettleIInv
<1>7. QED
  BY <1>2, <1>3, <1>4, <1>5, <1>6 DEF BootstrapStep

LEMMA CrashIInv ==
  ASSUME IInv, NEW p \in Processes, Crash(p)
  PROVE  IInv'
<1>1. /\ held' = [held EXCEPT ![p] = Unheld] /\ Goto(p, "idle")
      /\ UNCHANGED <<row, lapsed, accepted, started, completed, authority, seen, processed>>
  BY DEF Crash
<1>2. /\ held' \in [Processes -> Held]
      /\ pc' \in [Processes -> {"idle", "claim", "revalidate", "send", "settle"}]
      /\ pc'[p] = "idle" /\ held'[p] = Unheld /\ ~ Holding(p)'
      /\ \A q \in Processes \ {p} : pc'[q] = pc[q] /\ held'[q] = held[q]
  BY <1>1, LetGoTyped
<1>3. TypeOK'
  BY <1>1, <1>2 DEF IInv, TypeOK
<1>4. \A v \in Workers : pc'[v] # "idle" => processed'[v] < BatchLimit
  BY <1>1, <1>2 DEF IInv, LabelsTyped, Processes
<1>5. QED
  BY <1>1, <1>2, <1>3, <1>4, ReleaseIInv

LEMMA AuthorityIInv ==
  ASSUME IInv, BeginSelect \/ Select \/ SelectRefused \/ Toggle
  PROVE  IInv'
<1>1. /\ UNCHANGED <<row, lapsed, accepted, started, completed, pc, held, processed>>
      /\ authority' \in {"unset", "enabled", "disabled"}
      /\ seen' \in (SUBSET Dispatches) \cup {None}
  BY DEF BeginSelect, Select, SelectRefused, Toggle, InFlight, IInv, TypeOK
<1>2. TypeOK'
  BY <1>1 DEF IInv, TypeOK
<1>3. QED
  BY <1>1, <1>2, QuietIInv

LEMMA TimeIInv ==
  ASSUME IInv, NEW d \in Deliveries, Lapse(d) \/ FallDue(d)
  PROVE  IInv'
<1>1. TypeOK
  BY DEF IInv
<1>2. CASE Lapse(d)
  <2>1. row[d].claim \in Claims
    BY <1>1, <1>2 DEF Lapse, TypeOK, Row
  <2>2. /\ lapsed' \in [Deliveries -> SUBSET Claims]
        /\ \A e \in Deliveries : lapsed[e] \subseteq lapsed'[e]
    BY <1>1, <1>2, <2>1 DEF Lapse, TypeOK
  <2>3. TypeOK'
    BY <1>1, <1>2, <2>2 DEF Lapse, TypeOK
  <2>4. UNCHANGED <<row, accepted, started, pc, held, processed>>
    BY <1>2 DEF Lapse
  <2>5. QED
    BY <2>2, <2>3, <2>4, QuietIInv
<1>3. CASE FallDue(d)
  <2> DEFINE new == [row[d] EXCEPT !.due = TRUE]
  <2>1. row' = [row EXCEPT ![d] = new]
    BY <1>3 DEF FallDue
  <2>2. /\ new \in Row /\ new.status = row[d].status /\ new.claim = row[d].claim
        /\ new.attempts = row[d].attempts /\ new.due
    BY <1>1 DEF TypeOK, Row
  <2> HIDE DEF new
  <2>3. /\ row' \in [Deliveries -> Row] /\ row'[d] = new
        /\ \A e \in Deliveries \ {d} : row'[e] = row[e]
    BY <1>1, <2>1, <2>2 DEF TypeOK
  <2>4. UNCHANGED <<lapsed, accepted, started, completed, authority, seen, pc, held, processed>>
    BY <1>3 DEF FallDue
  <2>5. TypeOK'
    BY <1>1, <2>3, <2>4 DEF TypeOK
  <2>6. \A e \in Deliveries : /\ row'[e].status = row[e].status
                              /\ row'[e].claim = row[e].claim
                              /\ row'[e].attempts = row[e].attempts
                              /\ row[e].due => row'[e].due
                              /\ lapsed[e] \subseteq lapsed'[e]
    BY <2>2, <2>3, <2>4
  <2>7. QED
    BY <2>4, <2>5, <2>6, QuietIInv
<1>4. QED
  BY <1>2, <1>3

LEMMA NextIInv ==
  ASSUME IInv, [Next]_vars
  PROVE  IInv'
<1>1. CASE UNCHANGED vars
  <2>1. TypeOK'
    BY <1>1 DEF IInv, TypeOK, vars
  <2>2. QED
    BY <1>1, <2>1, QuietIInv DEF vars
<1>2. CASE Next
  BY <1>2, WorkerStepIInv, BootstrapStepIInv, CrashIInv, AuthorityIInv, TimeIInv DEF Next
<1>3. QED
  BY <1>1, <1>2

-----------------------------------------------------------------------------
(* The theorems                                                              *)

THEOREM Invariance == Spec => []IInv
<1>1. Init => IInv
  BY InitIInv
<1>2. IInv /\ [Next]_vars => IInv'
  BY NextIInv
<1>3. QED
  BY <1>1, <1>2, PTL DEF Spec

\* Every variable keeps its type: no claim beyond maxAttempts is ever drawn, no
\* batch exceeds batchLimit, and a bootstrap is completed only if it started.
THEOREM TypeCorrect == Spec => []TypeOK
<1>1. IInv => TypeOK
  BY DEF IInv
<1>2. QED
  BY <1>1, Invariance, PTL

\* Whoever sends within its lease still owns the row: the claimToken that
\* finalizeOwned() and finalize() compare shuts every late finalization out, and
\* claimNextDelivery() takes nothing over before the lease has run out.
THEOREM LeaseIsExclusive == Spec => []LeaseExclusive
<1>1. IInv => LeaseExclusive
  BY DEF IInv
<1>2. QED
  BY <1>1, Invariance, PTL

\* A verification e-mail that a bootstrap may have got through is not claimed
\* again: reserve() has set the row aside as FAILED before it is sent, and only
\* an answer that proves the mail was not taken puts it back in the queue.
THEOREM QuarantineKept == Spec => []QuarantineHolds
<1>1. IInv => QuarantineHolds
  BY DEF IInv, Quarantined, QuarantineHolds
<1>2. QED
  BY <1>1, Invariance, PTL

\* A row that finalizeClaimSuccess(), -Failure(), -Cancellation() or the
\* bootstrap's finalize() has closed is never written again.
THEOREM FinalStays == Spec => TerminalIsFinal
<1> DEFINE Closed(d) == row[d].status \in {"DELIVERED", "FAILED", "CANCELLED"}
           Final == \A d \in Deliveries : Closed(d) => row'[d] = row[d]
<1>1. IInv /\ [Next]_vars => Final
  <2> SUFFICES ASSUME IInv, [Next]_vars, NEW d \in Deliveries, Closed(d)
               PROVE  row'[d] = row[d]
    OBVIOUS
  <2> USE DEF IInv
  <2>1. TypeOK /\ row[d].due /\ row[d].status \notin {"PENDING", "UNCERTAIN"}
    BY DEF RowsCoherent
  <2>2. \A p \in Processes, e \in Deliveries : \A status :
          Claimable(e) /\ TakeClaim(p, e, status) => row'[d] = row[d]
    BY <2>1 DEF Claimable, TakeClaim, TypeOK
  <2>3. \A p, status : WriteOwned(p, status) /\ status \in {"PENDING", "UNCERTAIN"}
          => row'[d] = row[d]
    BY <2>1, WriteOwnedEffect DEF Finalized
  <2>4. ASSUME NEW w \in Workers, WorkerStep(w) PROVE row'[d] = row[d]
    BY <2>2, <2>3, <2>4 DEF WorkerStep, Tick, Claim, NothingToClaim, WorkerSends, SendEnds,
       WorkerSettles, SuccessThrows, FinalizeThrows, Processes
  <2>5. ASSUME NEW b \in Bootstraps, BootstrapStep(b) PROVE row'[d] = row[d]
    BY <2>2, <2>3, <2>5, NotificationDeliveryAssumption DEF BootstrapStep, Reserve, Eligible,
       Revalidate, NotSent, BootstrapSends, SendEnds, Ambiguous, BootstrapSettles, Processes
  <2>6. ASSUME NEW e \in Deliveries, FallDue(e) PROVE row'[d] = row[d]
    BY <2>1, <2>6 DEF FallDue, TypeOK
  <2>7. QED
    BY <2>4, <2>5, <2>6 DEF Next, vars, Crash, BeginSelect, Select, SelectRefused, Toggle, Lapse
<1>2. QED
  BY <1>1, Invariance, PTL DEF Spec, TerminalIsFinal

-----------------------------------------------------------------------------
(* What is delivered was taken                                               *)

\* A process takes a mail for sent only if the provider took it.
ResultsTrue ==
  \A p \in Processes :
    held[p].result = "accepted" => held[p].claim \in accepted[held[p].delivery]

\* A row is DELIVERED only if the provider took the mail of its last attempt.
DeliveredWasTaken ==
  \A d \in Deliveries : row[d].status = "DELIVERED" => row[d].attempts \in accepted[d]

LEMMA AcceptedGrows ==
  ASSUME IInv, [Next]_vars, NEW d \in Deliveries
  PROVE  accepted[d] \subseteq accepted'[d]
<1>1. ASSUME NEW p, NEW result, NEW taken, SendEnds(p, result, taken)
      PROVE  accepted[d] \subseteq accepted'[d]
  BY <1>1 DEF SendEnds, IInv, TypeOK
<1>2. ASSUME NEW b, NEW taken, Ambiguous(b, taken)
      PROVE  accepted[d] \subseteq accepted'[d]
  BY <1>2 DEF Ambiguous, IInv, TypeOK
<1>3. ASSUME NEW w \in Workers, WorkerStep(w)
      PROVE  accepted[d] \subseteq accepted'[d]
  BY <1>1, <1>3 DEF WorkerStep, Tick, Claim, NothingToClaim, WorkerSends, WorkerSettles,
     SuccessThrows, FinalizeThrows
<1>4. ASSUME NEW b \in Bootstraps, BootstrapStep(b)
      PROVE  accepted[d] \subseteq accepted'[d]
  BY <1>1, <1>2, <1>4 DEF BootstrapStep, Reserve, Revalidate, NotSent, BootstrapSends,
     BootstrapSettles
<1>5. QED
  BY <1>3, <1>4 DEF Next, vars, Crash, BeginSelect, Select, SelectRefused, Toggle, Lapse, FallDue

\* What a step makes of the deliveries that are held
HeldSteps(p) ==
  \/ held'[p] = held[p]
  \/ held'[p].result # "accepted"
  \/ SendEnds(p, "accepted", TRUE)

LEMMA HoldersStep ==
  ASSUME IInv, [Next]_vars, NEW p \in Processes
  PROVE  HeldSteps(p)
<1>1. held \in [Processes -> Held]
  BY DEF IInv, TypeOK
<1>2. ASSUME NEW q \in Processes, NEW result \in {"accepted", "failed", "stale"},
             NEW taken \in BOOLEAN, SendEnds(q, result, taken),
             result = "accepted" => taken = TRUE
      PROVE  HeldSteps(p)
  <2>1. held' = [held EXCEPT ![q].result = result]
    BY <1>2 DEF SendEnds
  <2>2. held'[p] = held[p] \/ (q = p /\ held'[p].result = result)
    BY <1>1, <2>1 DEF Held
  <2>3. QED
    BY <1>2, <2>2 DEF HeldSteps
<1>3. ASSUME NEW q \in Processes,
             \/ held' = [held EXCEPT ![q] = Unheld]
             \/ held' = [held EXCEPT ![q].result = "failed"]
             \/ \E d, status : TakeClaim(q, d, status)
      PROVE  HeldSteps(p)
  <2>1. held'[p] = held[p] \/ held'[p].result # "accepted"
    BY <1>1, <1>3 DEF TakeClaim, Held, Unheld
  <2>2. QED
    BY <2>1 DEF HeldSteps
<1>4. CASE held' = held
  BY <1>4 DEF HeldSteps
<1>5. ASSUME NEW w \in Workers, WorkerStep(w)
      PROVE  HeldSteps(p)
  <2>1. CASE WorkerSends(w)
    BY <1>2, <2>1 DEF WorkerSends, Processes
  <2>2. CASE ~ WorkerSends(w)
    BY <1>3, <1>4, <1>5, <2>2 DEF WorkerStep, Tick, Claim, NothingToClaim, WorkerSettles,
       SuccessThrows, FinalizeThrows, Proceed, Processes
  <2>3. QED
    BY <2>1, <2>2
<1>6. ASSUME NEW b \in Bootstraps, BootstrapStep(b)
      PROVE  HeldSteps(p)
  <2>1. CASE BootstrapSends(b)
    BY <1>2, <1>3, <2>1 DEF BootstrapSends, Ambiguous, Processes
  <2>2. CASE ~ BootstrapSends(b)
    BY <1>3, <1>4, <1>6, <2>2 DEF BootstrapStep, Reserve, Revalidate, NotSent, BootstrapSettles,
       Processes
  <2>3. QED
    BY <2>1, <2>2
<1>7. QED
  BY <1>3, <1>4, <1>5, <1>6 DEF Next, vars, Crash, BeginSelect, Select, SelectRefused, Toggle,
     Lapse, FallDue

LEMMA ResultsKept ==
  ASSUME IInv, ResultsTrue, [Next]_vars
  PROVE  ResultsTrue'
<1> SUFFICES ASSUME NEW p \in Processes, held'[p].result = "accepted"
             PROVE  held'[p].claim \in accepted'[held'[p].delivery]
  BY DEF ResultsTrue
<1>1. CASE held'[p] = held[p]
  <2>1. held[p].delivery \in Deliveries
    BY <1>1 DEF IInv, HoldersTyped, Unheld
  <2>2. QED
    BY <1>1, <2>1, AcceptedGrows DEF ResultsTrue
<1>2. CASE SendEnds(p, "accepted", TRUE)
  <2>1. held[p].delivery \in Deliveries /\ held[p] \in Held
    BY <1>2 DEF SendEnds, IInv, TypeOK, HoldersTyped, Holding
  <2>2. held'[p].delivery = held[p].delivery /\ held'[p].claim = held[p].claim
    BY <1>2, <2>1 DEF SendEnds, IInv, TypeOK, Held
  <2>3. accepted'[held[p].delivery] = accepted[held[p].delivery] \cup {held[p].claim}
    BY <1>2, <2>1 DEF SendEnds, IInv, TypeOK
  <2>4. QED
    BY <2>2, <2>3
<1>3. QED
  BY <1>1, <1>2, HoldersStep DEF HeldSteps

LEMMA OnlyAcceptedDelivers ==
  ASSUME NEW p, NEW r \in Row, AfterSend(p, r).status = "DELIVERED"
  PROVE  held[p].result = "accepted"
<1>1. CASE held[p].result = "stale"
  BY <1>1 DEF AfterSend, Settled, Row
<1>2. CASE held[p].result \notin {"accepted", "stale"}
  <2>1. AfterSend(p, r) = AfterFailure(r, held[p].claim)
    BY <1>2 DEF AfterSend
  <2>2. AfterFailure(r, held[p].claim).status \in {"FAILED", "PENDING"}
    BY DEF AfterFailure, Row
  <2>3. QED
    BY <2>1, <2>2
<1>3. QED
  BY <1>1, <1>2

LEMMA DeliveredKept ==
  ASSUME IInv, ResultsTrue, DeliveredWasTaken, [Next]_vars
  PROVE  DeliveredWasTaken'
<1> SUFFICES ASSUME NEW d \in Deliveries, row'[d].status = "DELIVERED"
             PROVE  row'[d].attempts \in accepted'[d]
  BY DEF DeliveredWasTaken
<1>1. TypeOK /\ row[d] \in Row
  BY DEF IInv, TypeOK
<1>2. CASE row'[d].status = row[d].status /\ row'[d].attempts = row[d].attempts
  BY <1>2, AcceptedGrows DEF DeliveredWasTaken
<1>3. ASSUME NEW p \in Processes, NEW status \in {"PENDING", "UNCERTAIN"},
             pc[p] = "settle", WriteOwned(p, status), row'[d] # row[d]
      PROVE  row'[d].attempts \in accepted'[d]
  <2>1. Finalized(p, status, d) /\ row'[d].attempts = row[d].attempts
    BY <1>1, <1>3, WriteOwnedEffect
  <2>2. Owned(p, status) /\ d = held[p].delivery
    BY <1>3, <2>1 DEF Owned, Finalized
  <2>3. row' = [row EXCEPT ![d] = AfterSend(p, row[d])]
    BY <1>3, <2>2 DEF WriteOwned
  <2>4. held[p].result = "accepted"
    BY <1>1, <2>3, OnlyAcceptedDelivers DEF TypeOK
  <2>5. held[p].claim \in accepted[d] /\ held[p].claim \in Claims
    BY <1>3, <2>2, <2>4 DEF ResultsTrue, IInv, HoldersTyped, Holding
  <2>6. row[d].claim = row[d].attempts
    BY <2>2, <2>5, ClaimNotNone DEF Owned, IInv, RowsCoherent
  <2>7. QED
    BY <2>1, <2>2, <2>5, <2>6, AcceptedGrows DEF Owned
<1>4. ASSUME NEW p, NEW e \in Deliveries, NEW status \in {"PENDING", "UNCERTAIN"},
             TakeClaim(p, e, status), row'[d] # row[d]
      PROVE  FALSE
  BY <1>1, <1>4 DEF TakeClaim, TypeOK
<1>5. ASSUME NEW e \in Deliveries, FallDue(e)
      PROVE  row'[d].status = row[d].status /\ row'[d].attempts = row[d].attempts
  BY <1>1, <1>5 DEF FallDue, TypeOK, Row
<1>6. ASSUME NEW w \in Workers, WorkerStep(w), row'[d] # row[d]
      PROVE  row'[d].attempts \in accepted'[d]
  BY <1>3, <1>4, <1>6 DEF WorkerStep, Tick, Claim, NothingToClaim, WorkerSends, SendEnds,
     WorkerSettles, SuccessThrows, FinalizeThrows, Processes
<1>7. ASSUME NEW b \in Bootstraps, BootstrapStep(b), row'[d] # row[d]
      PROVE  row'[d].attempts \in accepted'[d]
  BY <1>3, <1>4, <1>7, NotificationDeliveryAssumption DEF BootstrapStep, Reserve, Revalidate,
     NotSent, BootstrapSends, SendEnds, Ambiguous, BootstrapSettles, Processes
<1>8. QED
  BY <1>2, <1>5, <1>6, <1>7 DEF Next, vars, Crash, BeginSelect, Select, SelectRefused, Toggle,
     Lapse

\* A row is closed as DELIVERED only on the strength of the claim it carried and
\* of an answer that took the mail sent under that claim: no finalization that is
\* late, repeated or crossed with a later attempt reports a mail that is not out.
THEOREM DeliveredIsTaken == Spec => []DeliveredWasTaken
<1>1. IInv /\ Init => ResultsTrue /\ DeliveredWasTaken
  BY DEF Init, ResultsTrue, DeliveredWasTaken, Unheld
<1>2. IInv /\ ResultsTrue /\ DeliveredWasTaken /\ [Next]_vars => (ResultsTrue /\ DeliveredWasTaken)'
  BY ResultsKept, DeliveredKept
<1>3. QED
  BY <1>1, <1>2, Invariance, PTL DEF Spec
=============================================================================
