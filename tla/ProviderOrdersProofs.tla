------------------------ MODULE ProviderOrdersProofs ------------------------
(* Proofs about ProviderOrders, for any sets of Payments and Requests.       *)
EXTENDS ProviderOrders, SequenceTheorems, TLAPS

(* Arithmetic of the lengths 0 and 1 and of versions, apart from the state.  *)
LEMMA AtMostOne ==
  ASSUME NEW n \in Nat, n <= 1
  PROVE  n > 0 <=> n = 1
OBVIOUS

(* A length that is not positive is 0.                                        *)
LEMMA NoneYet ==
  ASSUME NEW n \in Nat, ~ (n > 0)
  PROVE  n = 0 /\ 1 .. n = {}
OBVIOUS

(* A length is not above itself.                                             *)
LEMMA NotAbove ==
  ASSUME NEW n \in Nat
  PROVE  ~ (n > n)
OBVIOUS

(* The only index of a sequence of length at most 1.                         *)
LEMMA OnlyIndex ==
  ASSUME NEW n \in Nat, n <= 1, NEW i \in 1 .. n
  PROVE  i = 1 /\ n = 1
OBVIOUS

(* The successor of a credential version below the bound.                    *)
LEMMA NextVersion ==
  ASSUME NEW m \in Nat \ {0}, NEW v \in 1 .. m, v < m
  PROVE  v + 1 \in 1 .. m
OBVIOUS

(* SetAttempt writes one row of one Payment and changes nothing else.        *)
LEMMA SetAttemptEffect ==
  ASSUME attempts \in [Payments -> Seq(Attempt)],
         NEW p \in Payments, NEW i \in 1 .. Len(attempts[p]), NEW row \in Attempt,
         SetAttempt(p, i, row)
  PROVE  /\ attempts' \in [Payments -> Seq(Attempt)]
         /\ \A q \in Payments : /\ Len(attempts'[q]) = Len(attempts[q])
                                /\ DOMAIN attempts'[q] = DOMAIN attempts[q]
         /\ \A q \in Payments : \A j \in DOMAIN attempts[q] :
              attempts'[q][j] = IF q = p /\ j = i THEN row ELSE attempts[q][j]
<1> DEFINE s == [attempts[p] EXCEPT ![i] = row]
<1>1. /\ s \in Seq(Attempt)
      /\ Len(s) = Len(attempts[p])
      /\ \A j \in 1 .. Len(attempts[p]) : s[j] = IF j = i THEN row ELSE attempts[p][j]
  <2>1. attempts[p] \in Seq(Attempt)
    OBVIOUS
  <2>2. QED
    BY <2>1, ExceptSeq
<1>2. attempts' = [attempts EXCEPT ![p] = s]
  BY DEF SetAttempt
<1>3. \A q \in Payments : DOMAIN attempts[q] = 1 .. Len(attempts[q])
  BY LenProperties
<1>4. attempts' \in [Payments -> Seq(Attempt)]
  BY <1>1, <1>2
<1>5. \A q \in Payments : DOMAIN attempts'[q] = 1 .. Len(attempts'[q])
  BY <1>4, LenProperties
<1>6. \A q \in Payments : attempts'[q] = IF q = p THEN s ELSE attempts[q]
  BY <1>2
<1> HIDE DEF s
<1>7. QED
  BY <1>1, <1>3, <1>4, <1>5, <1>6

(* The inductive invariant holds before the first run of prepare().          *)
LEMMA InitIndInv == Init => IndInv
<1> SUFFICES ASSUME Init PROVE IndInv
  OBVIOUS
<1> USE ProviderOrdersAssumption
<1>1. /\ attempts \in [Payments -> Seq(Attempt)]
      /\ \A p \in Payments : Len(attempts[p]) = 0 /\ DOMAIN attempts[p] = {}
  BY EmptySeq DEF Init
<1>2. TypeOK
  <2>1. config \in [enabled : BOOLEAN, version : Versions]
    BY DEF Init, Versions
  <2>2. req \in [Requests -> Locals]
    BY DEF Init, Locals, Order
  <2>3. /\ payment \in [Payments -> {"PENDING", "SETTLED"}]
        /\ subscription \in [Payments -> SubscriptionStatus]
        /\ order \in [Payments -> Order]
    BY DEF Init, SubscriptionStatus, Order
  <2>4. /\ pc \in [Requests -> Steps]
        /\ wire \in [Requests -> {"idle", "sent", "created", "rejected"}]
    BY DEF Init, Steps
  <2>5. QED
    BY <1>1, <2>1, <2>2, <2>3, <2>4 DEF TypeOK
<1>3. OneAttempt
  <2> SUFFICES ASSUME NEW p \in Payments PROVE Len(attempts[p]) <= 1
    BY DEF OneAttempt
  <2>1. Len(attempts[p]) = 0
    BY <1>1
  <2>2. QED
    BY <2>1
<1>4. LocalsCoherent
  BY DEF Init, LocalsCoherent, Called, Owns, Holding
<1>5. SingleOwner /\ OwnersRejected
  BY <1>1 DEF Init, SingleOwner, OwnersRejected, Owns, Called
<1>6. OrderProven /\ EvidenceOfSuccess /\ RenewalDispatchHeld
  BY <1>1 DEF Init, OrderProven, EvidenceOfSuccess, RenewalDispatchHeld, UnresolvedDispatch
<1>7. AnswersAgree
  BY DEF Init, AnswersAgree
<1>8. QED
  BY <1>2, <1>3, <1>4, <1>5, <1>6, <1>7 DEF IndInv

(* A step of one run that writes nothing but the run's own locals.           *)
LocalStep(r) ==
  /\ UNCHANGED <<payment, subscription, attempts, order, config, wire>>
  /\ pc' \in [Requests -> Steps]
  /\ req' \in [Requests -> Locals]
  /\ \A s \in Requests \ {r} : pc'[s] = pc[s] /\ req'[s] = req[s]
  /\ req'[r].pay \in Payments
  /\ pc'[r] # "send"
  /\ pc'[r] \in BeforeCall => ~ Called(r)
  /\ Called(r) => /\ req'[r].pay = req[r].pay
                  /\ req'[r].att = req[r].att
                  /\ req'[r].cred = req[r].cred
  /\ pc'[r] = "reserve" => req'[r].cred \in Versions
  /\ pc'[r] \in Holding => req'[r].att = 1 /\ Len(attempts[req'[r].pay]) = 1
  /\ pc'[r] = "dispatch" => attempts[req'[r].pay][req'[r].att].cred = req'[r].cred
  /\ pc'[r] = "persist" => req'[r].got \in OrdersByReceipt(req'[r].pay)
  /\ pc'[r] = "reject" => wire[r] = "rejected"
  /\ pc'[r] = "done" => req'[r].got # None /\ order[req'[r].pay] = req'[r].got

(* A step that writes only locals keeps the invariant.                       *)
LEMMA LocalStepIndInv ==
  ASSUME IndInv, NEW r \in Requests, LocalStep(r)
  PROVE  IndInv'
<1> USE DEF IndInv, LocalStep
<1>1. \A p : OrdersByReceipt(p)' = OrdersByReceipt(p)
  BY DEF OrdersByReceipt, PayOf, LocalsCoherent, Called
<1>2. \A s \in Requests : Owns(s)' => Owns(s) /\ PayOf(s)' = PayOf(s)
  BY DEF Owns, Called, PayOf
<1>3. TypeOK'
  BY DEF TypeOK
<1>4. OneAttempt' /\ EvidenceOfSuccess'
  BY DEF OneAttempt, EvidenceOfSuccess
<1>5. LocalsCoherent'
  BY <1>1, <1>2 DEF LocalsCoherent, PayOf, AttemptOf, Called, Owns
<1>6. SingleOwner' /\ OwnersRejected'
  BY <1>2 DEF SingleOwner, OwnersRejected
<1>7. OrderProven'
  BY <1>1 DEF OrderProven
<1>8. RenewalDispatchHeld'
  BY DEF RenewalDispatchHeld, UnresolvedDispatch, Eligible
<1>9. AnswersAgree'
  BY DEF AnswersAgree, PayOf
<1>10. QED
  BY <1>3, <1>4, <1>5, <1>6, <1>7, <1>8, <1>9

(* Facts about the attempt a run reads or holds.                             *)
LEMMA AttemptTyped ==
  ASSUME IndInv, NEW p \in Payments
  PROVE  /\ Len(attempts[p]) \in Nat /\ Len(attempts[p]) <= 1
         /\ DOMAIN attempts[p] = 1 .. Len(attempts[p])
         /\ HasAttempt(p) <=> Len(attempts[p]) = 1
         /\ HasAttempt(p) => /\ Latest(p) = 1
                             /\ attempts[p][1] \in Attempt
<1>1. attempts[p] \in Seq(Attempt)
  BY DEF IndInv, TypeOK
<1>2. Len(attempts[p]) <= 1
  BY DEF IndInv, OneAttempt
<1>3. /\ Len(attempts[p]) \in Nat
      /\ DOMAIN attempts[p] = 1 .. Len(attempts[p])
  BY <1>1, LenProperties
<1>4. HasAttempt(p) <=> Len(attempts[p]) = 1
  BY <1>2, <1>3, AtMostOne DEF HasAttempt
<1>5. Len(attempts[p]) = 1 => attempts[p][1] \in Attempt
  BY <1>1, ElementOfSeq
<1>6. QED
  BY <1>2, <1>3, <1>4, <1>5 DEF Latest

(* Writing one local variable leaves the locals typed.                       *)
LEMMA LocalsExcept ==
  ASSUME NEW l \in Locals
  PROVE  /\ \A p \in Payments : [l EXCEPT !.pay = p] \in Locals
         /\ \A o \in Order, b \in BOOLEAN : [l EXCEPT !.got = o, !.recovered = b] \in Locals
         /\ \A v \in Nat : [l EXCEPT !.cred = v] \in Locals
<1>1. ASSUME NEW p \in Payments PROVE [l EXCEPT !.pay = p] \in Locals
  BY DEF Locals
<1>2. ASSUME NEW o \in Order, NEW b \in BOOLEAN
      PROVE  [l EXCEPT !.got = o, !.recovered = b] \in Locals
  BY DEF Locals
<1>3. ASSUME NEW v \in Nat PROVE [l EXCEPT !.cred = v] \in Locals
  BY DEF Locals
<1>4. QED
  BY <1>1, <1>2, <1>3

(* Resuming the latest attempt writes locals only, and binds its credential. *)
LEMMA ResumeLatestLocal ==
  ASSUME IndInv, NEW r \in Requests, PayOf(r) \in Payments, HasAttempt(PayOf(r)),
         ~ Called(r), ResumeLatest(r),
         UNCHANGED <<payment, subscription, attempts, order, config, wire>>
  PROVE  LocalStep(r)
<1> DEFINE a == attempts[PayOf(r)][1]
<1>1. /\ Latest(PayOf(r)) = 1 /\ Len(attempts[PayOf(r)]) = 1
      /\ a \in Attempt
  BY AttemptTyped
<1>2. /\ req' = [req EXCEPT ![r].att = 1, ![r].cred = a.cred]
      /\ pc' = [pc EXCEPT ![r] = ResumeStep(a.status)]
  BY <1>1 DEF ResumeLatest, Goto
<1>3. /\ a.cred \in Nat
      /\ ResumeStep(a.status) \in {"return", "failed", "lookup", "dispatch"}
  BY <1>1, ProviderOrdersAssumption DEF Attempt, Versions, AttemptStatus, ResumeStep
<1>4. req[r] \in Locals /\ req' \in [Requests -> Locals] /\ pc' \in [Requests -> Steps]
  <2>1. req[r] \in Locals
    BY DEF IndInv, TypeOK
  <2>2. [req[r] EXCEPT !.att = 1, !.cred = a.cred] \in Locals
    BY <2>1, <1>3 DEF Locals
  <2>3. req' = [req EXCEPT ![r] = [req[r] EXCEPT !.att = 1, !.cred = a.cred]]
    BY <1>2
  <2>4. QED
    BY <1>2, <1>3, <2>1, <2>2, <2>3 DEF IndInv, TypeOK, Steps, Holding, Final
<1>5. /\ req'[r].pay = PayOf(r) /\ req'[r].att = 1 /\ req'[r].cred = a.cred
      /\ pc'[r] \in {"return", "failed", "lookup", "dispatch"}
      /\ \A s \in Requests \ {r} : pc'[s] = pc[s] /\ req'[s] = req[s]
  BY <1>2, <1>3, <1>4 DEF IndInv, TypeOK, PayOf, Locals
<1> HIDE DEF a
<1>6. attempts[PayOf(r)][1].cred = req'[r].cred
  BY <1>5 DEF a
<1>7. QED
  BY <1>1, <1>4, <1>5, <1>6 DEF LocalStep, Called, Holding

(* Answering with the current order writes locals only.                      *)
LEMMA ReturnCurrentLocal ==
  ASSUME IndInv, NEW r \in Requests, PayOf(r) \in Payments,
         pc[r] \in {"current", "reserve", "return"}, ReturnCurrent(r),
         UNCHANGED <<payment, subscription, attempts, order, config, wire>>
  PROVE  LocalStep(r)
<1>1. order[PayOf(r)] \in Order
  BY DEF IndInv, TypeOK
<1>2. req' \in [Requests -> Locals] /\ pc' \in [Requests -> Steps]
  <2>1. [req[r] EXCEPT !.got = order[PayOf(r)]] \in Locals
    BY <1>1 DEF IndInv, TypeOK, Locals
  <2>2. req' = [req EXCEPT ![r] = [req[r] EXCEPT !.got = order[PayOf(r)]]]
    BY DEF ReturnCurrent
  <2>3. pc' \in [Requests -> Steps]
    BY DEF IndInv, TypeOK, Steps, Final, ReturnCurrent, Goto
  <2>4. QED
    BY <2>1, <2>2, <2>3 DEF IndInv, TypeOK
<1>3. QED
  BY <1>2 DEF IndInv, TypeOK, ReturnCurrent, Goto, LocalStep, PayOf, Locals, Holding, BeforeCall

(* The actions of a run that write locals only.                              *)
LEMMA LocalActions ==
  ASSUME IndInv, NEW r \in Requests,
         \/ \E p \in Payments : Begin(r, p)
         \/ FindCurrentOrder(r) \/ LockAndRevalidate(r) \/ FindLatestAttempt(r)
         \/ ResolveCredential(r) \/ ReceiveOrder(r) \/ ReceiveRejection(r)
         \/ CallUnknown(r) \/ Lookup(r) \/ PersistRefused(r) \/ ReturnSucceeded(r)
         \/ Crash(r)
  PROVE  LocalStep(r)
<1> USE ProviderOrdersAssumption
<1>0. /\ TypeOK /\ LocalsCoherent
      /\ pc[r] # "idle" => PayOf(r) \in Payments
  BY DEF IndInv, LocalsCoherent
<1>1. ASSUME NEW p \in Payments, Begin(r, p) PROVE LocalStep(r)
  <2>0. req[r] \in Locals
    BY <1>0 DEF TypeOK
  <2>1. [req[r] EXCEPT !.pay = p] \in Locals
    BY <2>0, LocalsExcept
  <2>2. req' = [req EXCEPT ![r] = [req[r] EXCEPT !.pay = p]]
    BY <1>1 DEF Begin
  <2>3. /\ req' \in [Requests -> Locals]
        /\ req'[r].pay = p
        /\ \A s \in Requests \ {r} : req'[s] = req[s]
    BY <1>0, <2>1, <2>2 DEF TypeOK, Locals
  <2>4. QED
    BY <1>0, <1>1, <2>3 DEF TypeOK, LocalsCoherent, BeforeCall, LocalStep, Begin, Goto,
         moneyVars, Holding, Steps
<1>2. CASE FindCurrentOrder(r)
  <2>1. CASE ReturnCurrent(r)
    BY <1>0, <1>2, <2>1, ReturnCurrentLocal DEF FindCurrentOrder, moneyVars
  <2>2. CASE order[PayOf(r)] = None /\ Goto(r, "revalidate") /\ UNCHANGED req
    BY <1>0, <1>2, <2>2 DEF TypeOK, LocalsCoherent, BeforeCall, LocalStep, FindCurrentOrder,
         Goto, moneyVars, Holding, Steps, PayOf
  <2>3. QED
    BY <1>2, <2>1, <2>2 DEF FindCurrentOrder
<1>3. CASE LockAndRevalidate(r)
  BY <1>0, <1>3 DEF TypeOK, LocalsCoherent, BeforeCall, LocalStep, LockAndRevalidate, Goto,
       moneyVars, Holding, Final, Steps, PayOf
<1>4. CASE FindLatestAttempt(r)
  <2>1. CASE HasAttempt(PayOf(r)) /\ ResumeLatest(r)
    BY <1>0, <1>4, <2>1, ResumeLatestLocal DEF FindLatestAttempt, moneyVars, LocalsCoherent, BeforeCall
  <2>2. CASE Goto(r, "resolve") /\ UNCHANGED req
    BY <1>0, <1>4, <2>2 DEF TypeOK, LocalsCoherent, BeforeCall, LocalStep, FindLatestAttempt,
         Goto, moneyVars, Holding, Steps, PayOf
  <2>3. QED
    BY <1>4, <2>1, <2>2 DEF FindLatestAttempt
<1>5. CASE ResolveCredential(r)
  <2>1. CASE Goto(r, "failed") /\ UNCHANGED req
    BY <1>0, <1>5, <2>1 DEF TypeOK, LocalsCoherent, BeforeCall, LocalStep, ResolveCredential,
         Goto, moneyVars, Holding, Final, Steps, PayOf
  <2>2. CASE Goto(r, "reserve") /\ req' = [req EXCEPT ![r].cred = config.version]
    <3>1. config.version \in Versions /\ config.version \in Nat
      BY <1>0 DEF TypeOK, Versions
    <3>2. [req[r] EXCEPT !.cred = config.version] \in Locals
      <4>1. req[r] \in Locals
        BY <1>0 DEF TypeOK
      <4>2. QED
        BY <4>1, <3>1, LocalsExcept
    <3>3. req' = [req EXCEPT ![r] = [req[r] EXCEPT !.cred = config.version]]
      BY <2>2
    <3>4. /\ req' \in [Requests -> Locals]
          /\ req'[r].pay = PayOf(r) /\ req'[r].cred = config.version
          /\ \A s \in Requests \ {r} : req'[s] = req[s]
      BY <1>0, <3>2, <3>3 DEF TypeOK, Locals, PayOf
    <3>5. QED
      BY <1>0, <1>5, <2>2, <3>1, <3>4 DEF TypeOK, LocalsCoherent, BeforeCall, LocalStep,
           ResolveCredential, Goto, moneyVars, Holding, Steps
  <2>3. QED
    BY <1>5, <2>1, <2>2 DEF ResolveCredential
<1>6. CASE ReceiveOrder(r)
  <2>0. req[r] \in Locals /\ r \in Order
    BY <1>0 DEF TypeOK, Order
  <2>1. [req[r] EXCEPT !.got = r, !.recovered = FALSE] \in Locals
    BY <2>0, LocalsExcept
  <2>2. req' = [req EXCEPT ![r] = [req[r] EXCEPT !.got = r, !.recovered = FALSE]]
    BY <1>6 DEF ReceiveOrder
  <2>3. /\ req' \in [Requests -> Locals]
        /\ req'[r].pay = PayOf(r) /\ req'[r].got = r
        /\ req'[r].att = req[r].att /\ req'[r].cred = req[r].cred
        /\ \A s \in Requests \ {r} : req'[s] = req[s]
    BY <1>0, <2>1, <2>2 DEF TypeOK, Locals, PayOf
  <2>4. r \in OrdersByReceipt(PayOf(r))
    BY <1>6 DEF ReceiveOrder, OrdersByReceipt
  <2>5. QED
    BY <1>0, <1>6, <2>3, <2>4 DEF TypeOK, LocalsCoherent, BeforeCall, LocalStep, ReceiveOrder,
         Goto, moneyVars, Holding, Steps, PayOf
<1>7. CASE ReceiveRejection(r)
  BY <1>0, <1>7 DEF TypeOK, LocalsCoherent, BeforeCall, LocalStep, ReceiveRejection, Goto,
       moneyVars, Holding, Steps, PayOf
<1>8. CASE CallUnknown(r)
  BY <1>0, <1>8 DEF TypeOK, LocalsCoherent, BeforeCall, LocalStep, CallUnknown, Goto,
       moneyVars, Holding, Steps, PayOf
<1>9. CASE Lookup(r)
  <2>1. CASE Goto(r, "keep") /\ UNCHANGED req
    BY <1>0, <1>9, <2>1 DEF TypeOK, LocalsCoherent, BeforeCall, LocalStep, Lookup, Goto,
         moneyVars, Holding, Steps, PayOf
  <2>2. ASSUME NEW o \in Requests,
               OrdersByReceipt(PayOf(r)) = {o}, Goto(r, "persist"),
               req' = [req EXCEPT ![r].got = o, ![r].recovered = TRUE]
        PROVE  LocalStep(r)
    <3>0. req[r] \in Locals /\ o \in Order
      BY <1>0 DEF TypeOK, Order
    <3>1. [req[r] EXCEPT !.got = o, !.recovered = TRUE] \in Locals
      BY <3>0, LocalsExcept
    <3>2. req' = [req EXCEPT ![r] = [req[r] EXCEPT !.got = o, !.recovered = TRUE]]
      BY <2>2
    <3>3. /\ req' \in [Requests -> Locals]
          /\ req'[r].pay = PayOf(r) /\ req'[r].got = o
          /\ req'[r].att = req[r].att /\ req'[r].cred = req[r].cred
          /\ \A s \in Requests \ {r} : req'[s] = req[s]
      BY <1>0, <3>1, <3>2 DEF TypeOK, Locals, PayOf
    <3>4. pc' = [pc EXCEPT ![r] = "persist"] /\ pc[r] = "lookup"
      BY <1>9, <2>2 DEF Lookup, Goto
    <3>5. UNCHANGED <<payment, subscription, attempts, order, config, wire>>
      BY <1>9 DEF Lookup, moneyVars
    <3>6. /\ pc' \in [Requests -> Steps] /\ pc'[r] = "persist"
          /\ \A s \in Requests \ {r} : pc'[s] = pc[s]
      BY <1>0, <3>4 DEF TypeOK, Steps, Holding
    <3>7. req'[r].got \in OrdersByReceipt(req'[r].pay)
      BY <2>2, <3>3
    <3>8. QED
      BY <1>0, <3>3, <3>4, <3>5, <3>6, <3>7 DEF LocalsCoherent, BeforeCall, LocalStep, Holding,
           PayOf
  <2>3. QED
    BY <1>9, <2>1, <2>2 DEF Lookup
<1>10. CASE PersistRefused(r)
  <2>1. /\ pc[r] = "persist"
        /\ Goto(r, "keep") \/ Goto(r, "failed")
        /\ UNCHANGED <<moneyVars, config, req, wire>>
    BY <1>10 DEF PersistRefused
  <2>2. QED
    BY <1>0, <2>1 DEF TypeOK, LocalsCoherent, BeforeCall, LocalStep, Goto, moneyVars, Holding,
         Final, Steps, PayOf
<1>11. CASE ReturnSucceeded(r)
  <2>1. CASE ReturnCurrent(r)
    BY <1>0, <1>11, <2>1, ReturnCurrentLocal DEF ReturnSucceeded, moneyVars
  <2>2. CASE Goto(r, "failed") /\ UNCHANGED req
    BY <1>0, <1>11, <2>2 DEF TypeOK, LocalsCoherent, BeforeCall, LocalStep, ReturnSucceeded,
         Goto, moneyVars, Holding, Final, Steps, PayOf
  <2>3. QED
    BY <1>11, <2>1, <2>2 DEF ReturnSucceeded
<1>12. CASE Crash(r)
  BY <1>0, <1>12 DEF TypeOK, LocalsCoherent, BeforeCall, LocalStep, Crash, Goto,
       moneyVars, Holding, Final, Steps, PayOf
<1>13. QED
  BY <1>1, <1>2, <1>3, <1>4, <1>5, <1>6, <1>7, <1>8, <1>9, <1>10, <1>11, <1>12

(* The two steps of the provider call.                                       *)
LEMMA SendIndInv ==
  ASSUME IndInv, NEW r \in Requests, Send(r)
  PROVE  IndInv'
<1> USE DEF IndInv
<1>1. /\ pc[r] = "send" /\ wire[r] = "idle"
      /\ pc' = [pc EXCEPT ![r] = "await"]
      /\ wire' = [wire EXCEPT ![r] = "sent"]
      /\ UNCHANGED <<payment, subscription, attempts, order, config, req>>
  BY DEF Send, Goto, moneyVars, LocalsCoherent, BeforeCall, Called
<1>2. TypeOK'
  BY <1>1 DEF TypeOK, Steps, Holding
<1>3. /\ pc'[r] = "await" /\ wire'[r] = "sent"
      /\ \A s \in Requests \ {r} : pc'[s] = pc[s] /\ wire'[s] = wire[s]
  BY <1>1 DEF TypeOK
<1>4. \A q : OrdersByReceipt(q)' = OrdersByReceipt(q)
  BY <1>1, <1>3 DEF OrdersByReceipt, PayOf
<1>5. \A s \in Requests : Owns(s)' <=> Owns(s)
  BY <1>1, <1>3 DEF Owns, Called
<1>6. OneAttempt' /\ EvidenceOfSuccess'
  BY <1>1 DEF OneAttempt, EvidenceOfSuccess
<1>7. LocalsCoherent'
  BY <1>1, <1>3, <1>4, <1>5 DEF LocalsCoherent, PayOf, AttemptOf, Called, Owns, Holding, BeforeCall
<1>8. SingleOwner'
  BY <1>1, <1>5 DEF SingleOwner, PayOf
<1>9. OrderProven'
  BY <1>1, <1>4 DEF OrderProven
<1>10. OwnersRejected'
  BY <1>1, <1>3, <1>5 DEF OwnersRejected, Owns, PayOf
<1>11. RenewalDispatchHeld'
  BY <1>1 DEF RenewalDispatchHeld, UnresolvedDispatch, Eligible
<1>12. AnswersAgree'
  BY <1>1, <1>3 DEF AnswersAgree, PayOf
<1>13. QED
  BY <1>2, <1>6, <1>7, <1>8, <1>9, <1>10, <1>11, <1>12

(* The provider's answer reaches no row and no local.                        *)
LEMMA ProviderAnswerIndInv ==
  ASSUME IndInv, NEW r \in Requests, ProviderAnswer(r)
  PROVE  IndInv'
<1> USE DEF IndInv
<1>1. PICK outcome \in {"created", "rejected"} : wire' = [wire EXCEPT ![r] = outcome]
  BY DEF ProviderAnswer
<1>2. /\ wire[r] = "sent"
      /\ UNCHANGED <<payment, subscription, attempts, order, config, pc, req>>
  BY DEF ProviderAnswer, moneyVars
<1>3. TypeOK'
  BY <1>1, <1>2 DEF TypeOK
<1>4. /\ wire'[r] \in {"created", "rejected"}
      /\ \A s \in Requests \ {r} : wire'[s] = wire[s]
  BY <1>1 DEF TypeOK
<1>5. \A q : OrdersByReceipt(q) \subseteq OrdersByReceipt(q)'
  BY <1>2, <1>4 DEF OrdersByReceipt, PayOf
<1>6. \A s \in Requests : (Called(s)' <=> Called(s)) /\ (Owns(s)' <=> Owns(s))
  BY <1>2, <1>4 DEF Owns, Called
<1>7. OneAttempt' /\ EvidenceOfSuccess'
  BY <1>2 DEF OneAttempt, EvidenceOfSuccess
<1>8. LocalsCoherent'
  BY <1>2, <1>4, <1>5, <1>6 DEF LocalsCoherent, PayOf, AttemptOf
<1>9. SingleOwner'
  BY <1>2, <1>6 DEF SingleOwner, PayOf
<1>10. OrderProven'
  BY <1>2, <1>5 DEF OrderProven
<1>11. OwnersRejected'
  BY <1>2, <1>4, <1>6 DEF OwnersRejected, Owns, Called, PayOf
<1>12. RenewalDispatchHeld'
  BY <1>2 DEF RenewalDispatchHeld, UnresolvedDispatch, Eligible
<1>13. AnswersAgree'
  BY <1>2 DEF AnswersAgree, PayOf
<1>14. QED
  BY <1>3, <1>7, <1>8, <1>9, <1>10, <1>11, <1>12, <1>13

(* A run that holds its Payment's attempt and writes one row of it.          *)
LEMMA HeldAttempt ==
  ASSUME IndInv, NEW r \in Requests, pc[r] \in Holding
  PROVE  /\ PayOf(r) \in Payments /\ req[r].att = 1
         /\ Len(attempts[PayOf(r)]) = 1 /\ DOMAIN attempts[PayOf(r)] = {1}
         /\ AttemptOf(r) = attempts[PayOf(r)][1]
         /\ AttemptOf(r) \in Attempt
<1>1. /\ PayOf(r) \in Payments /\ req[r].att = 1
      /\ Len(attempts[PayOf(r)]) = 1
  BY DEF IndInv, LocalsCoherent, Holding
<1>2. HasAttempt(PayOf(r)) /\ DOMAIN attempts[PayOf(r)] = 1 .. 1
  BY <1>1, AttemptTyped
<1>3. 1 .. 1 = {1}
  OBVIOUS
<1>4. QED
  BY <1>1, <1>2, <1>3, AttemptTyped DEF AttemptOf

(* SetAttempt through the attempt a run holds: the one row there is.         *)
LEMMA WriteRow ==
  ASSUME IndInv, NEW r \in Requests, pc[r] \in Holding, NEW row \in Attempt,
         SetAttempt(PayOf(r), req[r].att, row)
  PROVE  /\ attempts' \in [Payments -> Seq(Attempt)]
         /\ \A q \in Payments : /\ Len(attempts'[q]) = Len(attempts[q])
                                /\ DOMAIN attempts'[q] = DOMAIN attempts[q]
         /\ attempts'[PayOf(r)][1] = row
         /\ \A q \in Payments \ {PayOf(r)} : \A j \in DOMAIN attempts[q] :
              attempts'[q][j] = attempts[q][j]
<1>1. /\ PayOf(r) \in Payments /\ req[r].att = 1
      /\ DOMAIN attempts[PayOf(r)] = {1}
      /\ Len(attempts[PayOf(r)]) = 1
  BY HeldAttempt
<1>2. 1 \in 1 .. 1
  OBVIOUS
<1>3. 1 \in 1 .. Len(attempts[PayOf(r)])
  BY <1>1, <1>2
<1>4. SetAttempt(PayOf(r), 1, row)
  BY <1>1
<1>5. attempts \in [Payments -> Seq(Attempt)]
  BY DEF IndInv, TypeOK
<1> DEFINE p == PayOf(r)
<1>6. p \in Payments /\ 1 \in 1 .. Len(attempts[p]) /\ SetAttempt(p, 1, row)
  BY <1>1, <1>3, <1>4
<1> HIDE DEF p
<1>7. /\ attempts' \in [Payments -> Seq(Attempt)]
      /\ \A q \in Payments : /\ Len(attempts'[q]) = Len(attempts[q])
                             /\ DOMAIN attempts'[q] = DOMAIN attempts[q]
      /\ \A q \in Payments : \A j \in DOMAIN attempts[q] :
           attempts'[q][j] = IF q = p /\ j = 1 THEN row ELSE attempts[q][j]
  BY <1>5, <1>6, SetAttemptEffect
<1>8. QED
  BY <1>1, <1>6, <1>7 DEF p

(* What a write of the held row keeps, whatever the write is for.            *)
LEMMA RowStepIndInv ==
  ASSUME IndInv, NEW r \in Requests, pc[r] \in Holding, NEW row \in Attempt,
         SetAttempt(PayOf(r), req[r].att, row),
         row.cred = AttemptOf(r).cred, row.status # "PENDING",
         row.order # None => row.status = "SUCCEEDED",
         NEW step \in {"send", "failed", "done"}, pc' = [pc EXCEPT ![r] = step],
         step = "send" => /\ pc[r] = "dispatch"
                          /\ \A s \in Requests : PayOf(s) = PayOf(r) => ~ Owns(s),
         UNCHANGED <<payment, subscription, config, req, wire>>,
         order' \in [Payments -> Order]
  PROVE  /\ TypeOK' /\ OneAttempt' /\ LocalsCoherent' /\ SingleOwner' /\ EvidenceOfSuccess'
         /\ \A q : OrdersByReceipt(q)' = OrdersByReceipt(q)
         /\ \A s \in Requests : Owns(s)' => Owns(s) \/ (s = r /\ step = "send")
<1> USE DEF IndInv
<1>1. /\ PayOf(r) \in Payments /\ req[r].att = 1
      /\ Len(attempts[PayOf(r)]) = 1 /\ DOMAIN attempts[PayOf(r)] = {1}
      /\ AttemptOf(r) = attempts[PayOf(r)][1]
  BY HeldAttempt
<1>2. /\ attempts' \in [Payments -> Seq(Attempt)]
      /\ \A q \in Payments : /\ Len(attempts'[q]) = Len(attempts[q])
                             /\ DOMAIN attempts'[q] = DOMAIN attempts[q]
      /\ attempts'[PayOf(r)][1] = row
      /\ \A q \in Payments \ {PayOf(r)} : \A j \in DOMAIN attempts[q] :
           attempts'[q][j] = attempts[q][j]
  BY WriteRow
<1>3. /\ pc'[r] = step
      /\ \A s \in Requests \ {r} : pc'[s] = pc[s]
  BY DEF TypeOK
<1>4. \A q : OrdersByReceipt(q)' = OrdersByReceipt(q)
  BY DEF OrdersByReceipt, PayOf
<1>5. \A s \in Requests : Owns(s)' => Owns(s) \/ (s = r /\ step = "send")
  BY <1>3 DEF Owns, Called
<1>6. TypeOK'
  BY <1>2, <1>3 DEF TypeOK, Steps, Holding, Final
<1>7. OneAttempt'
  BY <1>2 DEF OneAttempt
<1>8. EvidenceOfSuccess'
  BY <1>1, <1>2 DEF EvidenceOfSuccess
<1>9. SingleOwner'
  BY <1>5 DEF SingleOwner, PayOf
<1>10. \A s \in Requests : PayOf(s) \in Payments /\ (pc[s] \in Holding \/ Called(s)) =>
         AttemptOf(s)' = IF PayOf(s) = PayOf(r) THEN row ELSE AttemptOf(s)
  <2> SUFFICES ASSUME NEW s \in Requests, PayOf(s) \in Payments,
                      pc[s] \in Holding \/ Called(s)
               PROVE  AttemptOf(s)' = IF PayOf(s) = PayOf(r) THEN row ELSE AttemptOf(s)
    OBVIOUS
  <2>1. req[s].att = 1 /\ Len(attempts[PayOf(s)]) = 1
    BY DEF LocalsCoherent
  <2>2. 1 \in 1 .. 1
    OBVIOUS
  <2>3. 1 \in DOMAIN attempts[PayOf(s)]
    BY <2>1, <2>2, AttemptTyped
  <2>4. QED
    BY <1>2, <2>1, <2>3 DEF AttemptOf, PayOf
<1>11. LocalsCoherent'
  <2> SUFFICES ASSUME NEW s \in Requests
               PROVE  /\ pc'[s] # "idle" => PayOf(s) \in Payments
                      /\ pc'[s] \in BeforeCall => ~ Called(s)
                      /\ pc'[s] = "reserve" => req[s].cred \in Versions
                      /\ pc'[s] \in Holding \/ Called(s) =>
                           req[s].att = 1 /\ Len(attempts'[PayOf(s)]) = 1
                      /\ pc'[s] = "dispatch" \/ Owns(s)' => AttemptOf(s)'.cred = req[s].cred
                      /\ Owns(s)' => AttemptOf(s)'.status # "PENDING"
                      /\ pc'[s] = "persist" => req[s].got \in OrdersByReceipt(PayOf(s))
                      /\ pc'[s] = "reject" => wire[s] = "rejected"
    BY <1>4 DEF LocalsCoherent, PayOf, Called
  <2>1. /\ pc'[s] # "idle" => PayOf(s) \in Payments
        /\ pc'[s] \in BeforeCall => ~ Called(s)
        /\ pc'[s] = "reserve" => req[s].cred \in Versions
        /\ pc'[s] = "persist" => req[s].got \in OrdersByReceipt(PayOf(s))
        /\ pc'[s] = "reject" => wire[s] = "rejected"
    BY <1>1, <1>3 DEF LocalsCoherent, BeforeCall, Owns
  <2>2. pc'[s] \in Holding \/ Called(s) => pc[s] \in Holding \/ Called(s)
    BY <1>3
  <2>3. Called(s) => PayOf(s) \in Payments
    BY DEF LocalsCoherent, BeforeCall
  <2>4. pc[s] \in Holding \/ Called(s) => PayOf(s) \in Payments
    BY <2>3 DEF LocalsCoherent, Holding
  <2>5. pc'[s] \in Holding \/ Called(s) => req[s].att = 1 /\ Len(attempts'[PayOf(s)]) = 1
    BY <1>2, <2>2, <2>4 DEF LocalsCoherent
  <2>6. ASSUME pc'[s] = "dispatch" \/ Owns(s)'
        PROVE  AttemptOf(s)'.cred = req[s].cred /\ (Owns(s)' => AttemptOf(s)'.status # "PENDING")
    <3>1. pc[s] = "dispatch" \/ Owns(s)
      BY <1>3, <1>5, <2>6 DEF Owns
    <3>2. /\ AttemptOf(s).cred = req[s].cred
          /\ Owns(s) => AttemptOf(s).status # "PENDING"
          /\ pc[s] \in Holding \/ Called(s)
          /\ PayOf(s) \in Payments
      BY <2>4, <3>1 DEF LocalsCoherent, Holding, Owns
    <3>3. AttemptOf(s)' = IF PayOf(s) = PayOf(r) THEN row ELSE AttemptOf(s)
      BY <1>10, <3>2
    <3>4. PayOf(s) = PayOf(r) => AttemptOf(s) = AttemptOf(r)
      BY <1>1, <3>2 DEF LocalsCoherent, AttemptOf
    <3>5. QED
      BY <1>5, <3>2, <3>3, <3>4
  <2>7. QED
    BY <2>1, <2>5, <2>6
<1>12. QED
  BY <1>4, <1>5, <1>6, <1>7, <1>8, <1>9, <1>11

(* Rewriting the status of the held row; the order it carries stays.         *)
LEMMA NewStatus ==
  ASSUME NEW a \in Attempt, NEW status \in AttemptStatus
  PROVE  /\ [a EXCEPT !.status = status] \in Attempt
         /\ [a EXCEPT !.status = status].status = status
         /\ [a EXCEPT !.status = status].cred = a.cred
         /\ [a EXCEPT !.status = status].order = a.order
BY DEF Attempt

(* An attempt that did not succeed has no order, and neither has its Payment.*)
LEMMA NoOrderWhileOpen ==
  ASSUME IndInv, NEW p \in Payments, Len(attempts[p]) = 1, attempts[p][1].status # "SUCCEEDED"
  PROVE  order[p] = None /\ attempts[p][1].order = None
<1>1. DOMAIN attempts[p] = 1 .. 1
  BY AttemptTyped
<1>2. 1 .. 1 = {1}
  OBVIOUS
<1>3. attempts[p][1].order = None
  BY <1>1, <1>2 DEF IndInv, EvidenceOfSuccess
<1>4. order[p] = None
  BY <1>1, <1>2, <1>3 DEF IndInv, OrderProven
<1>5. QED
  BY <1>3, <1>4

(* Claim, MarkFailed and KeepUnknown, when they change the held row's status.*)
LEMMA StatusStepIndInv ==
  ASSUME IndInv, NEW r \in Requests, NEW status \in {"UNKNOWN", "FAILED"},
         NEW step \in {"send", "failed"}, pc' = [pc EXCEPT ![r] = step],
         UNCHANGED <<payment, subscription, order, config, req, wire>>,
         pc[r] \in Holding, AttemptOf(r).status \in Open,
         SetAttempt(PayOf(r), req[r].att, [AttemptOf(r) EXCEPT !.status = status]),
         step = "send" => pc[r] = "dispatch" /\ AttemptOf(r).status = "PENDING" /\ status = "UNKNOWN",
         status = "FAILED" => wire[r] = "rejected"
  PROVE  IndInv'
<1> DEFINE p == PayOf(r)
           row == [AttemptOf(r) EXCEPT !.status = status]
<1> USE DEF IndInv
<1>1. /\ p \in Payments /\ req[r].att = 1 /\ Len(attempts[p]) = 1 /\ DOMAIN attempts[p] = {1}
      /\ AttemptOf(r) = attempts[p][1] /\ AttemptOf(r) \in Attempt
  BY HeldAttempt
<1>2. /\ row \in Attempt /\ row.status = status
      /\ row.cred = AttemptOf(r).cred /\ row.order = AttemptOf(r).order
  <2>1. status \in AttemptStatus /\ AttemptOf(r) \in Attempt
    BY <1>1 DEF AttemptStatus
  <2> HIDE DEF IndInv
  <2>2. QED
    BY ONLY <2>1, NewStatus
<1>3. order[p] = None /\ row.order = None
  BY <1>1, <1>2, NoOrderWhileOpen DEF Open
<1> HIDE DEF row
<1>4. /\ \A q \in Payments : DOMAIN attempts'[q] = DOMAIN attempts[q]
      /\ attempts'[p][1] = row
      /\ \A q \in Payments \ {p} : \A j \in DOMAIN attempts[q] :
           attempts'[q][j] = attempts[q][j]
  BY <1>2, WriteRow DEF row
<1>5. step = "send" => \A s \in Requests : PayOf(s) = PayOf(r) => ~ Owns(s)
  BY <1>1 DEF LocalsCoherent, AttemptOf, Owns, Holding
<1>6. /\ TypeOK' /\ OneAttempt' /\ LocalsCoherent' /\ SingleOwner' /\ EvidenceOfSuccess'
      /\ \A q : OrdersByReceipt(q)' = OrdersByReceipt(q)
      /\ \A s \in Requests : Owns(s)' => Owns(s) \/ (s = r /\ step = "send")
  <2>1. order' \in [Payments -> Order]
    BY DEF TypeOK
  <2>2. SetAttempt(PayOf(r), req[r].att, row)
    BY DEF row
  <2>3. row.status # "PENDING" /\ (row.order # None => row.status = "SUCCEEDED")
    BY <1>2, <1>3
  <2>4. step = "send" => /\ pc[r] = "dispatch"
                         /\ \A s \in Requests : PayOf(s) = PayOf(r) => ~ Owns(s)
    BY <1>5
  <2>5. step \in {"send", "failed", "done"} /\ row.cred = AttemptOf(r).cred
    BY <1>2
  <2>6. QED
    BY <1>2, <2>1, <2>2, <2>3, <2>4, <2>5, RowStepIndInv
<1>7. OrderProven'
  BY <1>1, <1>2, <1>3, <1>4, <1>6 DEF OrderProven
<1>8. OwnersRejected'
  <2> SUFFICES ASSUME NEW q \in Payments, NEW i \in DOMAIN attempts'[q],
                      attempts'[q][i].status = "FAILED"
               PROVE  /\ order'[q] = None
                      /\ \A s \in Requests : PayOf(s)' = q /\ Owns(s)' => wire'[s] = "rejected"
    BY DEF OwnersRejected
  <2>1. CASE q # p
    BY <1>4, <1>6, <2>1 DEF OwnersRejected, PayOf
  <2>2. CASE q = p
    <3>1. status = "FAILED" /\ wire[r] = "rejected" /\ step # "send"
      BY <1>1, <1>2, <1>4, <2>2
    <3>2. Owns(r)
      BY <3>1 DEF Owns, Called
    <3>3. QED
      BY <1>3, <1>6, <2>2, <3>1, <3>2 DEF SingleOwner, PayOf
  <2>3. QED
    BY <2>1, <2>2
<1>9. RenewalDispatchHeld'
  <2>1. \A q \in Payments : UnresolvedDispatch(q)' => UnresolvedDispatch(q)
    BY <1>1, <1>4 DEF UnresolvedDispatch
  <2>2. QED
    BY <2>1, ProviderOrdersAssumption DEF RenewalDispatchHeld, Eligible
<1>10. AnswersAgree'
  <2>1. \A s \in Requests : pc'[s] = "done" => pc[s] = "done"
    BY DEF TypeOK
  <2>2. QED
    BY <2>1 DEF AnswersAgree, PayOf
<1>11. QED
  BY <1>6, <1>7, <1>8, <1>9, <1>10

(* Writing the row back as it is changes nothing.                            *)
LEMMA RowUnchanged ==
  ASSUME IndInv, NEW r \in Requests, pc[r] \in Holding,
         SetAttempt(PayOf(r), req[r].att, AttemptOf(r))
  PROVE  attempts' = attempts
<1>1. PayOf(r) \in Payments /\ AttemptOf(r) = attempts[PayOf(r)][req[r].att]
  BY HeldAttempt DEF AttemptOf
<1>2. attempts \in [Payments -> Seq(Attempt)]
  BY DEF IndInv, TypeOK
<1>3. attempts[PayOf(r)] \in Seq(Attempt)
  BY <1>1, <1>2
<1>4. [attempts[PayOf(r)] EXCEPT ![req[r].att] = attempts[PayOf(r)][req[r].att]]
        = attempts[PayOf(r)]
  BY <1>3, LenProperties
<1>5. QED
  BY <1>1, <1>2, <1>4 DEF SetAttempt

(* MarkFailed and KeepUnknown write only a row that is still open.           *)
LEMMA CloseAttemptIndInv ==
  ASSUME IndInv, NEW r \in Requests, NEW status \in {"UNKNOWN", "FAILED"},
         pc[r] \in Holding, CloseAttempt(r, status),
         status = "FAILED" => wire[r] = "rejected"
  PROVE  IndInv'
<1>1. /\ pc' = [pc EXCEPT ![r] = "failed"]
      /\ UNCHANGED <<payment, subscription, order, config, req, wire>>
      /\ SetAttempt(PayOf(r), req[r].att,
           [AttemptOf(r) EXCEPT !.status = IF @ \in Open THEN status ELSE @])
  BY DEF CloseAttempt, Goto
<1>2. CASE AttemptOf(r).status \in Open
  <2>1. SetAttempt(PayOf(r), req[r].att, [AttemptOf(r) EXCEPT !.status = status])
    BY <1>1, <1>2
  <2>2. QED
    BY <1>1, <1>2, <2>1, StatusStepIndInv
<1>3. CASE AttemptOf(r).status \notin Open
  <2>1. AttemptOf(r) \in Attempt
    BY HeldAttempt
  <2>2. [AttemptOf(r) EXCEPT !.status = IF @ \in Open THEN status ELSE @] = AttemptOf(r)
    BY <1>3, <2>1 DEF Attempt
  <2>3. attempts' = attempts
    BY <1>1, <2>2, RowUnchanged
  <2>4. LocalStep(r)
    BY <1>1, <2>3 DEF LocalStep, IndInv, TypeOK, LocalsCoherent, Holding, BeforeCall, Final,
         Steps, PayOf
  <2>5. QED
    BY <2>4, LocalStepIndInv
<1>4. QED
  BY <1>2, <1>3

(* The compare-and-set: the winner becomes the Payment's only owner.         *)
LEMMA ClaimIndInv ==
  ASSUME IndInv, NEW r \in Requests, Claim(r)
  PROVE  IndInv'
<1>1. /\ pc[r] = "dispatch" /\ pc[r] \in Holding
      /\ UNCHANGED <<payment, subscription, order, config, req, wire>>
  BY DEF Claim, Holding
<1>2. CASE /\ AttemptOf(r).status = "PENDING"
           /\ SetAttempt(PayOf(r), req[r].att, [AttemptOf(r) EXCEPT !.status = "UNKNOWN"])
           /\ Goto(r, "send")
  BY <1>1, <1>2, StatusStepIndInv DEF Goto, Open
<1>3. CASE /\ AttemptOf(r).status # "PENDING"
           /\ Goto(r, ResumeStep(AttemptOf(r).status))
           /\ UNCHANGED attempts
  <2>1. AttemptOf(r).status \in AttemptStatus
    BY <1>1, HeldAttempt DEF Attempt
  <2>2. ResumeStep(AttemptOf(r).status) \in {"return", "failed", "lookup"}
    BY <1>3, <2>1 DEF AttemptStatus, ResumeStep
  <2>3. pc' = [pc EXCEPT ![r] = ResumeStep(AttemptOf(r).status)]
    BY <1>3 DEF Goto
  <2>4. LocalStep(r)
    BY <1>1, <1>3, <2>2, <2>3 DEF LocalStep, IndInv, TypeOK, LocalsCoherent, Holding, BeforeCall,
         Final, Steps, PayOf
  <2>5. QED
    BY <2>4, LocalStepIndInv
<1>4. QED
  BY <1>2, <1>3 DEF Claim

(* Recording an order proven at the provider.                                *)
LEMMA PersistSuccessIndInv ==
  ASSUME IndInv, NEW r \in Requests, PersistSuccess(r)
  PROVE  IndInv'
<1> DEFINE p == PayOf(r)
           row == [AttemptOf(r) EXCEPT !.status = "SUCCEEDED", !.order = req[r].got]
<1> USE DEF IndInv
<1>1. /\ pc[r] = "persist" /\ pc[r] \in Holding /\ Accepted(r)
      /\ order' = [order EXCEPT ![p] = req[r].got]
      /\ SetAttempt(PayOf(r), req[r].att, row)
      /\ pc' = [pc EXCEPT ![r] = "done"]
      /\ UNCHANGED <<payment, subscription, config, req, wire>>
  BY DEF PersistSuccess, Goto, Holding
<1>2. /\ p \in Payments /\ req[r].att = 1 /\ DOMAIN attempts[p] = {1}
      /\ AttemptOf(r) = attempts[p][1] /\ AttemptOf(r) \in Attempt
  BY <1>1, HeldAttempt
<1>3. req[r].got \in OrdersByReceipt(p) /\ req[r].got \in Requests /\ req[r].got # None
  BY <1>1, ProviderOrdersAssumption DEF LocalsCoherent, OrdersByReceipt
<1>4. /\ row \in Attempt /\ row.status = "SUCCEEDED"
      /\ row.cred = AttemptOf(r).cred /\ row.order = req[r].got
  <2>1. ASSUME NEW a \in Attempt, NEW o \in Order
        PROVE  /\ [a EXCEPT !.status = "SUCCEEDED", !.order = o] \in Attempt
               /\ [a EXCEPT !.status = "SUCCEEDED", !.order = o].status = "SUCCEEDED"
               /\ [a EXCEPT !.status = "SUCCEEDED", !.order = o].cred = a.cred
               /\ [a EXCEPT !.status = "SUCCEEDED", !.order = o].order = o
    BY DEF Attempt, AttemptStatus
  <2>2. AttemptOf(r) \in Attempt /\ req[r].got \in Order
    BY <1>2, <1>3 DEF Order
  <2>3. QED
    BY ONLY <2>1, <2>2
<1> HIDE DEF row
<1>5. order' \in [Payments -> Order]
  BY <1>1, <1>3 DEF TypeOK, Order
<1>6. /\ order'[p] = req[r].got
      /\ \A q \in Payments \ {p} : order'[q] = order[q]
  BY <1>1, <1>2 DEF TypeOK
<1>7. /\ \A q \in Payments : DOMAIN attempts'[q] = DOMAIN attempts[q]
      /\ attempts'[p][1] = row
      /\ \A q \in Payments \ {p} : \A j \in DOMAIN attempts[q] :
           attempts'[q][j] = attempts[q][j]
  BY <1>1, <1>4, WriteRow
<1>8. /\ TypeOK' /\ OneAttempt' /\ LocalsCoherent' /\ SingleOwner' /\ EvidenceOfSuccess'
      /\ \A q : OrdersByReceipt(q)' = OrdersByReceipt(q)
      /\ \A s \in Requests : Owns(s)' => Owns(s)
  BY <1>1, <1>4, <1>5, RowStepIndInv
<1>9. OrderProven'
  <2> SUFFICES ASSUME NEW q \in Payments
               PROVE  /\ order'[q] # None =>
                           /\ order'[q] \in OrdersByReceipt(q)
                           /\ \E i \in DOMAIN attempts'[q] : attempts'[q][i].order = order'[q]
                      /\ \A i \in DOMAIN attempts'[q] :
                           attempts'[q][i].status = "SUCCEEDED" =>
                             order'[q] # None /\ attempts'[q][i].order = order'[q]
    BY <1>8 DEF OrderProven
  <2>1. CASE q = p
    BY <1>2, <1>3, <1>4, <1>6, <1>7, <2>1
  <2>2. CASE q # p
    BY <1>6, <1>7, <2>2 DEF OrderProven
  <2>3. QED
    BY <2>1, <2>2
<1>10. OwnersRejected'
  <2> SUFFICES ASSUME NEW q \in Payments, NEW i \in DOMAIN attempts'[q],
                      attempts'[q][i].status = "FAILED"
               PROVE  /\ order'[q] = None
                      /\ \A s \in Requests : PayOf(s)' = q /\ Owns(s)' => wire'[s] = "rejected"
    BY DEF OwnersRejected
  <2>1. q # p
    BY <1>2, <1>4, <1>7
  <2>2. QED
    BY <1>1, <1>6, <1>7, <1>8, <2>1 DEF OwnersRejected, PayOf
<1>11. RenewalDispatchHeld'
  <2>1. \A q \in Payments : UnresolvedDispatch(q)' => UnresolvedDispatch(q)
    BY <1>2, <1>4, <1>7 DEF UnresolvedDispatch, Open
  <2>2. QED
    BY <1>1, <2>1, ProviderOrdersAssumption DEF RenewalDispatchHeld, Eligible
<1>12. AnswersAgree'
  <2> SUFFICES ASSUME NEW s \in Requests, pc'[s] = "done"
               PROVE  order'[PayOf(s)] = req[s].got /\ req[s].got # None
    BY <1>1 DEF AnswersAgree, PayOf
  <2>1. CASE s = r
    BY <1>3, <1>6, <2>1
  <2>2. CASE s # r
    <3>1. /\ pc[s] = "done" /\ PayOf(s) \in Payments
          /\ order[PayOf(s)] = req[s].got /\ req[s].got # None
      BY <1>1, <2>2 DEF TypeOK, AnswersAgree, LocalsCoherent
    <3>2. order[p] # None => order[p] = req[r].got
      BY <1>1 DEF Accepted
    <3>3. QED
      BY <1>6, <3>1, <3>2
  <2>3. QED
    BY <2>1, <2>2
<1>13. QED
  BY <1>8, <1>9, <1>10, <1>11, <1>12

(* The first row of an empty sequence of attempts.                           *)
LEMMA FirstRow ==
  ASSUME NEW a \in Seq(Attempt), Len(a) = 0, NEW row \in Attempt
  PROVE  /\ Append(a, row) \in Seq(Attempt)
         /\ Len(Append(a, row)) = 1
         /\ DOMAIN Append(a, row) = {1}
         /\ Append(a, row)[1] = row
<1>1. /\ Append(a, row) \in Seq(Attempt) /\ Len(Append(a, row)) = 0 + 1
      /\ Append(a, row)[0 + 1] = row
  BY AppendProperties
<1>2. DOMAIN Append(a, row) = 1 .. Len(Append(a, row))
  BY <1>1, LenProperties
<1>3. 0 + 1 = 1 /\ 1 .. 1 = {1}
  OBVIOUS
<1>4. QED
  BY <1>1, <1>2, <1>3

(* The insert: nobody holds or owns the Payment's first attempt yet.         *)
LEMMA CreateAttemptIndInv ==
  ASSUME IndInv, NEW r \in Requests, pc[r] = "reserve", ReservePermitted(r),
         order[PayOf(r)] = None, ReferenceFree(PayOf(r)),
         attempts' = [attempts EXCEPT ![PayOf(r)] = Append(@,
                        [status |-> "PENDING", cred |-> req[r].cred, order |-> None])],
         req' = [req EXCEPT ![r].att = Latest(PayOf(r)) + 1],
         pc' = [pc EXCEPT ![r] = "dispatch"],
         UNCHANGED <<payment, subscription, order, config, wire>>
  PROVE  IndInv'
<1> DEFINE p == PayOf(r)
           row == [status |-> "PENDING", cred |-> req[r].cred, order |-> None]
<1> USE DEF IndInv
<1>1. p \in Payments /\ ~ Called(r)
  BY DEF LocalsCoherent, BeforeCall
<1>2. req[r].cred \in Versions /\ req[r] \in Locals
  BY DEF LocalsCoherent, TypeOK
<1>3. row \in Attempt /\ row.status = "PENDING" /\ row.cred = req[r].cred /\ row.order = None
  BY <1>2 DEF Attempt, AttemptStatus, Order
<1> HIDE DEF row
<1>4. attempts[p] \in Seq(Attempt) /\ Len(attempts[p]) = 0 /\ DOMAIN attempts[p] = {}
  <2>1. attempts[p] \in Seq(Attempt)
    BY <1>1 DEF TypeOK
  <2>3. Len(attempts[p]) \in Nat /\ DOMAIN attempts[p] = 1 .. Len(attempts[p])
    BY <2>1, LenProperties
  <2>4. ~ (Len(attempts[p]) > 0)
    BY DEF ReferenceFree, HasAttempt
  <2>5. QED
    BY <2>1, <2>3, <2>4, NoneYet
<1>5. /\ Append(attempts[p], row) \in Seq(Attempt)
      /\ Len(Append(attempts[p], row)) = 1
      /\ DOMAIN Append(attempts[p], row) = {1}
      /\ Append(attempts[p], row)[1] = row
  BY <1>3, <1>4, FirstRow
<1>6. attempts' = [attempts EXCEPT ![p] = Append(attempts[p], row)]
  BY DEF row
<1>7. /\ attempts' \in [Payments -> Seq(Attempt)]
      /\ Len(attempts'[p]) = 1 /\ DOMAIN attempts'[p] = {1} /\ attempts'[p][1] = row
      /\ \A q \in Payments \ {p} : attempts'[q] = attempts[q]
  BY <1>1, <1>5, <1>6 DEF TypeOK
<1>8. /\ req'[r] \in Locals /\ req'[r].pay = p /\ req'[r].att = 1 /\ req'[r].cred = req[r].cred
      /\ \A s \in Requests \ {r} : req'[s] = req[s]
      /\ req' \in [Requests -> Locals]
  <2>1. Latest(p) + 1 = 1
    <3>1. 0 + 1 = 1
      OBVIOUS
    <3>2. QED
      BY <1>4, <3>1 DEF Latest
  <2>2. req' = [req EXCEPT ![r] = [req[r] EXCEPT !.att = 1]]
    BY <2>1
  <2>3. ASSUME NEW l \in Locals
        PROVE  /\ [l EXCEPT !.att = 1] \in Locals /\ [l EXCEPT !.att = 1].pay = l.pay
               /\ [l EXCEPT !.att = 1].att = 1 /\ [l EXCEPT !.att = 1].cred = l.cred
    BY DEF Locals
  <2>4. /\ req'[r] = [req[r] EXCEPT !.att = 1]
        /\ \A s \in Requests \ {r} : req'[s] = req[s]
    BY <2>2 DEF TypeOK
  <2>5. req'[r] \in Locals
    BY <1>2, <2>3, <2>4
  <2>6. req' \in [Requests -> Locals]
    BY <2>2, <2>4, <2>5 DEF TypeOK
  <2>7. QED
    BY <1>2, <2>3, <2>4, <2>5, <2>6 DEF PayOf
<1>9. /\ pc'[r] = "dispatch"
      /\ \A s \in Requests \ {r} : pc'[s] = pc[s]
  BY DEF TypeOK
<1>10. \A s \in Requests : PayOf(s) = p => pc[s] \notin Holding /\ ~ Called(s)
  <2>1. 0 # 1
    OBVIOUS
  <2>2. QED
    BY <1>4, <2>1 DEF LocalsCoherent
<1>11. \A s \in Requests : PayOf(s)' = PayOf(s) /\ (Owns(s)' <=> Owns(s))
  BY <1>8, <1>9 DEF Owns, Called, PayOf
<1>12. \A q : OrdersByReceipt(q)' = OrdersByReceipt(q)
  BY <1>11 DEF OrdersByReceipt
<1>13. TypeOK'
  BY <1>7, <1>8 DEF TypeOK, Steps, Holding
<1>14. OneAttempt'
  <2>1. 1 <= 1
    OBVIOUS
  <2>2. QED
    BY <1>7, <2>1 DEF OneAttempt
<1>15. EvidenceOfSuccess'
  BY <1>3, <1>7 DEF EvidenceOfSuccess
<1>16. LocalsCoherent'
  <2> SUFFICES ASSUME NEW s \in Requests
               PROVE  /\ pc'[s] # "idle" => PayOf(s)' \in Payments
                      /\ pc'[s] \in BeforeCall => ~ Called(s)'
                      /\ pc'[s] = "reserve" => req'[s].cred \in Versions
                      /\ pc'[s] \in Holding \/ Called(s)' =>
                           req'[s].att = 1 /\ Len(attempts'[PayOf(s)']) = 1
                      /\ pc'[s] = "dispatch" \/ Owns(s)' => AttemptOf(s)'.cred = req'[s].cred
                      /\ Owns(s)' => AttemptOf(s)'.status # "PENDING"
                      /\ pc'[s] = "persist" => req'[s].got \in OrdersByReceipt(PayOf(s))'
                      /\ pc'[s] = "reject" => wire'[s] = "rejected"
    BY DEF LocalsCoherent
  <2>1. CASE s = r
    BY <1>1, <1>3, <1>7, <1>8, <1>9, <2>1 DEF Called, Owns, AttemptOf, PayOf
  <2>2. CASE s # r
    <3>1. /\ PayOf(s)' = PayOf(s) /\ Called(s)' = Called(s)
          /\ pc'[s] = pc[s] /\ req'[s] = req[s] /\ wire'[s] = wire[s]
      BY <1>8, <1>9, <2>2 DEF PayOf, Called
    <3>2. ASSUME pc[s] \in Holding \/ Called(s)
          PROVE  attempts'[PayOf(s)] = attempts[PayOf(s)] /\ AttemptOf(s)' = AttemptOf(s)
      <4>1. PayOf(s) # p /\ PayOf(s) \in Payments
        BY <1>10, <3>2 DEF LocalsCoherent, BeforeCall, Holding
      <4>2. QED
        BY <1>7, <3>1, <4>1 DEF AttemptOf
    <3>3. pc[s] = "dispatch" \/ Owns(s) => pc[s] \in Holding \/ Called(s)
      BY DEF Owns, Holding
    <3>4. QED
      BY <1>11, <1>12, <3>1, <3>2, <3>3 DEF LocalsCoherent
  <2>3. QED
    BY <2>1, <2>2
<1>17. SingleOwner'
  BY <1>11 DEF SingleOwner
<1>18. OrderProven'
  BY <1>3, <1>7, <1>12 DEF OrderProven
<1>19. OwnersRejected'
  BY <1>3, <1>7, <1>11 DEF OwnersRejected
<1>20. RenewalDispatchHeld'
  BY <1>7 DEF RenewalDispatchHeld, UnresolvedDispatch, Eligible, ReservePermitted
<1>21. AnswersAgree'
  BY <1>8, <1>9, <1>11 DEF AnswersAgree
<1>22. QED
  BY <1>13, <1>14, <1>15, <1>16, <1>17, <1>18, <1>19, <1>20, <1>21

(* Every outcome of the reservation transaction.                             *)
LEMMA ReserveIndInv ==
  ASSUME IndInv, NEW r \in Requests, Reserve(r)
  PROVE  IndInv'
<1>1. /\ pc[r] = "reserve" /\ PayOf(r) \in Payments /\ ~ Called(r)
      /\ UNCHANGED <<payment, subscription, order, config, wire>>
  BY DEF Reserve, IndInv, LocalsCoherent, BeforeCall
<1>2. CASE Goto(r, "failed") /\ UNCHANGED <<attempts, req>>
  <2>1. LocalStep(r)
    BY <1>1, <1>2 DEF IndInv, TypeOK, LocalsCoherent, BeforeCall, LocalStep, Goto, Holding, Final,
         Steps, PayOf
  <2>2. QED
    BY <2>1, LocalStepIndInv
<1>3. CASE ReturnCurrent(r) /\ UNCHANGED attempts
  BY <1>1, <1>3, ReturnCurrentLocal, LocalStepIndInv
<1>4. CASE HasAttempt(PayOf(r)) /\ ResumeLatest(r) /\ UNCHANGED attempts
  BY <1>1, <1>4, ResumeLatestLocal, LocalStepIndInv
<1>5. CASE /\ ReservePermitted(r) /\ order[PayOf(r)] = None /\ ReferenceFree(PayOf(r))
           /\ attempts' = [attempts EXCEPT ![PayOf(r)] = Append(@,
                [status |-> "PENDING", cred |-> req[r].cred, order |-> None])]
           /\ req' = [req EXCEPT ![r].att = Latest(PayOf(r)) + 1]
           /\ Goto(r, "dispatch")
  BY <1>1, <1>5, CreateAttemptIndInv DEF Goto
<1>6. QED
  BY <1>1, <1>2, <1>3, <1>4, <1>5 DEF Reserve

(* Every step of a run, and every answer of the provider.                    *)
LEMMA RequestIndInv ==
  ASSUME IndInv, NEW r \in Requests, RequestStep(r) \/ ProviderAnswer(r)
  PROVE  IndInv'
<1>1. CASE Reserve(r)
  BY <1>1, ReserveIndInv
<1>2. CASE Claim(r)
  BY <1>2, ClaimIndInv
<1>3. CASE Send(r)
  BY <1>3, SendIndInv
<1>4. CASE PersistSuccess(r)
  BY <1>4, PersistSuccessIndInv
<1>5. CASE MarkFailed(r)
  <2>1. wire[r] = "rejected" /\ pc[r] \in Holding
    BY <1>5 DEF MarkFailed, IndInv, LocalsCoherent, Holding
  <2>2. QED
    BY <1>5, <2>1, CloseAttemptIndInv DEF MarkFailed
<1>6. CASE KeepUnknown(r)
  BY <1>6, CloseAttemptIndInv DEF KeepUnknown, Holding
<1>7. CASE ProviderAnswer(r)
  BY <1>7, ProviderAnswerIndInv
<1>8. QED
  BY <1>1, <1>2, <1>3, <1>4, <1>5, <1>6, <1>7, LocalActions, LocalStepIndInv DEF RequestStep

(* The rest of the backend: what it writes, and what it may not write.       *)
LEMMA SubscriptionIndInv ==
  ASSUME IndInv, NEW p \in Payments,
         SubscriptionStep(p)
  PROVE  IndInv'
<1> USE DEF IndInv
<1>1. /\ UNCHANGED <<attempts, order, config, pc, req, wire>>
      /\ \/ UNCHANGED payment /\ subscription' \in [Payments -> SubscriptionStatus]
         \/ UNCHANGED subscription /\ payment' \in [Payments -> {"PENDING", "SETTLED"}]
  BY DEF SubscriptionStep, Cancel, Suspend, Resume, Expire, Settle, SetSubscription,
         TypeOK, SubscriptionStatus
<1>2. \A q : OrdersByReceipt(q)' = OrdersByReceipt(q)
  BY <1>1 DEF OrdersByReceipt, PayOf
<1>3. TypeOK' /\ OneAttempt' /\ EvidenceOfSuccess'
  BY <1>1 DEF TypeOK, OneAttempt, EvidenceOfSuccess
<1>4. LocalsCoherent'
  BY <1>1, <1>2 DEF LocalsCoherent, PayOf, AttemptOf, Called, Owns
<1>5. SingleOwner' /\ OwnersRejected'
  BY <1>1 DEF SingleOwner, OwnersRejected, Owns, Called, PayOf
<1>6. OrderProven'
  BY <1>1, <1>2 DEF OrderProven
<1>7. AnswersAgree'
  BY <1>1 DEF AnswersAgree, PayOf
<1>8. RenewalDispatchHeld'
  <2> SUFFICES ASSUME NEW q \in Renewals, UnresolvedDispatch(q) PROVE Eligible(q, TRUE)'
    BY <1>1 DEF RenewalDispatchHeld, UnresolvedDispatch
  <2>1. /\ q \in Payments /\ payment[q] = "PENDING" /\ subscription[q] \in {"ACTIVE", "EXPIRED"}
    BY ProviderOrdersAssumption DEF RenewalDispatchHeld, Eligible
  <2>2. payment'[q] = "PENDING"
    <3>1. CASE Settle(p)
      <4>1. p # q
        <5>1. ASSUME p = q PROVE FALSE
          <6>1. order[q] # None
            BY <3>1, <5>1 DEF Settle
          <6>2. PICK i \in DOMAIN attempts[q] : attempts[q][i].status \in Open
            BY DEF UnresolvedDispatch
          <6>3. DOMAIN attempts[q] = 1 .. Len(attempts[q]) /\ Len(attempts[q]) \in Nat
                /\ Len(attempts[q]) <= 1
            BY <2>1, AttemptTyped
          <6>4. i = 1 /\ Len(attempts[q]) = 1
            BY <6>2, <6>3, OnlyIndex
          <6>5. attempts[q][1].status # "SUCCEEDED"
            BY <6>2, <6>4 DEF Open
          <6>6. QED
            BY <2>1, <6>1, <6>4, <6>5, NoOrderWhileOpen
        <5>2. QED
          BY <5>1
      <4>2. QED
        BY <2>1, <3>1, <4>1 DEF Settle, TypeOK
    <3>2. CASE ~ Settle(p)
      BY <2>1, <3>2 DEF SubscriptionStep, Cancel, Suspend, Resume, Expire, SetSubscription
    <3>3. QED
      BY <3>1, <3>2
  <2>3. subscription'[q] \in {"ACTIVE", "EXPIRED"}
    BY <2>1 DEF SubscriptionStep, Cancel, Suspend, Resume, Expire, Settle,
         SetSubscription, TypeOK
  <2>4. QED
    BY <2>2, <2>3 DEF Eligible
<1>9. QED
  BY <1>3, <1>4, <1>5, <1>6, <1>7, <1>8

(* Credential rotation and the provider switch touch no Payment.             *)
LEMMA ConfigurationIndInv ==
  ASSUME IndInv,
         \/ RotateCredential
         \/ SwitchProvider
         \/ UNCHANGED vars
  PROVE  IndInv'
<1> USE DEF IndInv
<1>1. UNCHANGED <<payment, subscription, attempts, order, pc, req, wire>>
  BY DEF RotateCredential, SwitchProvider, moneyVars, vars
<1>2. config' \in [enabled : BOOLEAN, version : Versions]
  <2>1. CASE RotateCredential
    <3>1. config.version + 1 \in Versions
      BY <2>1, NextVersion, ProviderOrdersAssumption DEF RotateCredential, TypeOK, Versions
    <3>2. QED
      BY <2>1, <3>1 DEF RotateCredential, TypeOK
  <2>2. CASE SwitchProvider \/ UNCHANGED vars
    BY <2>2 DEF SwitchProvider, vars, TypeOK
  <2>3. QED
    BY <2>1, <2>2
<1>3. \A q : OrdersByReceipt(q)' = OrdersByReceipt(q)
  BY <1>1 DEF OrdersByReceipt, PayOf
<1>4. TypeOK' /\ OneAttempt' /\ EvidenceOfSuccess'
  BY <1>1, <1>2 DEF TypeOK, OneAttempt, EvidenceOfSuccess
<1>5. LocalsCoherent'
  BY <1>1, <1>3 DEF LocalsCoherent, PayOf, AttemptOf, Called, Owns
<1>6. SingleOwner' /\ OwnersRejected'
  BY <1>1 DEF SingleOwner, OwnersRejected, Owns, Called, PayOf
<1>7. OrderProven' /\ AnswersAgree'
  BY <1>1, <1>3 DEF OrderProven, AnswersAgree, PayOf
<1>8. RenewalDispatchHeld'
  BY <1>1 DEF RenewalDispatchHeld, UnresolvedDispatch, Eligible
<1>9. QED
  BY <1>4, <1>5, <1>6, <1>7, <1>8

(* Only reserving an attempt makes a Payment's sequence of attempts longer.  *)
LEMMA LengthKept ==
  ASSUME IndInv, [Next]_vars
  PROVE  \/ \A p \in Payments : Len(attempts'[p]) = Len(attempts[p])
         \/ \E r \in Requests : Reserve(r) /\ ReservePermitted(r)
<1> DEFINE Kept == \A p \in Payments : Len(attempts'[p]) = Len(attempts[p])
<1>1. ASSUME NEW r \in Requests, Reserve(r) PROVE Kept \/ ReservePermitted(r)
  BY <1>1 DEF Reserve
<1>2. ASSUME NEW r \in Requests, Claim(r) PROVE Kept
  <2>1. CASE AttemptOf(r).status # "PENDING"
    BY <1>2, <2>1 DEF Claim
  <2>2. CASE AttemptOf(r).status = "PENDING"
    <3>1. pc[r] \in Holding /\ [AttemptOf(r) EXCEPT !.status = "UNKNOWN"] \in Attempt
      BY <1>2, HeldAttempt, NewStatus DEF Claim, Holding, AttemptStatus
    <3>2. QED
      BY <1>2, <2>2, <3>1, WriteRow DEF Claim
  <2>3. QED
    BY <2>1, <2>2
<1>3. ASSUME NEW r \in Requests, NEW status \in AttemptStatus,
             pc[r] \in Holding, CloseAttempt(r, status)
      PROVE  Kept
  <2> DEFINE row == [AttemptOf(r) EXCEPT !.status = IF @ \in Open THEN status ELSE @]
  <2>1. AttemptOf(r) \in Attempt
    BY <1>3, HeldAttempt
  <2>2. row \in Attempt
    BY <2>1 DEF Attempt
  <2> HIDE DEF row
  <2>3. SetAttempt(PayOf(r), req[r].att, row)
    BY <1>3 DEF CloseAttempt, row
  <2>4. QED
    BY <1>3, <2>2, <2>3, WriteRow
<1>4. ASSUME NEW r \in Requests, PersistSuccess(r) PROVE Kept
  <2> DEFINE row == [AttemptOf(r) EXCEPT !.status = "SUCCEEDED", !.order = req[r].got]
  <2>1. /\ pc[r] \in Holding /\ SetAttempt(PayOf(r), req[r].att, row)
        /\ req[r].got \in Order
    BY <1>4 DEF PersistSuccess, Holding, IndInv, LocalsCoherent, OrdersByReceipt, Order
  <2>2. ASSUME NEW a \in Attempt, NEW o \in Order
        PROVE  [a EXCEPT !.status = "SUCCEEDED", !.order = o] \in Attempt
    BY DEF Attempt, AttemptStatus
  <2>3. row \in Attempt
    BY <2>1, <2>2, HeldAttempt
  <2> HIDE DEF row
  <2>4. QED
    BY <2>1, <2>3, WriteRow
<1>5. ASSUME NEW r \in Requests, RequestStep(r) \/ ProviderAnswer(r)
      PROVE  Kept \/ Reserve(r)
  <2>1. CASE MarkFailed(r) \/ KeepUnknown(r)
    BY <1>3, <2>1 DEF MarkFailed, KeepUnknown, Holding, AttemptStatus
  <2>2. CASE attempts' = attempts
    BY <2>2
  <2>3. QED
    BY <1>2, <1>4, <1>5, <2>1, <2>2 DEF RequestStep, ProviderAnswer, Begin, FindCurrentOrder,
         LockAndRevalidate, FindLatestAttempt, ResolveCredential, Send, ReceiveOrder,
         ReceiveRejection, CallUnknown, Lookup, PersistRefused, ReturnSucceeded, Crash, moneyVars
<1>6. CASE \E p \in Payments : SubscriptionStep(p)
  BY <1>6 DEF SubscriptionStep, Cancel, Suspend, Resume, Expire, Settle, SetSubscription
<1>7. CASE RotateCredential \/ SwitchProvider \/ UNCHANGED vars
  BY <1>7 DEF RotateCredential, SwitchProvider, moneyVars, vars
<1>8. QED
  BY <1>1, <1>5, <1>6, <1>7 DEF Next

(* The row a reservation adds carries the credential that is current.        *)
LEMMA ReservedRow ==
  ASSUME IndInv, NEW r \in Requests, Reserve(r), ReservePermitted(r),
         NEW p \in Payments, Len(attempts'[p]) > Len(attempts[p])
  PROVE  config.enabled /\ attempts'[p][Len(attempts'[p])].cred = config.version
<1> DEFINE row == [status |-> "PENDING", cred |-> req[r].cred, order |-> None]
<1>1. PayOf(r) \in Payments /\ req[r].cred \in Versions /\ attempts \in [Payments -> Seq(Attempt)]
  BY DEF IndInv, TypeOK, LocalsCoherent, Reserve
<1>2. row \in Attempt /\ row.cred = config.version /\ config.enabled
  BY <1>1 DEF Attempt, AttemptStatus, Order, ReservePermitted
<1>3. attempts'[p] # attempts[p]
  BY AttemptTyped, NotAbove
<1> HIDE DEF row
<1>4. p = PayOf(r) /\ ReferenceFree(p) /\ attempts'[p] = Append(attempts[p], row)
  BY <1>1, <1>3 DEF Reserve, row
<1>5. Len(attempts[p]) = 0
  BY <1>4, AttemptTyped, NoneYet DEF ReferenceFree, HasAttempt
<1>6. Len(attempts'[p]) = 1 /\ attempts'[p][1] = row
  BY <1>1, <1>2, <1>4, <1>5, FirstRow
<1>7. QED
  BY <1>2, <1>6

-----------------------------------------------------------------------------
\* The inductive invariant holds in every reachable state, for any sets of
\* Payments and runs of prepare().
THEOREM Invariance == Spec => []IndInv
<1>1. ASSUME IndInv, [Next]_vars PROVE IndInv'
  BY <1>1, RequestIndInv, SubscriptionIndInv, ConfigurationIndInv DEF Next
<1>2. QED
  BY InitIndInv, <1>1, PTL DEF Spec

\* Every variable keeps its type: in particular the sequence of attempts only
\* ever holds well formed rows bound to a configured credential version.
THEOREM TypeCorrect == Spec => []TypeOK
<1>1. IndInv => TypeOK
  BY DEF IndInv
<1>2. QED
  BY <1>1, Invariance, PTL

\* At most one createOrder call is made for a Payment, for any number of
\* overlapping runs, crashes and credential rotations.
THEOREM OneDispatch == Spec => []SingleDispatch
<1>1. IndInv => SingleDispatch
  BY DEF IndInv, SingleOwner, SingleDispatch, Owns
<1>2. QED
  BY <1>1, Invariance, PTL

\* A recorded order was made at the provider for its Payment, and exactly the
\* SUCCEEDED attempts are its evidence.
THEOREM OrdersProven == Spec => []OrderProven
<1>1. IndInv => OrderProven
  BY DEF IndInv
<1>2. QED
  BY <1>1, Invariance, PTL

\* A definitive rejection is never followed, or contradicted, by an order.
THEOREM RejectionIsFinal == Spec => []RejectionFinal
<1>1. IndInv => RejectionFinal
  BY DEF IndInv, OwnersRejected, RejectionFinal, Owns
<1>2. QED
  BY <1>1, Invariance, PTL

\* An unresolved renewal dispatch keeps its Payment and subscription in a state
\* in which the order can still be recorded.
THEOREM DispatchHeld == Spec => []RenewalDispatchHeld
<1>1. IndInv => RenewalDispatchHeld
  BY DEF IndInv
<1>2. QED
  BY <1>1, Invariance, PTL

\* Every call was signed with the credential version its attempt is bound to.
THEOREM BoundCredential == Spec => []CallUsesBoundCredential
<1>1. IndInv => CallUsesBoundCredential
  BY DEF IndInv, LocalsCoherent, CallUsesBoundCredential, Owns
<1>2. QED
  BY <1>1, Invariance, PTL

\* All runs that answer, answer with the one order recorded for the Payment.
THEOREM Agreement == Spec => []AnswersAgree
<1>1. IndInv => AnswersAgree
  BY DEF IndInv
<1>2. QED
  BY <1>1, Invariance, PTL

\* A step that adds an attempt binds it to the credential that is current and
\* enabled in that very step, although the run read it earlier without a lock.
THEOREM CurrentCredential == Spec => ReservedOnCurrentCredential
<1> DEFINE Bound == \A p \in Payments : Len(attempts'[p]) > Len(attempts[p]) =>
                      config.enabled /\ attempts'[p][Len(attempts'[p])].cred = config.version
<1>1. ASSUME IndInv, [Next]_vars PROVE Bound
  <2>1. \/ \A p \in Payments : Len(attempts'[p]) = Len(attempts[p])
        \/ \E r \in Requests : Reserve(r) /\ ReservePermitted(r)
    BY <1>1, LengthKept DEF Next
  <2>2. CASE \A p \in Payments : Len(attempts'[p]) = Len(attempts[p])
    <3> SUFFICES ASSUME NEW p \in Payments PROVE ~ (Len(attempts'[p]) > Len(attempts[p]))
      OBVIOUS
    <3>1. Len(attempts[p]) \in Nat /\ Len(attempts'[p]) = Len(attempts[p])
      BY <1>1, <2>2, AttemptTyped
    <3>2. QED
      BY <3>1, NotAbove
  <2>3. CASE \E r \in Requests : Reserve(r) /\ ReservePermitted(r)
    BY <1>1, <2>3, ReservedRow
  <2>4. QED
    BY <2>1, <2>2, <2>3
<1>2. QED
  BY <1>1, Invariance, PTL DEF Spec, ReservedOnCurrentCredential
=============================================================================
