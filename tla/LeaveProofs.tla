----------------------------- MODULE LeaveProofs ----------------------------
(***************************************************************************)
(* Proofs about Leave, for any people, leave types, requests, calls, days  *)
(* and changes.                                                            *)
(*                                                                         *)
(* A request that exists has its applicant, type and days, and an approver *)
(* who is somebody else (RequestsCoherent); a call is about one that       *)
(* exists (CallsCoherent).  With these NoOverlap and OneDecision are       *)
(* inductive: of the steps only Apply makes a request, and only Decide     *)
(* changes one, and none but a pending one.                                *)
(*                                                                         *)
(* BalanceMatches compares each balance with a sum over a set.  That such  *)
(* a sum exists, and is the same whatever order the fold takes, is shown   *)
(* with the smallest set of which it would be false (SumExists, SameSum,   *)
(* DaysAddUp); a decision then takes one request into one of the sets      *)
(* (DaysOfOneMore).  For this the requests that exist must be finitely     *)
(* many, which is part of the invariant.                                   *)
(***************************************************************************)
EXTENDS Leave, SequenceTheorems, FiniteSetTheorems, WellFoundedInduction, TLAPS

RequestsCoherent ==
  \A r \in Requests : request[r].status # "ABSENT" =>
    /\ request[r].by \in People /\ request[r].type \in Types
    /\ request[r].first \in Days /\ request[r].last \in Days
    /\ request[r].assigned # request[r].by

CallsCoherent ==
  \A c \in Calls : call[c] # Idle =>
    call[c] \in Call /\ request[call[c].on].status # "ABSENT"

Rows(q) == {r \in Requests : q[r].status # "ABSENT"}

IInv ==
  /\ TypeOK /\ RequestsCoherent /\ CallsCoherent /\ NoOverlap /\ OneDecision
  /\ IsFiniteSet(Rows(request))

-----------------------------------------------------------------------------
(* What each step may do                                                    *)

\* The steps that change no request: requests, histories and balances stay.
Untouched == UNCHANGED <<request, history, used>>

\* The steps that administer people and types.
Administers ==
  \/ \E p \in People : ChangeUser(p) \/ ChangeEmployee(p) \/ RemoveEmployee(p)
  \/ \E u \in People \cup {None} : Designate(u)
  \/ \E t \in Types : UpdateType(t) \/ CountPending(t) \/ DeleteType(t)

\* The steps of calls that have not decided.
Looks ==
  \/ \E c \in Calls, r \in Requests, p \in People :
       \/ \E decision \in {"APPROVED", "REJECTED"} : Review(c, r, p, decision)
       \/ Cancel(c, r, p)
  \/ \E c \in Calls : Fail(c)

LEMMA StepsAre ==
  ASSUME [Next]_vars
  PROVE  \/ \E r \in Requests, p \in People, t \in Types, first, last \in Days :
              Apply(r, p, t, first, last)
         \/ \E c \in Calls : Decide(c)
         \/ Looks
         \/ Administers
         \/ UNCHANGED vars
BY DEF Next, Looks, Administers

LEMMA AdministersTyped ==
  ASSUME TypeOK, Administers
  PROVE  TypeOK' /\ UNCHANGED call /\ Untouched
<1>1. UNCHANGED <<request, history, used, call>>
  BY DEF Administers, ChangeUser, ChangeEmployee, RemoveEmployee, Designate, UpdateType,
         CountPending, DeleteType
<1>2. changes' \in 0 .. MaxChanges
  <2>1. changes' = changes \/ Change
    BY DEF Administers, ChangeUser, ChangeEmployee, RemoveEmployee, Designate, UpdateType,
           CountPending, DeleteType
  <2>. QED BY <2>1, LeaveAssumption DEF TypeOK, Change
<1>3. person' \in [People -> Person]
  <2>1. ASSUME NEW p \in People, ChangeUser(p)
        PROVE  person' \in [People -> Person]
    <3>1. person[p] \in Person
      BY DEF TypeOK
    <3>2. person[p].roles \in SUBSET Roles
      BY <3>1 DEF Person
    <3>3. CASE person' = [person EXCEPT ![p].active = ~ @]
      <4>1. PICK b \in BOOLEAN : b = ~ person[p].active
        OBVIOUS
      <4>2. [person[p] EXCEPT !.active = b] \in Person
        BY <3>1 DEF Person
      <4>3. person' = [person EXCEPT ![p] = [person[p] EXCEPT !.active = b]]
        BY <3>3, <4>1, Zenon
      <4>. QED BY <4>2, <4>3 DEF TypeOK
    <3>4. CASE \E R \in SUBSET Roles : person' = [person EXCEPT ![p].roles = R]
      <4>1. \A R \in SUBSET Roles : [person[p] EXCEPT !.roles = R] \in Person
        BY <3>1 DEF Person
      <4>. QED BY <3>4, <4>1 DEF TypeOK
    <3>. QED BY <2>1, <3>2, <3>3, <3>4 DEF ChangeUser
  <2>2. ASSUME NEW p \in People, ChangeEmployee(p)
        PROVE  person' \in [People -> Person]
    <3>1. person[p] \in Person
      BY DEF TypeOK
    <3>2. \A m \in People \cup {None} : [person[p] EXCEPT !.manager = m] \in Person
      BY <3>1 DEF Person
    <3>3. \A e \in {"ACTIVE", "INACTIVE"} : [person[p] EXCEPT !.employment = e] \in Person
      BY <3>1 DEF Person
    <3>. QED BY <2>2, <3>2, <3>3 DEF TypeOK, ChangeEmployee
  <2>3. ASSUME NEW p \in People, RemoveEmployee(p)
        PROVE  person' \in [People -> Person]
    <3>1. \A q \in People : /\ [person[q] EXCEPT !.employment = "DELETED"] \in Person
                            /\ [person[q] EXCEPT !.manager = None] \in Person
                            /\ person[q] \in Person
      BY DEF TypeOK, Person
    <3>. QED BY <2>3, <3>1 DEF RemoveEmployee
  <2>4. \/ person' = person
        \/ \E p \in People : ChangeUser(p) \/ ChangeEmployee(p) \/ RemoveEmployee(p)
    BY DEF Administers, Designate, UpdateType, CountPending, DeleteType
  <2>. QED BY <2>1, <2>2, <2>3, <2>4 DEF TypeOK
<1>4. designated' \in People \cup {None} /\ doomed' \subseteq Types
  BY DEF TypeOK, Administers, ChangeUser, ChangeEmployee, RemoveEmployee, Designate, UpdateType,
         CountPending, DeleteType
<1>5. type' \in [Types -> LeaveType]
  <2>1. ASSUME NEW t \in Types, UpdateType(t)
        PROVE  type' \in [Types -> LeaveType]
    <3>1. PICK a \in BOOLEAN, m \in BOOLEAN :
            type' = [type EXCEPT ![t].requiresApproval = a, ![t].managerCanApprove = m]
      BY <2>1 DEF UpdateType
    <3>2. [[type[t] EXCEPT !.requiresApproval = a] EXCEPT !.managerCanApprove = m] \in LeaveType
      BY DEF TypeOK, LeaveType
    <3>. QED BY <3>1, <3>2 DEF TypeOK
  <2>2. ASSUME NEW t \in Types, DeleteType(t)
        PROVE  type' \in [Types -> LeaveType]
    <3>1. [type[t] EXCEPT !.deleted = TRUE] \in LeaveType
      BY DEF TypeOK, LeaveType
    <3>. QED BY <2>2, <3>1 DEF TypeOK, DeleteType
  <2>3. type' = type \/ \E t \in Types : UpdateType(t) \/ DeleteType(t)
    BY DEF Administers, ChangeUser, ChangeEmployee, RemoveEmployee, Designate, CountPending
  <2>. QED BY <2>1, <2>2, <2>3 DEF TypeOK
<1>. QED BY <1>1, <1>2, <1>3, <1>4, <1>5 DEF TypeOK, Untouched

LEMMA LooksTyped ==
  ASSUME TypeOK, CallsCoherent, Looks
  PROVE  TypeOK' /\ CallsCoherent' /\ Untouched
<1>1. Untouched /\ UNCHANGED <<person, designated, type, doomed, changes>>
  BY DEF Looks, Review, Cancel, Fail, Untouched
<1>2. \/ \E c \in Calls : call' = [call EXCEPT ![c] = Idle]
      \/ \E c \in Calls, p \in People, r \in Requests, d \in Decisions :
           /\ request[r].status = "PENDING"
           /\ call' = [call EXCEPT ![c] = [actor |-> p, on |-> r, decision |-> d]]
  BY DEF Looks, Review, Cancel, Fail, Look, Finish, Decisions
<1>3. call' \in [Calls -> Call \cup {Idle}]
  BY <1>2 DEF TypeOK, Call
<1>4. CallsCoherent'
  <2>1. UNCHANGED request
    BY <1>1 DEF Untouched
  <2>2. ASSUME NEW c \in Calls, call' = [call EXCEPT ![c] = Idle]
        PROVE  CallsCoherent'
    BY <2>1, <2>2 DEF TypeOK, CallsCoherent
  <2>3. ASSUME NEW c \in Calls, NEW p \in People, NEW r \in Requests, NEW d \in Decisions,
               request[r].status = "PENDING",
               call' = [call EXCEPT ![c] = [actor |-> p, on |-> r, decision |-> d]]
        PROVE  CallsCoherent'
    <3>. DEFINE new == [actor |-> p, on |-> r, decision |-> d]
    <3>1. new \in Call /\ new.on = r
      BY DEF Call
    <3>. HIDE DEF new
    <3>2. call' = [call EXCEPT ![c] = new]
      BY <2>3 DEF new
    <3>. QED BY <2>1, <2>3, <3>1, <3>2 DEF TypeOK, CallsCoherent
  <2>. QED BY <1>2, <2>2, <2>3
<1>. QED BY <1>1, <1>3, <1>4 DEF TypeOK, Untouched

-----------------------------------------------------------------------------
(* Applying                                                                 *)

LEMMA ApproverTyped ==
  ASSUME TypeOK, NEW p \in People, NEW t \in Types
  PROVE  Approver(p, t) \in (People \cup {None}) \ {p}
<1>1. None \notin People
  BY LeaveAssumption
<1>. QED BY <1>1 DEF Approver, CanManage, CanStandIn

\* What is appended to a sequence of one element comes second.
LEMMA AppendedToOne ==
  ASSUME NEW S, NEW s \in Seq(S), NEW e \in S, Len(s) = 1
  PROVE  Append(s, e) = <<s[1], e>>
<1>. DEFINE t == Append(s, e)
<1>1. t \in Seq(S) /\ Len(t) = 2 /\ t[1] = s[1]
  <2>1. t \in Seq(S)
    OBVIOUS
  <2>2. Len(t) = 2
    OBVIOUS
  <2>3. t[1] = s[1]
    OBVIOUS
  <2>. QED BY <2>1, <2>2, <2>3
<1>2. t[Len(s) + 1] = e
  BY AppendProperties
<1>. HIDE DEF t
<1>3. t = <<t[1], t[2]>>
  BY <1>1
<1>. QED BY <1>1, <1>2, <1>3 DEF t

\* A history that has not begun begins with the submission, and one that has
\* only begun ends with the decision.
LEMMA Appended ==
  /\ Append(<<>>, "SUBMITTED") = <<"SUBMITTED">>
  /\ \A d \in Decisions : Append(<<"SUBMITTED">>, d) = <<"SUBMITTED", d>>
<1>1. Append(<<>>, "SUBMITTED") = <<"SUBMITTED">>
  OBVIOUS
<1>2. ASSUME NEW d \in Decisions
      PROVE  Append(<<"SUBMITTED">>, d) = <<"SUBMITTED", d>>
  <2>. DEFINE S == {"SUBMITTED"} \cup Decisions
              s == <<"SUBMITTED">>
  <2>1. s \in Seq(S) /\ Len(s) = 1 /\ s[1] = "SUBMITTED" /\ d \in S
    OBVIOUS
  <2>. HIDE DEF s, S
  <2>2. Append(s, d) = <<s[1], d>>
    BY <2>1, AppendedToOne
  <2>3. Append(s, d) = <<"SUBMITTED", d>>
    BY <2>1, <2>2
  <2>. QED BY <2>3 DEF s
<1>. QED BY <1>1, <1>2

\* What Apply makes of the requests, with the new row named.
LEMMA Applied ==
  ASSUME TypeOK, NEW r \in Requests, NEW p \in People, NEW t \in Types,
         NEW first \in Days, NEW last \in Days, Apply(r, p, t, first, last)
  PROVE  \E row \in LeaveRequest :
           /\ request' = [request EXCEPT ![r] = row]
           /\ row.status \in {"APPROVED", "PENDING"}
           /\ row.by = p /\ row.type = t /\ row.first = first /\ row.last = last
           /\ row.assigned # p
<1>. DEFINE automatic == ~ type[t].requiresApproval
            approver == IF automatic THEN None ELSE Approver(p, t)
            status == IF automatic THEN "APPROVED" ELSE "PENDING"
            row == [status |-> status, by |-> p, type |-> t,
                    first |-> first, last |-> last, assigned |-> approver]
<1>1. approver \in (People \cup {None}) \ {p}
  BY ApproverTyped, LeaveAssumption
<1>2. status \in {"APPROVED", "PENDING"}
  OBVIOUS
<1>3. request' = [request EXCEPT ![r] = row]
  BY DEF Apply
<1>. HIDE DEF approver, status
<1>4. row \in LeaveRequest
  BY <1>1, <1>2 DEF LeaveRequest, Decisions
<1>5. /\ row.status = status /\ row.by = p /\ row.type = t
      /\ row.first = first /\ row.last = last /\ row.assigned = approver
  OBVIOUS
<1>. HIDE DEF row
<1>. QED BY <1>1, <1>2, <1>3, <1>4, <1>5

LEMMA ApplyKeeps ==
  ASSUME IInv, NEW r \in Requests, NEW p \in People, NEW t \in Types,
         NEW first \in Days, NEW last \in Days, Apply(r, p, t, first, last)
  PROVE  IInv'
<1>. PICK row \in LeaveRequest :
       /\ request' = [request EXCEPT ![r] = row]
       /\ row.status \in {"APPROVED", "PENDING"}
       /\ row.by = p /\ row.type = t /\ row.first = first /\ row.last = last
       /\ row.assigned # p
  BY Applied DEF IInv
<1>1. /\ request[r].status = "ABSENT"
      /\ \A q \in Requests : Live(q) /\ request[q].by = p => ~ Overlap(q, first, last)
      /\ history' = [history EXCEPT ![r] = Append(@, "SUBMITTED")]
      /\ UNCHANGED <<person, designated, type, doomed, used, call, changes>>
  BY DEF Apply
<1>2. history[r] = <<>>
  BY <1>1 DEF IInv, OneDecision
<1>3. history' = [history EXCEPT ![r] = <<"SUBMITTED">>]
  BY <1>1, <1>2, Appended
<1>4. \A q \in Requests : q # r => request'[q] = request[q] /\ history'[q] = history[q]
  BY <1>1 DEF IInv, TypeOK
<1>5. request'[r] = row /\ history'[r] = <<"SUBMITTED">>
  BY <1>3 DEF IInv, TypeOK
<1>6. TypeOK'
  BY <1>1, <1>3 DEF IInv, TypeOK
<1>7. RequestsCoherent'
  BY <1>4, <1>5 DEF IInv, RequestsCoherent
<1>8. CallsCoherent'
  BY <1>1, <1>4, <1>5 DEF IInv, CallsCoherent
<1>9. NoOverlap'
  <2>1. ASSUME NEW q \in Requests, q # r, Live(q)', request'[q].by = p, NEW d \in Days,
               request'[q].first <= d, d <= request'[q].last, first <= d, d <= last
        PROVE  FALSE
    <3>1. Live(q) /\ request[q].by = p /\ ~ Overlap(q, first, last)
      BY <1>1, <1>4, <2>1 DEF Live
    <3>2. request[q].first \in Days /\ request[q].last \in Days
      BY <3>1 DEF Live, IInv, RequestsCoherent
    <3>. QED BY <1>4, <2>1, <3>1, <3>2, LeaveAssumption DEF Overlap
  <2>. QED BY <1>4, <1>5, <2>1 DEF IInv, NoOverlap, Live
<1>10. OneDecision'
  BY <1>4, <1>5 DEF IInv, OneDecision
<1>11. IsFiniteSet(Rows(request))'
  <2>1. Rows(request') \subseteq Rows(request) \cup {r}
    BY <1>4 DEF Rows
  <2>. QED BY <2>1, FS_AddElement, FS_Subset DEF IInv
<1>. QED BY <1>6, <1>7, <1>8, <1>9, <1>10, <1>11 DEF IInv

-----------------------------------------------------------------------------
(* Deciding                                                                 *)

LEMMA ChargeTyped ==
  ASSUME IInv, NEW r \in Requests, request[r].status # "ABSENT", Charge(r)
  PROVE  used' \in [People -> [Types -> [Years -> Int]]]
<1>. DEFINE p == request[r].by
            t == request[r].type
            y == YearOf[request[r].first]
            days == used[p][t][y] + request[r].last - request[r].first + 1
<1>1. p \in People /\ t \in Types /\ y \in Years /\ days \in Int
  <2>1. /\ p \in People /\ t \in Types
        /\ request[r].first \in Days /\ request[r].last \in Days
    BY DEF IInv, RequestsCoherent
  <2>2. y \in Years
    BY <2>1 DEF Years
  <2>3. request[r].first \in Int /\ request[r].last \in Int
    BY <2>1, LeaveAssumption
  <2>4. used[p][t][y] \in Int
    BY <2>1, <2>2 DEF IInv, TypeOK
  <2>. QED BY <2>1, <2>2, <2>3, <2>4
<1>2. used' = [used EXCEPT ![p] = [used[p] EXCEPT ![t] = [used[p][t] EXCEPT ![y] = days]]]
  BY DEF Charge
<1>. HIDE DEF p, t, y, days
<1>3. [used[p][t] EXCEPT ![y] = days] \in [Years -> Int]
  BY <1>1 DEF IInv, TypeOK
<1>4. [used[p] EXCEPT ![t] = [used[p][t] EXCEPT ![y] = days]] \in [Types -> [Years -> Int]]
  BY <1>1, <1>3 DEF IInv, TypeOK
<1>. QED BY <1>1, <1>2, <1>4 DEF IInv, TypeOK

LEMMA DecideKeeps ==
  ASSUME IInv, NEW c \in Calls, Decide(c)
  PROVE  IInv'
<1>. DEFINE r == call[c].on
            decision == call[c].decision
<1>1. /\ call[c] # Idle /\ call' = [call EXCEPT ![c] = Idle]
      /\ UNCHANGED <<person, designated, type, doomed, changes>>
  BY DEF Decide, Finish
<1>2. r \in Requests /\ decision \in Decisions
  BY <1>1 DEF IInv, CallsCoherent, Call
<1>3. CASE ~ MayDecide(c, r)
  <2>1. UNCHANGED <<request, used, history>>
    BY <1>3 DEF Decide
  <2>2. TypeOK'
    BY <1>1, <2>1 DEF IInv, TypeOK
  <2>3. CallsCoherent'
    BY <1>1, <2>1 DEF IInv, TypeOK, CallsCoherent
  <2>. QED BY <2>1, <2>2, <2>3 DEF IInv, RequestsCoherent, NoOverlap, OneDecision, Live
<1>4. CASE MayDecide(c, r)
  <2>1. /\ request' = [request EXCEPT ![r].status = decision]
        /\ history' = [history EXCEPT ![r] = Append(@, decision)]
        /\ Charge(r) \/ UNCHANGED used
        /\ request[r].status = "PENDING"
    BY <1>4 DEF Decide, MayDecide
  <2>2. history[r] = <<"SUBMITTED">>
    BY <1>2, <2>1 DEF IInv, OneDecision
  <2>3. history' = [history EXCEPT ![r] = <<"SUBMITTED", decision>>]
    BY <1>2, <2>1, <2>2, Appended
  <2>. HIDE DEF r, decision
  <2>4. \A q \in Requests : q # r => request'[q] = request[q] /\ history'[q] = history[q]
    BY <2>1 DEF IInv, TypeOK
  <2>5. /\ request'[r] \in LeaveRequest /\ request'[r].status = decision
        /\ request'[r].by = request[r].by /\ request'[r].type = request[r].type
        /\ request'[r].first = request[r].first /\ request'[r].last = request[r].last
        /\ request'[r].assigned = request[r].assigned
    BY <1>2, <2>1 DEF IInv, TypeOK, LeaveRequest
  <2>6. history'[r] = <<"SUBMITTED", decision>>
    BY <1>2, <2>3 DEF IInv, TypeOK
  <2>7. TypeOK'
    <3>1. request' \in [Requests -> LeaveRequest]
      BY <1>2, <2>1, <2>5 DEF IInv, TypeOK
    <3>2. used' \in [People -> [Types -> [Years -> Int]]]
      BY <1>2, <2>1, ChargeTyped DEF IInv, TypeOK
    <3>3. history' \in [Requests -> Seq({"SUBMITTED"} \cup Decisions)]
      BY <1>2, <2>3 DEF IInv, TypeOK
    <3>. QED BY <1>1, <3>1, <3>2, <3>3 DEF IInv, TypeOK
  <2>8. RequestsCoherent'
    BY <1>2, <2>1, <2>4, <2>5 DEF IInv, RequestsCoherent
  <2>9. CallsCoherent'
    <3>1. \A q \in Requests : request[q].status # "ABSENT" => request'[q].status # "ABSENT"
      BY <1>2, <2>4, <2>5 DEF Decisions
    <3>2. \A b \in Calls : call'[b] # Idle => call'[b] = call[b]
      BY <1>1 DEF IInv, TypeOK
    <3>. QED BY <3>1, <3>2 DEF IInv, CallsCoherent, Call
  <2>10. NoOverlap'
    <3>1. \A q \in Requests : Live(q)' => Live(q)
      BY <2>1, <2>4 DEF Live
    <3>2. \A q \in Requests : /\ request'[q].by = request[q].by
                              /\ request'[q].first = request[q].first
                              /\ request'[q].last = request[q].last
      BY <2>4, <2>5
    <3>. QED BY <3>1, <3>2 DEF IInv, NoOverlap
  <2>11. OneDecision'
    BY <1>2, <2>4, <2>5, <2>6 DEF IInv, OneDecision, Decisions
  <2>12. IsFiniteSet(Rows(request))'
    <3>1. Rows(request') \subseteq Rows(request)
      BY <2>1, <2>4 DEF Rows
    <3>. QED BY <3>1, FS_Subset DEF IInv
  <2>. QED BY <2>7, <2>8, <2>9, <2>10, <2>11, <2>12 DEF IInv
<1>. QED BY <1>3, <1>4

-----------------------------------------------------------------------------
(* Adding up                                                                *)

\* g adds up f over each set of elements of S.
AddsUp(g, f, S) ==
  /\ g \in [SUBSET S -> Int]
  /\ g[{}] = 0
  /\ \A s \in SUBSET S : \A x \in s : g[s] = f[x] + g[s \ {x}]

\* Of the subsets of a finite set that are in T, one has no part in T.
LEMMA SmallestOf ==
  ASSUME NEW S, IsFiniteSet(S), NEW T \in SUBSET SUBSET S, T # {}
  PROVE  \E s \in T : \A x \in s : s \ {x} \notin T
<1>. DEFINE R == StrictSubsetOrdering(S)
            F == FiniteSubsetsOf(S)
<1>1. IsWellFoundedOn(R, F)
  BY FS_StrictSubsetOrderingWellFounded
<1>2. T \subseteq F
  BY FS_Subset DEF FiniteSubsetsOf
<1>3. \A s \in T : \A x \in s : <<s \ {x}, s>> \in R
  BY Zenon DEF StrictSubsetOrdering
<1>. HIDE DEF R, F
<1>4. PICK s \in T : \A t \in T : ~ (<<t, s>> \in R)
  BY <1>1, <1>2, WFMin
<1>. QED BY <1>3, <1>4, Zenon

LEMMA SumExists ==
  ASSUME NEW S, IsFiniteSet(S), NEW f \in [S -> Int]
  PROVE  \E g : AddsUp(g, f, S)
<1>. DEFINE T == {s \in SUBSET S : ~ \E g : AddsUp(g, f, s)}
<1>. SUFFICES ASSUME T # {} PROVE FALSE
  OBVIOUS
<1>1. PICK s \in T : \A x \in s : s \ {x} \notin T
  BY SmallestOf
<1>2. s # {}
  <2>1. AddsUp([u \in SUBSET {} |-> 0], f, {})
    BY DEF AddsUp
  <2>. QED BY <1>1, <2>1
<1>3. PICK x \in s : TRUE
  BY <1>2
<1>4. PICK g : AddsUp(g, f, s \ {x})
  BY <1>1
<1>. DEFINE h == [u \in SUBSET s |-> IF x \in u THEN f[x] + g[u \ {x}] ELSE g[u]]
<1>5. f[x] \in Int
  OBVIOUS
<1>6. \A u \in SUBSET s : u \ {x} \in SUBSET (s \ {x}) /\ (x \notin u => u \in SUBSET (s \ {x}))
  OBVIOUS
<1>7. h \in [SUBSET s -> Int]
  BY <1>4, <1>5, <1>6 DEF AddsUp
<1>8. h[{}] = 0
  BY <1>4 DEF AddsUp
<1>9. ASSUME NEW u \in SUBSET s, NEW y \in u
      PROVE  h[u] = f[y] + h[u \ {y}]
  <2>1. f[y] \in Int /\ \A v \in SUBSET (s \ {x}) : g[v] \in Int
    BY <1>4 DEF AddsUp
  <2>2. CASE x \notin u
    <3>1. h[u] = g[u] /\ h[u \ {y}] = g[u \ {y}]
      BY <2>2
    <3>. QED BY <1>4, <1>6, <2>2, <3>1 DEF AddsUp
  <2>3. CASE x = y
    <3>1. h[u] = f[x] + g[u \ {x}] /\ h[u \ {x}] = g[u \ {x}]
      BY <2>3
    <3>. QED BY <2>3, <3>1
  <2>4. CASE x \in u /\ x # y
    <3>1. h[u] = f[x] + g[u \ {x}] /\ h[u \ {y}] = f[x] + g[(u \ {y}) \ {x}]
      BY <2>4
    <3>2. y \in u \ {x} /\ (u \ {x}) \ {y} = (u \ {y}) \ {x}
      BY <2>4
    <3>3. g[u \ {x}] = f[y] + g[(u \ {x}) \ {y}]
      BY <1>4, <1>6, <3>2 DEF AddsUp
    <3>4. g[(u \ {y}) \ {x}] \in Int
      BY <1>6, <2>1
    <3>5. g[u \ {x}] = f[y] + g[(u \ {y}) \ {x}]
      BY <3>2, <3>3
    <3>6. h[u] = f[x] + (f[y] + g[(u \ {y}) \ {x}])
      BY <3>1, <3>5
    <3>. HIDE DEF h
    <3>. QED BY <1>5, <2>1, <3>1, <3>4, <3>6
  <2>. QED BY <2>2, <2>3, <2>4
<1>10. AddsUp(h, f, s)
  BY <1>7, <1>8, <1>9 DEF AddsUp
<1>. QED BY <1>1, <1>10

\* Sums of what agrees agree.
LEMMA SameSum ==
  ASSUME NEW S, IsFiniteSet(S), NEW f, NEW e, NEW A, NEW B, NEW g, NEW h,
         AddsUp(g, f, A), AddsUp(h, e, B), S \subseteq A, S \subseteq B,
         \A x \in S : f[x] = e[x]
  PROVE  g[S] = h[S]
<1>. DEFINE T == {s \in SUBSET S : g[s] # h[s]}
<1>. SUFFICES ASSUME T # {} PROVE FALSE
  OBVIOUS
<1>1. PICK s \in T : \A x \in s : s \ {x} \notin T
  BY SmallestOf
<1>2. s # {}
  BY <1>1 DEF AddsUp
<1>3. PICK x \in s : TRUE
  BY <1>2
<1>4. g[s] = f[x] + g[s \ {x}] /\ h[s] = e[x] + h[s \ {x}]
  BY <1>1, <1>3 DEF AddsUp
<1>5. g[s \ {x}] = h[s \ {x}]
  BY <1>1, <1>3
<1>. QED BY <1>1, <1>4, <1>5

-----------------------------------------------------------------------------
(* The days of some requests                                                *)

Dated(q, S) == \A r \in S : q[r].first \in Int /\ q[r].last \in Int
Length(q, S) == [r \in S |-> q[r].last - q[r].first + 1]

\* DaysOf adds up the requests in an order of its own choosing, which is no
\* matter.
LEMMA DaysAddUp ==
  ASSUME NEW q, NEW S, IsFiniteSet(S), Dated(q, S), NEW g, AddsUp(g, Length(q, S), S)
  PROVE  DaysOf(q, S) = g[S]
<1>. DEFINE F(h) == [s \in SUBSET S |->
              IF s = {} THEN 0
              ELSE LET x == CHOOSE x \in s : TRUE IN
                   q[x].last - q[x].first + 1 + h[s \ {x}]]
            iter == CHOOSE h : h = F(h)
<1>1. DaysOf(q, S) = iter[S]
  BY DEF DaysOf, MapThenSumSet, MapThenFoldSet
<1>2. g = F(g)
  <2>1. g = [s \in SUBSET S |-> g[s]]
    BY DEF AddsUp
  <2>2. ASSUME NEW s \in SUBSET S
        PROVE  g[s] = F(g)[s]
    <3>1. CASE s = {}
      BY <3>1 DEF AddsUp
    <3>2. CASE s # {}
      <4>1. PICK x : x = CHOOSE y \in s : TRUE
        OBVIOUS
      <4>2. x \in s
        BY <3>2, <4>1
      <4>3. g[s] = q[x].last - q[x].first + 1 + g[s \ {x}]
        BY <4>2 DEF AddsUp, Length
      <4>. QED BY <3>2, <4>1, <4>3
    <3>. QED BY <3>1, <3>2
  <2>. QED BY <2>1, <2>2, Zenon
<1>3. iter = F(iter)
  BY <1>2, Zenon
<1>. HIDE DEF iter
<1>. DEFINE T == {s \in SUBSET S : iter[s] # g[s]}
<1>. SUFFICES ASSUME T # {} PROVE FALSE
  BY <1>1
<1>4. PICK s \in T : \A x \in s : s \ {x} \notin T
  BY SmallestOf
<1>5. iter[s] = F(iter)[s]
  BY <1>3
<1>6. s # {}
  BY <1>4, <1>5 DEF AddsUp
<1>7. PICK x : x = CHOOSE y \in s : TRUE
  OBVIOUS
<1>8. x \in s
  BY <1>6, <1>7
<1>9. iter[s] = q[x].last - q[x].first + 1 + iter[s \ {x}]
  BY <1>5, <1>6, <1>7
<1>10. g[s] = q[x].last - q[x].first + 1 + g[s \ {x}]
  BY <1>8 DEF AddsUp, Length
<1>11. iter[s \ {x}] = g[s \ {x}]
  BY <1>4, <1>8
<1>. QED BY <1>4, <1>9, <1>10, <1>11

LEMMA DaysOfNone ==
  ASSUME NEW q
  PROVE  DaysOf(q, {}) = 0
<1>1. IsFiniteSet({}) /\ Dated(q, {}) /\ Length(q, {}) \in [{} -> Int]
  BY FS_EmptySet DEF Dated, Length
<1>2. PICK g : AddsUp(g, Length(q, {}), {})
  BY <1>1, SumExists
<1>3. DaysOf(q, {}) = g[{}]
  BY <1>1, <1>2, DaysAddUp
<1>. QED BY <1>2, <1>3 DEF AddsUp

LEMMA SameDays ==
  ASSUME NEW q, NEW r, NEW S, IsFiniteSet(S), Dated(q, S),
         \A x \in S : q[x].first = r[x].first /\ q[x].last = r[x].last
  PROVE  DaysOf(q, S) = DaysOf(r, S)
<1>1. Dated(r, S)
  BY DEF Dated
<1>2. Length(q, S) \in [S -> Int] /\ Length(r, S) = Length(q, S)
  BY DEF Length, Dated
<1>3. PICK g : AddsUp(g, Length(q, S), S)
  BY <1>2, SumExists
<1>. QED BY <1>1, <1>2, <1>3, DaysAddUp

LEMMA DaysOfOneMore ==
  ASSUME NEW q, NEW S, IsFiniteSet(S), NEW x, x \notin S, Dated(q, S \cup {x})
  PROVE  DaysOf(q, S \cup {x}) = DaysOf(q, S) + q[x].last - q[x].first + 1
<1>. DEFINE A == S \cup {x}
<1>1. IsFiniteSet(A) /\ Dated(q, S)
  BY FS_AddElement DEF Dated
<1>2. Length(q, A) \in [A -> Int] /\ Length(q, S) \in [S -> Int]
  BY <1>1 DEF Length, Dated
<1>3. PICK g : AddsUp(g, Length(q, A), A)
  BY <1>1, <1>2, SumExists
<1>4. PICK h : AddsUp(h, Length(q, S), S)
  BY <1>1, <1>2, SumExists
<1>5. DaysOf(q, A) = g[A] /\ DaysOf(q, S) = h[S]
  BY <1>1, <1>3, <1>4, DaysAddUp
<1>6. g[A] = q[x].last - q[x].first + 1 + g[S]
  <2>1. A \in SUBSET A /\ x \in A /\ A \ {x} = S
    OBVIOUS
  <2>2. Length(q, A)[x] = q[x].last - q[x].first + 1
    BY DEF Length
  <2>. HIDE DEF A
  <2>. QED BY <1>3, <2>1, <2>2 DEF AddsUp
<1>7. g[S] = h[S]
  <2>1. \A y \in S : Length(q, A)[y] = Length(q, S)[y]
    BY DEF Length
  <2>2. S \subseteq A /\ S \subseteq S
    OBVIOUS
  <2>. HIDE DEF A
  <2>. QED BY <1>3, <1>4, <2>1, <2>2, SameSum
<1>8. h[S] \in Int /\ q[x].last \in Int /\ q[x].first \in Int
  BY <1>4 DEF AddsUp, Dated
<1>. QED BY <1>5, <1>6, <1>7, <1>8
-----------------------------------------------------------------------------
(* The balances                                                             *)

\* BalanceMatches, of the balances u, the rows q and the histories h.
Approved(s) == "APPROVED" \in {s[i] : i \in DOMAIN s}
Charged(q, h, p, t, y) ==
  {r \in Requests : q[r].by = p /\ q[r].type = t /\ Approved(h[r]) /\ YearOf[q[r].first] = y}
Balanced(u, q, h) ==
  \A p \in People, t \in Types, y \in Years : u[p][t][y] = DaysOf(q, Charged(q, h, p, t, y))

LEMMA BalancedIs ==
  /\ BalanceMatches <=> Balanced(used, request, history)
  /\ BalanceMatches' <=> Balanced(used', request', history')
<1>1. BalanceMatches <=> Balanced(used, request, history)
  BY DEF BalanceMatches, Balanced, Charged, Approved
<1>2. BalanceMatches' <=> Balanced(used', request', history')
  BY DEF BalanceMatches, Balanced, Charged, Approved
<1>. QED BY <1>1, <1>2

\* Of the histories there are, one has an approval.
LEMMA ApprovedIs ==
  /\ ~ Approved(<<>>) /\ ~ Approved(<<"SUBMITTED">>)
  /\ \A d \in Decisions : Approved(<<"SUBMITTED", d>>) <=> d = "APPROVED"
<1>1. ~ Approved(<<>>)
  BY DEF Approved
<1>2. ~ Approved(<<"SUBMITTED">>)
  BY DEF Approved
<1>3. ASSUME NEW d \in Decisions
      PROVE  Approved(<<"SUBMITTED", d>>) <=> d = "APPROVED"
  <2>. DEFINE s == <<"SUBMITTED", d>>
  <2>1. DOMAIN s = {1, 2} /\ s[1] = "SUBMITTED" /\ s[2] = d
    OBVIOUS
  <2>. HIDE DEF s
  <2>2. {s[i] : i \in DOMAIN s} = {"SUBMITTED", d}
    BY <2>1
  <2>3. Approved(s) <=> "APPROVED" \in {"SUBMITTED", d}
    BY <2>2 DEF Approved
  <2>. QED BY <2>3 DEF s
<1>. QED BY <1>1, <1>2, <1>3

\* As long as the approved requests and their rows stay, so do their sums.
LEMMA BalancedStays ==
  ASSUME NEW u, NEW q, NEW h, NEW r, NEW k, Balanced(u, q, h),
         NEW S, IsFiniteSet(S), Dated(q, S),
         \A x \in Requests : Approved(k[x]) <=> Approved(h[x]),
         \A x \in Requests : Approved(h[x]) =>
           /\ x \in S
           /\ r[x].by = q[x].by /\ r[x].type = q[x].type
           /\ r[x].first = q[x].first /\ r[x].last = q[x].last
  PROVE  Balanced(u, r, k)
<1>1. ASSUME NEW p \in People, NEW t \in Types, NEW y \in Years
      PROVE  u[p][t][y] = DaysOf(r, Charged(r, k, p, t, y))
  <2>. DEFINE C == Charged(q, h, p, t, y)
  <2>1. Charged(r, k, p, t, y) = C
    BY DEF Charged
  <2>2. /\ C \subseteq S
        /\ \A x \in C : q[x].first = r[x].first /\ q[x].last = r[x].last
    BY DEF Charged
  <2>3. u[p][t][y] = DaysOf(q, C)
    BY DEF Balanced
  <2>. HIDE DEF C
  <2>4. IsFiniteSet(C) /\ Dated(q, C)
    BY <2>2, FS_Subset DEF Dated
  <2>. QED BY <2>1, <2>2, <2>3, <2>4, SameDays
<1>. QED BY <1>1 DEF Balanced

\* A request that is approved is charged to its own balance, once.
LEMMA BalancedCharge ==
  ASSUME NEW u, NEW q, NEW h, NEW v, NEW k, Balanced(u, q, h),
         NEW S, IsFiniteSet(S), Dated(q, S), \A x \in Requests : Approved(h[x]) => x \in S,
         NEW a \in Requests, a \in S, ~ Approved(h[a]),
         \A x \in Requests : Approved(k[x]) <=> Approved(h[x]) \/ x = a,
         \A p \in People, t \in Types, y \in Years :
           v[p][t][y] = IF p = q[a].by /\ t = q[a].type /\ y = YearOf[q[a].first]
                          THEN u[p][t][y] + q[a].last - q[a].first + 1
                          ELSE u[p][t][y]
  PROVE  Balanced(v, q, k)
<1>1. ASSUME NEW p \in People, NEW t \in Types, NEW y \in Years
      PROVE  v[p][t][y] = DaysOf(q, Charged(q, k, p, t, y))
  <2>. DEFINE C == Charged(q, h, p, t, y)
              own == p = q[a].by /\ t = q[a].type /\ y = YearOf[q[a].first]
  <2>1. u[p][t][y] = DaysOf(q, C)
    BY DEF Balanced
  <2>2. C \subseteq S /\ a \notin C
    BY DEF Charged
  <2>3. CASE ~ own
    <3>1. Charged(q, k, p, t, y) = C
      BY <2>3 DEF Charged
    <3>. QED BY <2>1, <2>3, <3>1
  <2>4. CASE own
    <3>1. Charged(q, k, p, t, y) = C \cup {a}
      BY <2>4 DEF Charged
    <3>2. v[p][t][y] = u[p][t][y] + q[a].last - q[a].first + 1
      BY <2>4
    <3>. HIDE DEF C
    <3>3. IsFiniteSet(C) /\ Dated(q, C \cup {a})
      BY <2>2, FS_Subset DEF Dated
    <3>4. DaysOf(q, C \cup {a}) = DaysOf(q, C) + q[a].last - q[a].first + 1
      BY <2>2, <3>3, DaysOfOneMore
    <3>. QED BY <2>1, <3>1, <3>2, <3>4
  <2>. QED BY <2>3, <2>4
<1>. QED BY <1>1 DEF Balanced

LEMMA ApprovedRows ==
  ASSUME IInv
  PROVE  /\ IsFiniteSet(Rows(request)) /\ Dated(request, Rows(request))
         /\ \A r \in Requests : Approved(history[r]) => r \in Rows(request)
<1>1. Dated(request, Rows(request))
  BY LeaveAssumption DEF IInv, RequestsCoherent, Rows, Dated
<1>2. ASSUME NEW r \in Requests, Approved(history[r])
      PROVE  r \in Rows(request)
  <2>1. request[r].status = "ABSENT" => history[r] = <<>>
    BY DEF IInv, OneDecision
  <2>. QED BY <1>2, <2>1, ApprovedIs DEF Rows
<1>. QED BY <1>1, <1>2 DEF IInv

LEMMA ApplyBalances ==
  ASSUME IInv, BalanceMatches, NEW r \in Requests, NEW p \in People, NEW t \in Types,
         NEW first \in Days, NEW last \in Days, Apply(r, p, t, first, last)
  PROVE  BalanceMatches'
<1>1. /\ request[r].status = "ABSENT"
      /\ history' = [history EXCEPT ![r] = Append(@, "SUBMITTED")]
      /\ UNCHANGED used
  BY DEF Apply
<1>2. history[r] = <<>>
  BY <1>1 DEF IInv, OneDecision
<1>3. history'[r] = <<"SUBMITTED">>
  BY <1>1, <1>2, Appended DEF IInv, TypeOK
<1>4. PICK row \in LeaveRequest : request' = [request EXCEPT ![r] = row]
  BY Applied DEF IInv
<1>5. \A q \in Requests : q # r => request'[q] = request[q] /\ history'[q] = history[q]
  BY <1>1, <1>4 DEF IInv, TypeOK
<1>6. ~ Approved(history[r]) /\ ~ Approved(history'[r])
  BY <1>2, <1>3, ApprovedIs
<1>7. PICK q, h, u : q = request' /\ h = history' /\ u = used'
  OBVIOUS
<1>8. \A x \in Requests : Approved(h[x]) <=> Approved(history[x])
  BY <1>5, <1>6, <1>7
<1>9. \A x \in Requests : Approved(history[x]) => x \in Rows(request) /\ q[x] = request[x]
  BY <1>5, <1>6, <1>7, ApprovedRows
<1>10. Balanced(u, q, h)
  <2>1. Balanced(u, request, history)
    BY <1>1, <1>7, BalancedIs
  <2>2. IsFiniteSet(Rows(request)) /\ Dated(request, Rows(request))
    BY ApprovedRows
  <2>3. \A x \in Requests : Approved(history[x]) =>
          /\ x \in Rows(request)
          /\ q[x].by = request[x].by /\ q[x].type = request[x].type
          /\ q[x].first = request[x].first /\ q[x].last = request[x].last
    BY <1>9
  <2>. QED BY <1>8, <2>1, <2>2, <2>3, BalancedStays
<1>. QED BY <1>7, <1>10, BalancedIs

LEMMA ChargeIs ==
  ASSUME IInv, NEW r \in Requests, request[r].status # "ABSENT", Charge(r)
  PROVE  \A p \in People, t \in Types, y \in Years :
           used'[p][t][y] =
             IF p = request[r].by /\ t = request[r].type /\ y = YearOf[request[r].first]
               THEN used[p][t][y] + request[r].last - request[r].first + 1
               ELSE used[p][t][y]
<1>. DEFINE p == request[r].by
            t == request[r].type
            y == YearOf[request[r].first]
            days == used[p][t][y] + request[r].last - request[r].first + 1
<1>1. p \in People /\ t \in Types /\ y \in Years
  BY DEF IInv, RequestsCoherent, Years
<1>2. used' = [used EXCEPT ![p] = [used[p] EXCEPT ![t] = [used[p][t] EXCEPT ![y] = days]]]
  BY DEF Charge
<1>3. ASSUME NEW a \in People, NEW b \in Types, NEW c \in Years
      PROVE  used'[a][b][c] = IF a = p /\ b = t /\ c = y THEN days ELSE used[a][b][c]
  <2>. HIDE DEF p, t, y, days
  <2>. QED BY <1>1, <1>2 DEF IInv, TypeOK
<1>. QED BY <1>3

LEMMA DecideBalances ==
  ASSUME IInv, BalanceMatches, NEW c \in Calls, Decide(c)
  PROVE  BalanceMatches'
<1>. DEFINE r == call[c].on
            decision == call[c].decision
<1>1. r \in Requests /\ decision \in Decisions
  BY DEF Decide, IInv, CallsCoherent, Call
<1>2. CASE ~ MayDecide(c, r)
  <2>1. UNCHANGED <<request, used, history>>
    BY <1>2 DEF Decide
  <2>. QED BY <2>1, BalancedIs
<1>3. CASE MayDecide(c, r)
  <2>1. /\ request' = [request EXCEPT ![r].status = decision]
        /\ history' = [history EXCEPT ![r] = Append(@, decision)]
        /\ IF decision = "APPROVED" THEN Charge(r) ELSE UNCHANGED used
        /\ request[r].status = "PENDING"
    BY <1>3 DEF Decide, MayDecide
  <2>. HIDE DEF r, decision
  <2>2. history[r] = <<"SUBMITTED">>
    BY <1>1, <2>1 DEF IInv, OneDecision
  <2>3. history'[r] = <<"SUBMITTED", decision>>
    BY <1>1, <2>1, <2>2, Appended DEF IInv, TypeOK
  <2>4. \A x \in Requests : x # r => request'[x] = request[x] /\ history'[x] = history[x]
    BY <2>1 DEF IInv, TypeOK
  <2>5. /\ request'[r].by = request[r].by /\ request'[r].type = request[r].type
        /\ request'[r].first = request[r].first /\ request'[r].last = request[r].last
    BY <1>1, <2>1 DEF IInv, TypeOK, LeaveRequest
  <2>6. ~ Approved(history[r]) /\ (Approved(history'[r]) <=> decision = "APPROVED")
    BY <1>1, <2>2, <2>3, ApprovedIs
  <2>7. PICK q, h, u : q = request' /\ h = history' /\ u = used'
    OBVIOUS
  <2>8. \A x \in Requests : /\ q[x].by = request[x].by /\ q[x].type = request[x].type
                            /\ q[x].first = request[x].first /\ q[x].last = request[x].last
    BY <2>4, <2>5, <2>7
  <2>9. \A x \in Requests : Approved(h[x]) <=>
          Approved(history[x]) \/ (x = r /\ decision = "APPROVED")
    BY <2>4, <2>6, <2>7
  <2>10. CASE decision # "APPROVED"
    <3>1. u = used /\ \A x \in Requests : Approved(h[x]) <=> Approved(history[x])
      BY <2>1, <2>7, <2>9, <2>10
    <3>2. Balanced(u, q, h)
      BY <2>8, <3>1, ApprovedRows, BalancedStays, BalancedIs
    <3>. QED BY <2>7, <3>2, BalancedIs
  <2>11. CASE decision = "APPROVED"
    <3>1. \A x \in Requests : Approved(h[x]) <=> Approved(history[x]) \/ x = r
      BY <2>9, <2>11
    <3>2. r \in Rows(request)
      BY <1>1, <2>1 DEF Rows
    <3>3. \A p \in People, t \in Types, y \in Years :
            u[p][t][y] =
              IF p = request[r].by /\ t = request[r].type /\ y = YearOf[request[r].first]
                THEN used[p][t][y] + request[r].last - request[r].first + 1
                ELSE used[p][t][y]
      BY <1>1, <2>1, <2>7, <2>11, ChargeIs
    <3>4. Balanced(u, request, h)
      BY <1>1, <2>6, <3>1, <3>2, <3>3, ApprovedRows, BalancedCharge, BalancedIs
    <3>5. /\ IsFiniteSet(Rows(request)) /\ Dated(request, Rows(request))
          /\ \A x \in Requests : Approved(h[x]) => x \in Rows(request)
      BY <3>1, <3>2, ApprovedRows
    <3>6. Balanced(u, q, h)
      BY <2>8, <3>4, <3>5, BalancedStays
    <3>. QED BY <2>7, <3>6, BalancedIs
  <2>. QED BY <2>10, <2>11
<1>. QED BY <1>2, <1>3

LEMMA InitBalances ==
  ASSUME Init
  PROVE  BalanceMatches
<1>1. \A r \in Requests : ~ Approved(history[r])
  BY ApprovedIs DEF Init
<1>2. ASSUME NEW p \in People, NEW t \in Types, NEW y \in Years
      PROVE  used[p][t][y] = DaysOf(request, Charged(request, history, p, t, y))
  <2>1. Charged(request, history, p, t, y) = {}
    BY <1>1 DEF Charged
  <2>2. used[p][t][y] = 0
    BY DEF Init
  <2>. QED BY <2>1, <2>2, DaysOfNone
<1>. QED BY <1>2, BalancedIs DEF Balanced

-----------------------------------------------------------------------------
(* The theorems                                                             *)

LEMMA InitHolds ==
  ASSUME Init
  PROVE  IInv
<1>1. None \notin People /\ 0 \in 0 .. MaxChanges
  BY LeaveAssumption
<1>2. \A r \in Requests : request[r] \in LegacyRequest \/ request[r] = NoRequest
  BY DEF Init
<1>3. NoRequest \in LeaveRequest /\ NoRequest.status = "ABSENT"
  BY DEF NoRequest, LeaveRequest
<1>4. \A q \in LegacyRequest :
        /\ q \in LeaveRequest /\ q.status = "PENDING" /\ q # NoRequest
        /\ q.by \in People /\ q.type \in Types /\ q.first \in Days /\ q.last \in Days
        /\ q.assigned = None
  BY <1>3 DEF LegacyRequest, LeaveRequest
<1>5. TypeOK
  <2>1. type \in [Types -> LeaveType]
    BY DEF Init, LeaveType
  <2>2. request \in [Requests -> LeaveRequest]
    BY <1>3, <1>4 DEF Init
  <2>3. history \in [Requests -> Seq({"SUBMITTED"} \cup Decisions)]
    <3>1. /\ <<>> \in Seq({"SUBMITTED"} \cup Decisions)
          /\ <<"SUBMITTED">> \in Seq({"SUBMITTED"} \cup Decisions)
      OBVIOUS
    <3>. QED BY <3>1, Zenon DEF Init
  <2>4. used \in [People -> [Types -> [Years -> Int]]]
    BY DEF Init
  <2>. QED BY <1>1, <2>1, <2>2, <2>3, <2>4, LeaveAssumption DEF Init, TypeOK
<1>6. RequestsCoherent
  BY <1>1, <1>2, <1>3, <1>4 DEF RequestsCoherent
<1>7. CallsCoherent
  BY DEF Init, CallsCoherent
<1>8. OneDecision
  <2>1. \A r \in Requests : history[r] = IF request[r] = NoRequest THEN <<>> ELSE <<"SUBMITTED">>
    BY DEF Init
  <2>. QED BY <1>2, <1>3, <1>4, <2>1 DEF OneDecision
<1>9. IsFiniteSet(Rows(request))
  <2>1. Rows(request) \subseteq Legacy
    BY <1>3 DEF Init, Rows
  <2>. QED BY <2>1, FS_Subset, LeaveAssumption
<1>. QED BY <1>5, <1>6, <1>7, <1>8, <1>9 DEF IInv, Init

LEMMA StepKeeps ==
  ASSUME IInv, [Next]_vars
  PROVE  IInv'
<1>1. ASSUME Untouched
      PROVE  RequestsCoherent' /\ NoOverlap' /\ OneDecision' /\ IsFiniteSet(Rows(request))'
  BY <1>1 DEF IInv, Untouched, RequestsCoherent, NoOverlap, OneDecision, Live, Rows
<1>2. CASE Looks
  BY <1>1, <1>2, LooksTyped DEF IInv
<1>3. CASE Administers
  <2>1. TypeOK' /\ UNCHANGED call /\ Untouched
    BY <1>3, AdministersTyped DEF IInv
  <2>2. CallsCoherent'
    BY <2>1 DEF IInv, CallsCoherent, Untouched
  <2>. QED BY <1>1, <2>1, <2>2 DEF IInv
<1>4. CASE UNCHANGED vars
  <2>1. TypeOK' /\ CallsCoherent' /\ Untouched
    BY <1>4 DEF vars, IInv, TypeOK, CallsCoherent, Untouched
  <2>. QED BY <1>1, <2>1 DEF IInv
<1>. QED BY <1>2, <1>3, <1>4, StepsAre, ApplyKeeps, DecideKeeps

LEMMA Invariance == Spec => []IInv
<1>1. Init => IInv
  BY InitHolds
<1>2. IInv /\ [Next]_vars => IInv'
  BY StepKeeps
<1>. QED BY <1>1, <1>2, PTL DEF Spec

\* Every variable keeps its type; in particular only days of a balance that
\* exists are ever charged.
THEOREM TypeCorrect == Spec => []TypeOK
BY Invariance, PTL DEF IInv

\* However requests, reviews and cancellations interleave, no employee has two
\* live requests that share a day.
THEOREM NoOverlapHolds == Spec => []NoOverlap
BY Invariance, PTL DEF IInv

\* However many reviews and cancellations look at a request while it is
\* PENDING, one of them decides it, and its history says which.
THEOREM DecidedOnce == Spec => []OneDecision
BY Invariance, PTL DEF IInv

\* An assigned request is approved or rejected by its approver alone, whose
\* authority is looked at when it is decided.
THEOREM AuthorityHolds == Spec => DecidedByAuthority
<1>. DEFINE ByAuthority ==
       \A r \in Requests :
         /\ Assigned(r) /\ request[r].status = "PENDING"
         /\ request'[r].status \in {"APPROVED", "REJECTED"}
         => LET p == request[r].assigned IN
            /\ p # request[r].by /\ person[p].active /\ person[p].roles # {}
            /\ \E c \in Calls : call[c].on = r /\ call[c].actor = p
<1>1. ASSUME IInv, [Next]_vars PROVE [ByAuthority]_vars
  <2>. SUFFICES ASSUME NEW r \in Requests, Assigned(r), request[r].status = "PENDING",
                       request'[r].status \in {"APPROVED", "REJECTED"}
                PROVE  LET p == request[r].assigned IN
                       /\ p # request[r].by /\ person[p].active /\ person[p].roles # {}
                       /\ \E c \in Calls : call[c].on = r /\ call[c].actor = p
    BY Zenon
  <2>1. request' # request
    OBVIOUS
  <2>2. ~ Looks /\ ~ Administers
    BY <1>1, <2>1, LooksTyped, AdministersTyped DEF IInv, Untouched
  <2>3. ASSUME NEW q \in Requests, NEW p \in People, NEW t \in Types,
               NEW first \in Days, NEW last \in Days, Apply(q, p, t, first, last)
        PROVE  FALSE
    <3>1. request[q].status = "ABSENT"
      BY <2>3 DEF Apply
    <3>2. \E row \in LeaveRequest : request' = [request EXCEPT ![q] = row]
      BY <1>1, <2>3, Applied DEF IInv
    <3>. QED BY <1>1, <3>1, <3>2 DEF IInv, TypeOK
  <2>4. PICK c \in Calls : Decide(c)
    BY <1>1, <2>1, <2>2, <2>3, StepsAre DEF vars
  <2>5. call[c] \in Call
    BY <1>1, <2>4 DEF Decide, IInv, CallsCoherent
  <2>6. /\ MayDecide(c, call[c].on)
        /\ request' = [request EXCEPT ![call[c].on].status = call[c].decision]
    BY <2>1, <2>4 DEF Decide
  <2>7. call[c].on = r
    BY <1>1, <2>6 DEF IInv, TypeOK
  <2>8. call[c].decision # "CANCELLED"
    BY <1>1, <2>6, <2>7 DEF IInv, TypeOK, LeaveRequest
  <2>9. /\ request[r].assigned = call[c].actor
        /\ person[call[c].actor].active /\ person[call[c].actor].roles # {}
    BY <2>6, <2>7, <2>8 DEF MayDecide
  <2>10. request[r].assigned # request[r].by
    BY <1>1 DEF IInv, RequestsCoherent
  <2>. QED BY <2>7, <2>9, <2>10
<1>. QED BY <1>1, Invariance, PTL DEF Spec, DecidedByAuthority

\* What is used of every balance is the length of the leave approved for it,
\* however many requests there are and in whatever order they are decided.
THEOREM BalanceHolds == Spec => []BalanceMatches
<1>1. Init => BalanceMatches
  BY InitBalances
<1>2. IInv /\ BalanceMatches /\ [Next]_vars => BalanceMatches'
  <2>. SUFFICES ASSUME IInv, BalanceMatches, [Next]_vars PROVE BalanceMatches'
    OBVIOUS
  <2>1. ASSUME Untouched PROVE BalanceMatches'
    BY <2>1, BalancedIs DEF Untouched
  <2>2. CASE Looks
    BY <2>1, <2>2, LooksTyped DEF IInv
  <2>3. CASE Administers
    BY <2>1, <2>3, AdministersTyped DEF IInv
  <2>4. CASE UNCHANGED vars
    BY <2>1, <2>4 DEF vars, Untouched
  <2>. QED BY <2>2, <2>3, <2>4, StepsAre, ApplyBalances, DecideBalances
<1>. QED BY <1>1, <1>2, Invariance, PTL DEF Spec

\* A decided request stays as it is.
DecisionIsFinal ==
  [][\A r \in Requests : request[r].status \in Decisions => request'[r] = request[r]]_vars

\* Whoever looked at a request while it was PENDING comes too late once it has
\* been decided, and nothing else, such as a change of its type or of those who
\* may decide, touches it.
THEOREM DecisionStays == Spec => DecisionIsFinal
<1>. DEFINE Final == \A r \in Requests : request[r].status \in Decisions => request'[r] = request[r]
<1>1. IInv /\ [Next]_vars => Final
  <2>. SUFFICES ASSUME IInv, [Next]_vars, NEW r \in Requests, request[r].status \in Decisions
                PROVE  request'[r] = request[r]
    OBVIOUS
  <2>1. request[r].status \notin {"ABSENT", "PENDING"}
    BY DEF Decisions
  <2>2. ASSUME NEW q \in Requests, NEW p \in People, NEW t \in Types,
               NEW first \in Days, NEW last \in Days, Apply(q, p, t, first, last)
        PROVE  request'[r] = request[r]
    <3>1. PICK row \in LeaveRequest : request' = [request EXCEPT ![q] = row]
      BY <2>2, Applied DEF IInv
    <3>2. q # r
      BY <2>1, <2>2 DEF Apply
    <3>. QED BY <3>1, <3>2 DEF IInv, TypeOK
  <2>3. ASSUME NEW c \in Calls, Decide(c)
        PROVE  request'[r] = request[r]
    <3>1. \/ UNCHANGED request
          \/ /\ request[call[c].on].status = "PENDING"
             /\ request' = [request EXCEPT ![call[c].on].status = call[c].decision]
      BY <2>3 DEF Decide, MayDecide
    <3>. QED BY <2>1, <3>1 DEF IInv, TypeOK
  <2>4. CASE Looks
    BY <2>4, LooksTyped DEF IInv, Untouched
  <2>5. CASE Administers
    BY <2>5, AdministersTyped DEF IInv, Untouched
  <2>6. CASE UNCHANGED vars
    BY <2>6 DEF vars
  <2>. QED BY <2>2, <2>3, <2>4, <2>5, <2>6, StepsAre
<1>. QED BY <1>1, Invariance, PTL DEF Spec, DecisionIsFinal
=============================================================================
