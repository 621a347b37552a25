------------------------------- MODULE Leave --------------------------------
(***************************************************************************)
(* LeaveService: leave requests of one company, who may decide them, and   *)
(* the balances that approvals are charged to.                             *)
(*                                                                         *)
(* apply() is one transaction under the locks of the Company, of the       *)
(* applicant and of the approver it resolves, and is one action.  review() *)
(* and cancel() look at the request and at who is asking without a lock    *)
(* and decide in a transaction later; both write only a request that is    *)
(* still PENDING.  Meanwhile people lose and gain roles, managers and      *)
(* employment, and leave types are changed and deleted.  The mail sent     *)
(* after a commit is left out: its failure is only logged.                 *)
(*                                                                         *)
(* Every person is a user with an employee.  COMPANY_ADMIN counts as HR,   *)
(* from which nothing here tells it apart, and who may administer people   *)
(* and leave types is left out.                                            *)
(***************************************************************************)
EXTENDS Integers, Sequences, FiniteSets, FiniteSetsExt

CONSTANTS
  People,      \* employees, each with its user
  Types,       \* leave types
  Requests,    \* LeaveRequest rows there may ever be
  Legacy,      \* those that may be from before approvers were assigned
  Calls,       \* reviews and cancellations under way
  Days,        \* days that leave may be taken on
  YearOf,      \* the year a day is in
  Hired,       \* People as they are at first
  MaxChanges,  \* bound: changes to people, designations and leave types
  None         \* null

Years == {YearOf[d] : d \in Days}
Roles == {"MANAGER", "HR"}
Person == [active : BOOLEAN, roles : SUBSET Roles, manager : People \cup {None},
           employment : {"ACTIVE", "INACTIVE", "DELETED"}]

ASSUME LeaveAssumption ==
  /\ Days \subseteq Int /\ YearOf \in [Days -> Int]
  /\ Legacy \subseteq Requests /\ IsFiniteSet(Legacy)
  /\ Hired \in [People -> Person]
  /\ MaxChanges \in Nat
  /\ None \notin People \cup Types \cup Requests

VARIABLES
  person,      \* User, UserRole and Employee rows
  designated,  \* Company.designatedLeaveApproverUserId
  type,        \* LeaveType rows
  doomed,      \* types that removeType() has found no pending request for
  request,     \* LeaveRequest rows
  history,     \* actions of the LeaveApprovalHistory rows of each request
  used,        \* LeaveBalance.used; a missing row counts as 0
  call,        \* reviews and cancellations under way
  changes

vars == <<person, designated, type, doomed, request, history, used, call, changes>>

Decisions == {"APPROVED", "REJECTED", "CANCELLED"}
LeaveType == [requiresApproval : BOOLEAN, managerCanApprove : BOOLEAN, deleted : BOOLEAN]
\* assigned: assignedApproverUserId, null where approvalAuthorityVersion is.
LeaveRequest ==
  [status : {"ABSENT", "PENDING"} \cup Decisions, by : People \cup {None},
   type : Types \cup {None}, first : Days \cup {None}, last : Days \cup {None},
   assigned : People \cup {None}]
NoRequest == [status |-> "ABSENT", by |-> None, type |-> None, first |-> None, last |-> None,
              assigned |-> None]
\* A request that was submitted when approvers were not yet assigned.
LegacyRequest ==
  {q \in LeaveRequest : /\ q.status = "PENDING" /\ q.by # None /\ q.type # None
                        /\ q.first # None /\ q.last # None /\ q.assigned = None
                        /\ q.first <= q.last}
\* A call that has looked and is to decide.
Idle == [actor |-> None, on |-> None, decision |-> "CANCELLED"]
Call == [actor : People, on : Requests, decision : Decisions]

TypeOK ==
  /\ person \in [People -> Person]
  /\ designated \in People \cup {None}
  /\ type \in [Types -> LeaveType]
  /\ doomed \subseteq Types
  /\ request \in [Requests -> LeaveRequest]
  /\ history \in [Requests -> Seq({"SUBMITTED"} \cup Decisions)]
  /\ used \in [People -> [Types -> [Years -> Int]]]
  /\ call \in [Calls -> Call \cup {Idle}]
  /\ changes \in 0 .. MaxChanges

\* Mutant of Overlap: two requests may share their first or last day.
OverlapStrictly(r, first, last) == request[r].first < last /\ first < request[r].last

Overlap(r, first, last) == request[r].first <= last /\ first <= request[r].last
Live(r) == request[r].status \in {"PENDING", "APPROVED"}

\* Two of an employee's live requests never share a day, as apply() looks for
\* overlaps under the Company's lock and nothing brings a request back to life.
NoOverlap ==
  \A r, q \in Requests :
    /\ r # q /\ Live(r) /\ Live(q)
    /\ request[r].by = request[q].by
    => ~ \E d \in Days : /\ request[r].first <= d /\ d <= request[r].last
                         /\ request[q].first <= d /\ d <= request[q].last

Init ==
  /\ person = Hired
  /\ designated = None
  /\ type \in [Types -> [requiresApproval : BOOLEAN, managerCanApprove : BOOLEAN, deleted : {FALSE}]]
  /\ doomed = {}
  /\ request \in [Requests -> LegacyRequest \cup {NoRequest}]
  /\ \A r \in Requests : request[r] # NoRequest => r \in Legacy
  /\ NoOverlap
  /\ history = [r \in Requests |-> IF request[r] = NoRequest THEN <<>> ELSE <<"SUBMITTED">>]
  /\ used = [p \in People |-> [t \in Types |-> [y \in Years |-> 0]]]
  /\ call = [c \in Calls |-> Idle]
  /\ changes = 0

-----------------------------------------------------------------------------
Look(c, p, r, decision) ==
  /\ call[c] = Idle
  /\ call' = [call EXCEPT ![c] = [actor |-> p, on |-> r, decision |-> decision]]
Finish(c) == call' = [call EXCEPT ![c] = Idle]

CanManage(m, p) ==
  /\ m \in People \ {p}
  /\ person[m].employment = "ACTIVE" /\ person[m].active /\ "MANAGER" \in person[m].roles
CanStandIn(u, p) == u \in People \ {p} /\ person[u].active /\ "HR" \in person[u].roles

\* resolveLeaveApprover(): the reporting manager, else the designated approver.
Approver(p, t) ==
  IF type[t].managerCanApprove /\ CanManage(person[p].manager, p) THEN person[p].manager
  ELSE IF CanStandIn(designated, p) THEN designated
  ELSE None

\* apply(), to the commit.
Apply(r, p, t, first, last) ==
  LET automatic == ~ type[t].requiresApproval
      approver == IF automatic THEN None ELSE Approver(p, t) IN
  /\ request[r].status = "ABSENT"
  /\ person[p].active /\ person[p].employment = "ACTIVE"
  /\ ~ type[t].deleted
  /\ first <= last
  /\ \A q \in Requests : Live(q) /\ request[q].by = p => ~ Overlap(q, first, last)
  /\ automatic \/ approver # None
  /\ request' = [request EXCEPT ![r] =
       [status |-> IF automatic THEN "APPROVED" ELSE "PENDING", by |-> p, type |-> t,
        first |-> first, last |-> last, assigned |-> approver]]
  /\ history' = [history EXCEPT ![r] = Append(@, "SUBMITTED")]
  /\ UNCHANGED <<person, designated, type, doomed, used, call, changes>>

Assigned(r) == request[r].assigned # None
Manages(p, r) ==
  /\ "MANAGER" \in person[p].roles /\ type[request[r].type].managerCanApprove
  /\ person[request[r].by].manager = p

\* review(), before its transaction: the request and the reviewer as they are.
Review(c, r, p, decision) ==
  /\ decision \in {"APPROVED", "REJECTED"}
  /\ person[p].active /\ person[p].roles # {}
  /\ request[r].status = "PENDING"
  /\ IF Assigned(r)
       THEN request[r].assigned = p
       ELSE \/ "HR" \in person[p].roles
            \/ Manages(p, r) /\ person[p].employment # "DELETED"
  /\ Look(c, p, r, decision)
  /\ UNCHANGED <<person, designated, type, doomed, request, history, used, changes>>

\* cancel(), before its transaction.
Cancel(c, r, p) ==
  /\ person[p].active
  /\ request[r].status = "PENDING"
  /\ \/ "HR" \in person[p].roles
     \/ person[p].employment = "ACTIVE" /\ (request[r].by = p \/ Manages(p, r))
  /\ Look(c, p, r, "CANCELLED")
  /\ UNCHANGED <<person, designated, type, doomed, request, history, used, changes>>

\* Mutant of MayDecide: whether the request is still PENDING is not looked at.
MayDecideAnyway(c, r) == request[r].status # "ABSENT"

\* Mutant of MayDecide: the reviewer is not looked at again under the lock.
MayDecideAsRead(c, r) == request[r].status = "PENDING"

\* What the transactions of review() and cancel() look at again, and only the
\* former: an assigned reviewer's authority, and whether the request is PENDING.
MayDecide(c, r) ==
  LET p == call[c].actor IN
  /\ request[r].status = "PENDING"
  /\ Assigned(r) /\ call[c].decision # "CANCELLED" =>
       request[r].assigned = p /\ person[p].active /\ person[p].roles # {}

\* Mutant of Charge: leave is charged to the year in which it ends.
ChargeLastYear(r) ==
  LET q == request[r] IN
  used' = [used EXCEPT ![q.by][q.type][YearOf[q.last]] = @ + q.last - q.first + 1]

\* The balance row of the year in which the leave starts, written or created.
Charge(r) ==
  LET q == request[r] IN
  used' = [used EXCEPT ![q.by][q.type][YearOf[q.first]] = @ + q.last - q.first + 1]

\* The transaction of review() or cancel(): it decides, or throws.
Decide(c) ==
  LET r == call[c].on  decision == call[c].decision IN
  /\ call[c] # Idle
  /\ IF MayDecide(c, r)
       THEN /\ request' = [request EXCEPT ![r].status = decision]
            /\ IF decision = "APPROVED" THEN Charge(r) ELSE UNCHANGED used
            /\ history' = [history EXCEPT ![r] = Append(@, decision)]
       ELSE UNCHANGED <<request, used, history>>
  /\ Finish(c)
  /\ UNCHANGED <<person, designated, type, doomed, changes>>

\* The process dies or the database fails before the commit.
Fail(c) ==
  /\ call[c] # Idle
  /\ Finish(c)
  /\ UNCHANGED <<person, designated, type, doomed, request, history, used, changes>>

-----------------------------------------------------------------------------
\* What is administered meanwhile.
Change == changes < MaxChanges /\ changes' = changes + 1

\* UsersService.setStatus(), assignRole() and removeRole().
ChangeUser(p) ==
  /\ Change
  /\ \/ person' = [person EXCEPT ![p].active = ~ @]
     \/ \E role \in Roles \ person[p].roles : person' = [person EXCEPT ![p].roles = @ \cup {role}]
     \/ \E role \in person[p].roles : person' = [person EXCEPT ![p].roles = @ \ {role}]
  /\ UNCHANGED <<designated, type, doomed, request, history, used, call>>

\* EmployeesService.update().  That the manager is ACTIVE and that no cycle
\* comes about is read before the transaction, and need not hold when it writes.
ChangeEmployee(p) ==
  /\ Change /\ person[p].employment # "DELETED"
  /\ \/ \E m \in (People \cup {None}) \ {p} : person' = [person EXCEPT ![p].manager = m]
     \/ \E e \in {"ACTIVE", "INACTIVE"} : person' = [person EXCEPT ![p].employment = e]
  /\ UNCHANGED <<designated, type, doomed, request, history, used, call>>

\* EmployeesService.remove(): nobody reports to the employee any more.
RemoveEmployee(p) ==
  /\ Change /\ person[p].employment # "DELETED"
  /\ person' = [q \in People |->
       IF q = p THEN [person[q] EXCEPT !.employment = "DELETED"]
       ELSE IF person[q].manager = p THEN [person[q] EXCEPT !.manager = None]
       ELSE person[q]]
  /\ UNCHANGED <<designated, type, doomed, request, history, used, call>>

\* CompaniesService.updateDesignatedLeaveApprover().
Designate(u) ==
  /\ Change
  /\ u # None => person[u].active /\ "HR" \in person[u].roles
  /\ designated' = u
  /\ UNCHANGED <<person, type, doomed, request, history, used, call>>

UpdateType(t) ==
  /\ Change /\ ~ type[t].deleted
  /\ \E a, m \in BOOLEAN : type' = [type EXCEPT ![t].requiresApproval = a, ![t].managerCanApprove = m]
  /\ UNCHANGED <<person, designated, doomed, request, history, used, call>>

\* removeType() counts the pending requests ...
CountPending(t) ==
  /\ Change /\ ~ type[t].deleted
  /\ \A r \in Requests : ~ (request[r].type = t /\ request[r].status = "PENDING")
  /\ doomed' = doomed \cup {t}
  /\ UNCHANGED <<person, designated, type, request, history, used, call>>

\* ... and deletes the type, whatever was applied for since.
DeleteType(t) ==
  /\ t \in doomed
  /\ type' = [type EXCEPT ![t].deleted = TRUE]
  /\ doomed' = doomed \ {t}
  /\ UNCHANGED <<person, designated, request, history, used, call, changes>>

Next ==
  \/ \E r \in Requests, p \in People :
       \/ \E t \in Types, first, last \in Days : Apply(r, p, t, first, last)
       \/ \E c \in Calls :
            \/ \E decision \in {"APPROVED", "REJECTED"} : Review(c, r, p, decision)
            \/ Cancel(c, r, p)
  \/ \E c \in Calls : Decide(c) \/ Fail(c)
  \/ \E p \in People : ChangeUser(p) \/ ChangeEmployee(p) \/ RemoveEmployee(p)
  \/ \E u \in People \cup {None} : Designate(u)
  \/ \E t \in Types : UpdateType(t) \/ CountPending(t) \/ DeleteType(t)

Spec == Init /\ [][Next]_vars

-----------------------------------------------------------------------------
\* A request is decided once, however many reviews and cancellations race: its
\* history has one decision, which is its status, or none.
OneDecision ==
  \A r \in Requests :
    LET s == request[r].status IN
    history[r] \in CASE s = "ABSENT"   -> {<<>>}
                      [] s = "PENDING"  -> {<<"SUBMITTED">>}
                      [] s = "APPROVED" -> {<<"SUBMITTED">>, <<"SUBMITTED", s>>}
                      [] OTHER          -> {<<"SUBMITTED", s>>}

\* The days of leave of the requests S, whose rows are q.
DaysOf(q, S) == MapThenSumSet(LAMBDA r : q[r].last - q[r].first + 1, S)

\* What an employee has used of a balance is the length of the leave that was
\* approved for the year, each request counted once; leave of a type that needs
\* no approval is not counted.
BalanceMatches ==
  \A p \in People, t \in Types, y \in Years :
    used[p][t][y] =
      DaysOf(request,
        {r \in Requests : /\ request[r].by = p /\ request[r].type = t
                          /\ "APPROVED" \in {history[r][i] : i \in DOMAIN history[r]}
                          /\ YearOf[request[r].first] = y})

\* A request with an assigned approver is approved or rejected by nobody else,
\* who is not the applicant, and at that moment is active and has a role that
\* may review, although all that was first looked at some time before.
DecidedByAuthority ==
  [][\A r \in Requests :
       /\ Assigned(r) /\ request[r].status = "PENDING"
       /\ request'[r].status \in {"APPROVED", "REJECTED"}
       => LET p == request[r].assigned IN
          /\ p # request[r].by /\ person[p].active /\ person[p].roles # {}
          /\ \E c \in Calls : call[c].on = r /\ call[c].actor = p]_vars
=============================================================================
