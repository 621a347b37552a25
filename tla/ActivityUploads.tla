--------------------------- MODULE ActivityUploads ---------------------------
(***************************************************************************)
(* The activity sessions of one computer on their way to the server.  An   *)
(* ActivityCollector closes sessions and puts them into an upload queue in *)
(* the renderer's localStorage; MonitoringUploader.flush() sends what was  *)
(* in the queue when it began, one session at a time, and stops at the     *)
(* first failure.  AppShell makes a new collector, with an uploader of its *)
(* own over the same queue, whenever the employee punches in; it does not  *)
(* wait for the last one, so several may run.  The server takes a session  *)
(* from a device that is ACTIVE and belongs to whoever is logged in.       *)
(*                                                                         *)
(* What is in a session is left out, so are the moments of sampling and    *)
(* sessions too short to be kept.  The server reads the device before the  *)
(* transaction that stores the session; the two are one step here, as no   *)
(* property is about a device that changes in between.  The device's       *)
(* identifier is that of the computer: an employee has one                 *)
(* MonitoringDevice for it.                                                *)
(***************************************************************************)
EXTENDS Naturals, SequencesExt

CONSTANTS
  Activities,  \* activity sessions there may ever be, by clientSessionId
  Collectors,  \* instances of ActivityCollector there may be at a time
  Steady,      \* the collectors that are scheduled fairly
  Devices,     \* MonitoringDevice rows there may ever be
  Employees,   \* who may log in
  Capacity,    \* sessions that fit into the queue
  None         \* null

ASSUME ActivityUploadsAssumption ==
  /\ Capacity \in Nat \ {0}
  /\ Steady \subseteq Collectors
  /\ None \notin Activities \cup Devices \cup Employees

VARIABLES
  device,    \* MonitoringDevice: whose it is, and its status
  user,      \* the employee who is logged in
  running,   \* the device for which each collector runs
  current,   \* each collector's open session, in its memory
  flushing,  \* each collector's flush()
  queue,     \* localStorage: the upload queue
  source,    \* the device that a session was recorded for
  closed,    \* the sessions in the order in which they were closed
  dropped,   \* sessions that the queue had no room for
  stored     \* ActivitySession

agent == <<running, current, flushing, queue, source, closed, dropped>>
vars == <<device, user, agent, stored>>

Statuses == {"ACTIVE", "INACTIVE", "TRUSTED", "REVOKED", "REREGISTRATION_REQUIRED"}
Flush == [pc : {"idle", "sent", "stored", "duplicate", "failed"},
          todo : Seq(Activities), chained : BOOLEAN]
NoFlush == [pc |-> "idle", todo |-> <<>>, chained |-> FALSE]

TypeOK ==
  /\ device \in [Devices -> [owner : Employees \cup {None}, status : Statuses]]
  /\ user \in Employees
  /\ running \in [Collectors -> Devices \cup {None}]
  /\ current \in [Collectors -> Activities \cup {None}]
  /\ flushing \in [Collectors -> Flush]
  /\ queue \in Seq(Activities) /\ Len(queue) <= Capacity
  /\ source \in [Activities -> Devices \cup {None}]
  /\ closed \in Seq(Activities)
  /\ dropped \in SUBSET Activities
  /\ stored \in SUBSET Activities

Init ==
  /\ device = [d \in Devices |-> [owner |-> None, status |-> "ACTIVE"]]
  /\ user \in Employees
  /\ running = [c \in Collectors |-> None]
  /\ current = [c \in Collectors |-> None]
  /\ flushing = [c \in Collectors |-> NoFlush]
  /\ queue = <<>> /\ closed = <<>>
  /\ source = [a \in Activities |-> None]
  /\ dropped = {} /\ stored = {}

-----------------------------------------------------------------------------
(* The administration of devices.                                          *)

SetDevice(d, record) ==
  /\ device' = [device EXCEPT ![d] = record]
  /\ UNCHANGED <<user, agent, stored>>

\* updateDeviceMonitoring()
UpdateDeviceMonitoring(d) ==
  /\ device[d].owner # None
  /\ device[d].status \notin {"REVOKED", "REREGISTRATION_REQUIRED"}
  /\ \E s \in {"ACTIVE", "INACTIVE"} : SetDevice(d, [device[d] EXCEPT !.status = s])

TrustDevice(d) ==
  device[d].owner # None /\ SetDevice(d, [device[d] EXCEPT !.status = "TRUSTED"])

RevokeDevice(d) ==
  device[d].owner # None /\ SetDevice(d, [device[d] EXCEPT !.status = "REVOKED"])

\* resetDeviceRegistration(), forceDeviceReregistration()
ForceReregistration(d) ==
  device[d].owner # None /\ SetDevice(d, [device[d] EXCEPT !.status = "REREGISTRATION_REQUIRED"])

\* reassignDevice(): refused to an employee who has a device for this computer
ReassignDevice(d) ==
  /\ device[d].owner # None
  /\ \E e \in Employees : /\ \A x \in Devices : device[x].owner # e
                          /\ SetDevice(d, [device[d] EXCEPT !.owner = e])

-----------------------------------------------------------------------------
(* The collectors.                                                         *)

\* registerDevice(): the employee's device for this computer, if there is one,
\* is ACTIVE again if it was to be registered again; else there is a new one.
Registered(d) ==
  \/ /\ device[d].owner = user
     /\ device' = IF device[d].status = "REREGISTRATION_REQUIRED"
                  THEN [device EXCEPT ![d].status = "ACTIVE"] ELSE device
  \/ /\ \A x \in Devices : device[x].owner # user
     /\ device[d].owner = None
     /\ device' = [device EXCEPT ![d] = [owner |-> user, status |-> "ACTIVE"]]

\* runSessionOperation(): the operations of a collector wait for each other, and
\* with the operation for the flush it ended with; start() flushes beside them.
Free(c) == ~ flushing[c].chained

\* sampleLocked(): a session is opened, under a new clientSessionId
Sample(c) ==
  /\ running[c] # None /\ Free(c)
  /\ current[c] = None
  /\ \E a \in Activities : source[a] = None
  /\ LET new == CHOOSE a \in Activities : source[a] = None
     IN  /\ source' = [source EXCEPT ![new] = running[c]]
         /\ current' = [current EXCEPT ![c] = new]
  /\ UNCHANGED <<device, user, running, flushing, queue, closed, dropped, stored>>

\* write() keeps the first sessions of the queue, so that a session that does
\* not fit is lost.
Enqueue(a) ==
  /\ closed' = Append(closed, a)
  /\ IF Len(queue) < Capacity THEN queue' = Append(queue, a) /\ UNCHANGED dropped
                              ELSE dropped' = dropped \cup {a} /\ UNCHANGED queue

\* flush() takes the queue as it is now, unless it is running already.
Flushed(c, chained) ==
  IF flushing[c].pc # "idle" \/ queue' = <<>> THEN flushing
  ELSE [flushing EXCEPT ![c] = [pc |-> "sent", todo |-> queue', chained |-> chained]]

\* AppShell registers the device and starts a collector for it, which flushes
\* what is left in the queue.
Start(c) ==
  /\ running[c] = None /\ flushing[c] = NoFlush
  /\ \E d \in Devices : Registered(d) /\ running' = [running EXCEPT ![c] = d]
  /\ UNCHANGED queue
  /\ flushing' = Flushed(c, FALSE)
  /\ UNCHANGED <<user, current, source, closed, dropped, stored>>

\* closeOpenSession(), or a sample that ends the session: enqueue and flush
Roll(c) ==
  /\ running[c] # None /\ Free(c)
  /\ current[c] # None
  /\ Enqueue(current[c])
  /\ current' = [current EXCEPT ![c] = None]
  /\ flushing' = Flushed(c, TRUE)
  /\ UNCHANGED <<device, user, running, source, stored>>

\* stop(): the same, and the collector is done.
Stop(c) ==
  /\ running[c] # None /\ Free(c)
  /\ running' = [running EXCEPT ![c] = None]
  /\ current' = [current EXCEPT ![c] = None]
  /\ IF current[c] # None THEN Enqueue(current[c]) ELSE UNCHANGED <<queue, closed, dropped>>
  /\ flushing' = Flushed(c, TRUE)
  /\ UNCHANGED <<device, user, source, stored>>

\* rollOpenSession() without a session to close flushes what is left.
Reflush(c) ==
  /\ running[c] # None /\ flushing[c].pc = "idle" /\ queue # <<>>
  /\ UNCHANGED queue
  /\ flushing' = Flushed(c, TRUE)
  /\ UNCHANGED <<device, user, running, current, source, closed, dropped, stored>>

\* The window is closed: what is in memory is gone.
Crash ==
  /\ running' = [c \in Collectors |-> None]
  /\ current' = [c \in Collectors |-> None]
  /\ flushing' = [c \in Collectors |-> NoFlush]
  /\ UNCHANGED <<device, user, queue, source, closed, dropped, stored>>

\* A logout and another employee's login.  AppShell stops its collector without
\* waiting for it to end, and nobody clears the queue.
ChangeUser ==
  /\ user' \in Employees \ {user}
  /\ UNCHANGED <<device, agent, stored>>

-----------------------------------------------------------------------------
(* The uploads.                                                            *)

Uploading(c) == Head(flushing[c].todo)
Answer(c, pc) == flushing' = [flushing EXCEPT ![c].pc = pc]

\* ownedActiveDevice()
Accepted(a) ==
  device[source[a]].status = "ACTIVE" /\ device[source[a]].owner = user

\* uploadActivity(): a session that is stored already is a conflict.
UploadActivity(c) ==
  /\ flushing[c].pc = "sent"
  /\ LET a == Uploading(c)
     IN  IF ~ Accepted(a) THEN Answer(c, "failed") /\ UNCHANGED stored
         ELSE Answer(c, IF a \in stored THEN "duplicate" ELSE "stored") /\ stored' = stored \cup {a}
  /\ UNCHANGED <<device, user, running, current, queue, source, closed, dropped>>

\* The request or its answer is lost, or the server fails.
UploadFails(c) ==
  /\ flushing[c].pc \in {"sent", "stored", "duplicate"}
  /\ Answer(c, "failed")
  /\ UNCHANGED <<device, user, running, current, queue, source, closed, dropped, stored>>

NextUpload(c) ==
  IF Len(flushing[c].todo) = 1 THEN NoFlush
  ELSE [flushing[c] EXCEPT !.pc = "sent", !.todo = Tail(flushing[c].todo)]

\* Mutant of Removable: a duplicate is left in the queue as a failure is.
RemovableOnce(c) == flushing[c].pc = "stored"

\* Mutant of Removable: whatever the answer is, the session has been dealt with.
RemovableAlways(c) == flushing[c].pc \in {"stored", "duplicate", "failed"}

\* An upload that the server has stored, now or before
Removable(c) == flushing[c].pc \in {"stored", "duplicate"}

\* A session is in the queue once, by its clientSessionId.
UploadDone(c) ==
  /\ Removable(c)
  /\ queue' = RemoveFirst(queue, Uploading(c))
  /\ flushing' = [flushing EXCEPT ![c] = NextUpload(c)]
  /\ UNCHANGED <<device, user, running, current, source, closed, dropped, stored>>

\* Mutant of AfterFailure: the flush goes on with the next session.
AfterFailureNext(c) == NextUpload(c)

\* The flush stops at a failure.
AfterFailure(c) == NoFlush

UploadBreaks(c) ==
  /\ flushing[c].pc = "failed"
  /\ flushing' = [flushing EXCEPT ![c] = AfterFailure(c)]
  /\ UNCHANGED <<device, user, running, current, queue, source, closed, dropped, stored>>

-----------------------------------------------------------------------------
DeviceNext ==
  \E d \in Devices :
    \/ UpdateDeviceMonitoring(d) \/ TrustDevice(d) \/ RevokeDevice(d)
    \/ ForceReregistration(d) \/ ReassignDevice(d)

CollectorNext ==
  \/ \E c \in Collectors : Start(c) \/ Sample(c) \/ Roll(c) \/ Stop(c) \/ Reflush(c)
  \/ Crash \/ ChangeUser

UploadNext ==
  \E c \in Collectors :
    UploadActivity(c) \/ UploadFails(c) \/ UploadDone(c) \/ UploadBreaks(c)

Next == DeviceNext \/ CollectorNext \/ UploadNext

Spec == Init /\ [][Next]_vars

\* A steady collector's timers fire, its uploads are answered, and not every
\* answer is lost.
Fairness ==
  \A c \in Steady :
    /\ WF_vars(Reflush(c)) /\ SF_vars(UploadActivity(c))
    /\ SF_vars(UploadDone(c)) /\ WF_vars(UploadBreaks(c))

FairSpec == Spec /\ Fairness

-----------------------------------------------------------------------------
\* A session that was closed is at the server or still in the queue, unless the
\* queue was full: neither lost answers, nor overlapping flushes, nor crashes
\* lose it.
NothingLost ==
  \A i \in 1 .. Len(closed) : closed[i] \in stored \cup dropped \cup ToSet(queue)

\* The server never has a session without those that were closed before it, so
\* that the latest evidence of work has no holes behind it.
NoGap ==
  \A i, j \in 1 .. Len(closed) :
    i < j /\ closed[j] \in stored => closed[i] \in stored \cup dropped

\* Once a steady collector keeps running and the server would take whatever is
\* in the queue, the queue is emptied again and again, whatever the other
\* collectors do.
QueueDrains ==
  \A c \in Steady :
    <>[](running[c] # None /\ \A a \in ToSet(queue) : Accepted(a)) => []<>(queue = <<>>)
=============================================================================
