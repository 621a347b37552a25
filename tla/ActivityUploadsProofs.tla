------------------------ MODULE ActivityUploadsProofs ------------------------
(***************************************************************************)
(* Proofs about ActivityUploads: no session is lost that the queue had     *)
(* room for, and the server has none without those closed before it, for   *)
(* any number of collectors, sessions, devices and employees.              *)
(*                                                                         *)
(* Neither is inductive: a flush sends what was in the queue when it       *)
(* began, and other flushes and a crash come in between.  What holds of    *)
(* the queue holds of what every flush has still to send (Orderly): what   *)
(* was closed before one of its sessions is stored, was dropped, or is     *)
(* ahead of it.  It is kept as sessions leave at the head only once they   *)
(* are stored, and as what is put at the end was just closed.              *)
(***************************************************************************)
EXTENDS ActivityUploads, SequenceTheorems, WellFoundedInduction, TLAPS

Sessions(q) == {q[k] : k \in 1 .. Len(q)}

\* Whatever was closed before a session of q is done with, or ahead of it in q.
Covered(q) ==
  \A k \in 1 .. Len(q), j \in 1 .. Len(closed) :
    closed[j] = q[k] =>
      \A i \in 1 .. j - 1 :
        closed[i] \in stored \cup dropped \/ \E m \in 1 .. k - 1 : q[m] = closed[i]

Orderly(q) == Sessions(q) \subseteq Sessions(closed) /\ Covered(q)

\* A flush that runs has something to send, and takes nothing for stored that
\* is not.
FlushCoherent(f) ==
  /\ f.pc = "idle" <=> f.todo = <<>>
  /\ f.pc \in {"stored", "duplicate"} => Head(f.todo) \in stored
  /\ Orderly(f.todo)

\* An open session is open in one collector and was not closed before.
CurrentFresh ==
  /\ \A c \in Collectors : current[c] # None =>
       /\ source[current[c]] # None
       /\ current[c] \notin Sessions(closed)
       /\ \A d \in Collectors : current[d] = current[c] => d = c
  /\ \A a \in Sessions(closed) : source[a] # None

IInv ==
  /\ TypeOK
  /\ CurrentFresh
  /\ stored \subseteq Sessions(closed)
  /\ Orderly(queue)
  /\ \A c \in Collectors : FlushCoherent(flushing[c])
  /\ NothingLost /\ NoGap

-----------------------------------------------------------------------------
(* Sequences.                                                              *)

LEMMA LessWellFounded ==
  \E R : IsWellFoundedOn(R, Nat) /\ \A x, y \in Nat : <<y, x>> \in R <=> y < x
<1>1. \A x, y \in Nat : <<y, x>> \in OpToRel(<, Nat) <=> y < x
  BY DEF OpToRel
<1>. QED BY <1>1, NatLessThanWellFounded

LEMMA LeastOf ==
  ASSUME NEW T \in SUBSET Nat, T # {}
  PROVE  \E m \in T : \A n \in T : m <= n
<1>1. PICK R : IsWellFoundedOn(R, Nat) /\ \A x, y \in Nat : <<y, x>> \in R <=> y < x
  BY LessWellFounded
<1>2. PICK m \in T : \A n \in T : ~ (<<n, m>> \in R)
  BY <1>1, WFMin
<1>3. ASSUME NEW n \in T
      PROVE  m <= n
  <2>1. m \in Nat /\ n \in Nat
    OBVIOUS
  <2>2. <<n, m>> \in R <=> n < m
    BY <1>1, <2>1, Zenon
  <2>3. ~ (n < m)
    BY <1>2, <2>2, Zenon
  <2>. QED BY <2>1, <2>3
<1>. QED BY <1>3

\* Taking out position i
LEMMA RemoveAtOf ==
  ASSUME NEW S, NEW q \in Seq(S), NEW i \in 1 .. Len(q)
  PROVE  /\ RemoveAt(q, i) \in Seq(S)
         /\ Len(RemoveAt(q, i)) = Len(q) - 1
         /\ \A k \in 1 .. Len(q) - 1 :
              RemoveAt(q, i)[k] = IF k < i THEN q[k] ELSE q[k + 1]
<1>. DEFINE l == SubSeq(q, 1, i - 1)
            r == SubSeq(q, i + 1, Len(q))
<1>1. i \in Nat /\ Len(q) \in Nat /\ 1 <= i /\ i <= Len(q)
  BY LenProperties
<1>2. \A k \in 1 .. Len(q) : q[k] \in S
  BY ElementOfSeq
<1>3. /\ l \in Seq(S) /\ Len(l) = i - 1
      /\ \A k \in 1 .. i - 1 : l[k] = q[k]
  <2>1. \A k \in 1 .. i - 1 : q[k] \in S
    BY <1>1, <1>2
  <2>. QED BY <1>1, <2>1, SubSeqProperties
<1>4. /\ r \in Seq(S) /\ Len(r) = Len(q) - i
      /\ \A k \in 1 .. Len(q) - i : r[k] = q[i + k]
  <2>1. \A k \in i + 1 .. Len(q) : q[k] \in S
    BY <1>1, <1>2
  <2>2. /\ r \in Seq(S) /\ Len(r) = IF i + 1 <= Len(q) THEN Len(q) - (i + 1) + 1 ELSE 0
        /\ \A k \in 1 .. Len(q) - (i + 1) + 1 : r[k] = q[(i + 1) + k - 1]
    BY <1>1, <2>1, SubSeqProperties
  <2>. HIDE DEF r
  <2>. QED BY <1>1, <2>2
<1>5. RemoveAt(q, i) = l \o r
  BY DEF RemoveAt
<1>. HIDE DEF l, r
<1>6. /\ l \o r \in Seq(S)
      /\ Len(l \o r) = Len(l) + Len(r)
      /\ \A k \in 1 .. Len(l) + Len(r) : (l \o r)[k] = IF k <= Len(l) THEN l[k] ELSE r[k - Len(l)]
  BY <1>3, <1>4, ConcatProperties
<1>. QED BY <1>1, <1>3, <1>4, <1>5, <1>6

\* RemoveFirst() changes nothing, or takes out one position that holds a.
LEMMA RemoveFirstOf ==
  ASSUME NEW S, NEW q \in Seq(S), NEW a
  PROVE  \/ RemoveFirst(q, a) = q
         \/ \E i \in 1 .. Len(q) : q[i] = a /\ RemoveFirst(q, a) = RemoveAt(q, i)
<1>1. CASE \E i \in 1 .. Len(q) : q[i] = a
  <2>. DEFINE At == {i \in 1 .. Len(q) : q[i] = a}
  <2>0. At \in SUBSET Nat /\ At # {}
    BY <1>1
  <2>1. PICK m \in At : \A n \in At : m <= n
    <3>. HIDE DEF At
    <3>. QED BY <2>0, LeastOf
  <2>2. SelectInSeq(q, LAMBDA e : e = a) \in At
    BY <2>1 DEF SelectInSeq, Min
  <2>. QED BY <1>1, <2>2 DEF RemoveFirst
<1>. QED BY <1>1 DEF RemoveFirst

LEMMA AppendOf ==
  ASSUME NEW S, NEW q \in Seq(S), NEW a \in S
  PROVE  /\ Append(q, a) \in Seq(S) /\ Len(Append(q, a)) = Len(q) + 1
         /\ \A k \in 1 .. Len(q) : Append(q, a)[k] = q[k]
         /\ Append(q, a)[Len(q) + 1] = a
         /\ Sessions(Append(q, a)) = Sessions(q) \cup {a}
<1>1. /\ Append(q, a) \in Seq(S) /\ Len(Append(q, a)) = Len(q) + 1
      /\ \A k \in 1 .. Len(q) : Append(q, a)[k] = q[k]
      /\ Append(q, a)[Len(q) + 1] = a
  BY AppendProperties
<1>2. Len(q) \in Nat
  OBVIOUS
<1>3. Sessions(Append(q, a)) \subseteq Sessions(q) \cup {a}
  <2>. SUFFICES ASSUME NEW k \in 1 .. Len(q) + 1
                PROVE  Append(q, a)[k] \in Sessions(q) \cup {a}
    BY <1>1 DEF Sessions
  <2>1. CASE k = Len(q) + 1
    BY <1>1, <2>1
  <2>2. CASE k \in 1 .. Len(q)
    BY <1>1, <2>2 DEF Sessions
  <2>. QED BY <1>2, <2>1, <2>2
<1>4. Sessions(q) \cup {a} \subseteq Sessions(Append(q, a))
  BY <1>1, <1>2 DEF Sessions
<1>. QED BY <1>1, <1>3, <1>4

LEMMA SessionsAreElements ==
  ASSUME NEW S, NEW q \in Seq(S)
  PROVE  ToSet(q) = Sessions(q) /\ Sessions(q) \subseteq S
BY LenProperties DEF ToSet, Sessions

LEMMA SessionsOfTail ==
  ASSUME NEW S, NEW q \in Seq(S), q # <<>>
  PROVE  /\ Sessions(Tail(q)) \subseteq Sessions(q)
         /\ Head(q) \in Sessions(q) /\ Head(q) = q[1] /\ Len(q) >= 1
         /\ Tail(q) = <<>> <=> Len(q) = 1
<1>1. Len(q) \in Nat \ {0} /\ Head(q) = q[1]
  BY EmptySeq
<1>2. /\ Tail(q) \in Seq(S) /\ Len(Tail(q)) = Len(q) - 1
      /\ \A k \in 1 .. Len(Tail(q)) : Tail(q)[k] = q[k + 1]
  BY HeadTailProperties
<1>3. Tail(q) = <<>> <=> Len(Tail(q)) = 0
  BY <1>2, EmptySeq
<1>4. Sessions(Tail(q)) \subseteq Sessions(q)
  BY <1>1, <1>2 DEF Sessions
<1>5. Head(q) \in Sessions(q)
  BY <1>1 DEF Sessions
<1>. QED BY <1>1, <1>2, <1>3, <1>4, <1>5

-----------------------------------------------------------------------------
(* What a step leaves in order.                                            *)

\* A step stores, drops and closes sessions; one that is closed is new.
Grows ==
  /\ stored \subseteq stored' /\ dropped \subseteq dropped'
  /\ \/ closed' = closed
     \/ \E a \in Activities : a \notin Sessions(closed) /\ closed' = Append(closed, a)

LEMMA OrderlyStays ==
  ASSUME TypeOK, Grows, NEW q \in Seq(Activities), Orderly(q)
  PROVE  Orderly(q)'
<1>1. closed \in Seq(Activities) /\ Len(closed) \in Nat /\ Len(q) \in Nat
  BY DEF TypeOK
<1>2. CASE closed' = closed
  BY <1>2 DEF Grows, Orderly, Covered
<1>3. CASE closed' # closed
  <2>1. PICK a \in Activities : a \notin Sessions(closed) /\ closed' = Append(closed, a)
    BY <1>3 DEF Grows
  <2>2. /\ Len(closed') = Len(closed) + 1
        /\ \A k \in 1 .. Len(closed) : closed'[k] = closed[k]
        /\ closed'[Len(closed) + 1] = a
        /\ Sessions(closed') = Sessions(closed) \cup {a}
    BY <1>1, <2>1, AppendOf
  <2>3. \A k \in 1 .. Len(q) : q[k] \in Sessions(closed)
    BY DEF Orderly, Sessions
  <2>4. Sessions(q) \subseteq Sessions(closed')
    BY <2>2 DEF Orderly
  <2>5. ASSUME NEW k \in 1 .. Len(q), NEW j \in 1 .. Len(closed'), closed'[j] = q[k],
               NEW i \in 1 .. j - 1
        PROVE  closed'[i] \in stored' \cup dropped' \/ \E m \in 1 .. k - 1 : q[m] = closed'[i]
    <3>1. j # Len(closed) + 1
      BY <2>1, <2>2, <2>3, <2>5
    <3>2. j \in 1 .. Len(closed) /\ i \in 1 .. Len(closed)
      BY <1>1, <2>2, <3>1
    <3>3. closed[j] = q[k] /\ closed'[i] = closed[i]
      BY <2>2, <2>5, <3>2
    <3>. QED BY <3>2, <3>3 DEF Grows, Orderly, Covered
  <2>. QED BY <2>4, <2>5 DEF Orderly, Covered
<1>. QED BY <1>2, <1>3

LEMMA FlushStays ==
  ASSUME TypeOK, Grows, NEW f \in Flush, FlushCoherent(f)
  PROVE  FlushCoherent(f)'
<1>1. f.todo \in Seq(Activities)
  BY DEF Flush
<1>2. Orderly(f.todo)'
  <2>. DEFINE q == f.todo
  <2>1. Orderly(q)
    BY DEF FlushCoherent
  <2>2. q \in Seq(Activities)
    BY <1>1
  <2>. HIDE DEF q
  <2>3. Orderly(q)'
    BY <2>1, <2>2, OrderlyStays
  <2>. QED BY <2>3 DEF q
<1>. QED BY <1>2 DEF FlushCoherent, Grows

\* One flush changes, into one that is in order.
LEMMA FlushesStay ==
  ASSUME IInv, Grows, NEW c \in Collectors, NEW f \in Flush, FlushCoherent(f)',
         flushing' = [flushing EXCEPT ![c] = f]
  PROVE  /\ flushing' \in [Collectors -> Flush]
         /\ \A d \in Collectors : FlushCoherent(flushing[d])'
<1>1. flushing \in [Collectors -> Flush] /\ TypeOK
  BY DEF IInv, TypeOK
<1>2. flushing' \in [Collectors -> Flush]
  BY <1>1
<1>3. ASSUME NEW d \in Collectors
      PROVE  FlushCoherent(flushing[d])'
  <2>1. PICK g \in Flush : g = flushing[d]
    BY <1>1
  <2>2. FlushCoherent(g)
    BY <2>1 DEF IInv
  <2>3. FlushCoherent(g)'
    BY <1>1, <2>2, FlushStays
  <2>4. flushing'[d] = f \/ flushing'[d] = g
    BY <1>1, <2>1
  <2>. QED BY <2>3, <2>4
<1>. QED BY <1>2, <1>3

LEMMA NoFlushes ==
  ASSUME closed \in Seq(Activities)
  PROVE  NoFlush \in Flush /\ FlushCoherent(NoFlush)
<1>1. <<>> \in Seq(Activities) /\ Len(<<>>) = 0
  OBVIOUS
<1>2. NoFlush \in Flush
  BY <1>1 DEF NoFlush, Flush
<1>3. NoFlush.todo = <<>> /\ NoFlush.pc = "idle"
  BY DEF NoFlush
<1>4. Orderly(<<>>)
  BY <1>1 DEF Orderly, Covered, Sessions
<1>. QED BY <1>2, <1>3, <1>4 DEF FlushCoherent

\* A flush begins with the queue, which is in order.
LEMMA FlushedStays ==
  ASSUME IInv, Grows, NEW c \in Collectors, NEW b \in BOOLEAN,
         queue' \in Seq(Activities), Orderly(queue)', flushing' = Flushed(c, b)
  PROVE  /\ flushing' \in [Collectors -> Flush]
         /\ \A d \in Collectors : FlushCoherent(flushing[d])'
<1>. DEFINE f == [pc |-> "sent", todo |-> queue', chained |-> b]
<1>1. CASE flushing' = flushing
  <2>1. flushing \in [Collectors -> Flush]
    BY DEF IInv, TypeOK
  <2>2. flushing[c] \in Flush /\ flushing' = [flushing EXCEPT ![c] = flushing[c]]
    BY <1>1, <2>1
  <2>3. FlushCoherent(flushing[c])
    BY DEF IInv
  <2>4. PICK g \in Flush : g = flushing[c]
    BY <2>2
  <2>5. FlushCoherent(g)'
    BY <2>3, <2>4, FlushStays DEF IInv
  <2>. QED BY <2>2, <2>4, <2>5, FlushesStay
<1>2. CASE flushing' # flushing
  <2>1. queue' # <<>> /\ flushing' = [flushing EXCEPT ![c] = f]
    BY <1>2 DEF Flushed
  <2>2. f \in Flush /\ f.pc = "sent" /\ f.todo = queue'
    BY DEF Flush
  <2>3. PICK g \in Flush : g = f
    BY <2>2
  <2>4. FlushCoherent(g)'
    BY <2>1, <2>2, <2>3 DEF FlushCoherent
  <2>. HIDE DEF f
  <2>. QED BY <2>1, <2>3, <2>4, FlushesStay
<1>. QED BY <1>1, <1>2

-----------------------------------------------------------------------------
(* The steps.                                                              *)

\* A step that leaves the sessions and the flushes alone
LEMMA QuietStep ==
  ASSUME IInv, TypeOK', CurrentFresh', UNCHANGED <<flushing, queue, closed, dropped, stored>>
  PROVE  IInv'
<1>1. \A c \in Collectors : FlushCoherent(flushing[c])'
  BY DEF IInv, FlushCoherent, Orderly, Covered
<1>2. Orderly(queue)' /\ NothingLost' /\ NoGap' /\ stored' \subseteq Sessions(closed')
  BY DEF IInv, Orderly, Covered, NothingLost, NoGap
<1>. QED BY <1>1, <1>2 DEF IInv

\* A session goes to the end of the queue, or is dropped.
LEMMA EnqueueStep ==
  ASSUME IInv, NEW a \in Activities, a \notin Sessions(closed), Enqueue(a), stored' = stored
  PROVE  /\ closed' \in Seq(Activities) /\ dropped' \in SUBSET Activities
         /\ queue' \in Seq(Activities) /\ Len(queue') <= Capacity
         /\ closed' = Append(closed, a) /\ Grows /\ Orderly(queue)'
         /\ stored' \subseteq Sessions(closed') /\ NothingLost' /\ NoGap'
<1>1. /\ closed \in Seq(Activities) /\ Len(closed) \in Nat
      /\ queue \in Seq(Activities) /\ Len(queue) \in Nat /\ Len(queue) <= Capacity
      /\ dropped \in SUBSET Activities /\ Capacity \in Nat
  BY ActivityUploadsAssumption DEF IInv, TypeOK
<1>2. closed' = Append(closed, a)
  BY DEF Enqueue
<1>3. /\ closed' \in Seq(Activities) /\ Len(closed') = Len(closed) + 1
      /\ \A k \in 1 .. Len(closed) : closed'[k] = closed[k]
      /\ closed'[Len(closed) + 1] = a
      /\ Sessions(closed') = Sessions(closed) \cup {a}
  BY <1>1, <1>2, AppendOf
<1>4. \/ queue' = Append(queue, a) /\ dropped' = dropped /\ Len(queue) < Capacity
      \/ queue' = queue /\ dropped' = dropped \cup {a}
  BY DEF Enqueue
<1>5. Grows
  BY <1>2, <1>4 DEF Grows
<1>6. stored' \subseteq Sessions(closed')
  BY <1>3 DEF IInv
<1>7. /\ dropped' \in SUBSET Activities
      /\ queue' \in Seq(Activities) /\ Len(queue') <= Capacity
      /\ Sessions(queue) \subseteq Sessions(queue')
      /\ a \in dropped' \cup Sessions(queue')
  <2>1. CASE queue' = queue
    BY <1>1, <1>4, <2>1, AppendOf
  <2>2. CASE queue' = Append(queue, a) /\ dropped' = dropped /\ Len(queue) < Capacity
    BY <1>1, <2>2, AppendOf
  <2>. QED BY <1>4, <2>1, <2>2
<1>8. \A i \in 1 .. Len(closed) : closed[i] \in stored \cup dropped \cup Sessions(queue)
  BY <1>1, SessionsAreElements DEF IInv, NothingLost
<1>9. NothingLost'
  <2>1. ToSet(queue') = Sessions(queue')
    BY <1>7, SessionsAreElements
  <2>2. ASSUME NEW i \in 1 .. Len(closed')
        PROVE  closed'[i] \in stored' \cup dropped' \cup Sessions(queue')
    <3>1. CASE i = Len(closed) + 1
      BY <1>3, <1>7, <3>1
    <3>2. CASE i \in 1 .. Len(closed)
      BY <1>3, <1>4, <1>7, <1>8, <3>2
    <3>. QED BY <1>1, <1>3, <3>1, <3>2
  <2>. QED BY <2>1, <2>2 DEF NothingLost
<1>10. NoGap'
  <2>. SUFFICES ASSUME NEW i \in 1 .. Len(closed'), NEW j \in 1 .. Len(closed'),
                       i < j, closed'[j] \in stored
                PROVE  closed'[i] \in stored \cup dropped'
    BY DEF NoGap
  <2>1. j # Len(closed) + 1
    BY <1>3 DEF IInv
  <2>2. i \in 1 .. Len(closed) /\ j \in 1 .. Len(closed)
    BY <1>1, <1>3, <2>1
  <2>. QED BY <1>3, <1>4, <2>2 DEF IInv, NoGap
<1>11. Orderly(queue)'
  <2>1. Orderly(queue)
    BY DEF IInv
  <2>2. PICK q \in Seq(Activities) : q = queue
    BY <1>1
  <2>3. Orderly(q)'
    BY <1>5, <2>1, <2>2, OrderlyStays DEF IInv
  <2>4. CASE queue' = queue
    BY <2>2, <2>3, <2>4
  <2>5. CASE queue' = Append(queue, a) /\ dropped' = dropped
    <3>1. /\ Len(queue') = Len(queue) + 1
          /\ \A k \in 1 .. Len(queue) : queue'[k] = queue[k]
          /\ queue'[Len(queue) + 1] = a
          /\ Sessions(queue') = Sessions(queue) \cup {a}
      BY <1>1, <2>5, AppendOf
    <3>2. Sessions(queue') \subseteq Sessions(closed')
      BY <1>3, <2>1, <3>1 DEF Orderly
    <3>3. ASSUME NEW k \in 1 .. Len(queue'), NEW j \in 1 .. Len(closed'),
                 closed'[j] = queue'[k], NEW i \in 1 .. j - 1
          PROVE  \/ closed'[i] \in stored' \cup dropped'
                 \/ \E m \in 1 .. k - 1 : queue'[m] = closed'[i]
      <4>1. CASE k \in 1 .. Len(queue)
        <5>1. q[k] = queue'[k] /\ \A m \in 1 .. k - 1 : q[m] = queue'[m]
          BY <1>1, <2>2, <3>1, <4>1
        <5>. QED BY <2>2, <2>3, <3>3, <4>1, <5>1 DEF Orderly, Covered
      <4>2. CASE k = Len(queue) + 1
        <5>1. closed'[j] = a
          BY <3>1, <3>3, <4>2
        <5>2. j = Len(closed) + 1
          <6>1. CASE j \in 1 .. Len(closed)
            <7>1. closed'[j] = closed[j] /\ closed[j] \in Sessions(closed)
              BY <1>3, <6>1 DEF Sessions
            <7>. QED BY <1>3, <5>1, <7>1
          <6>. QED BY <1>1, <1>3, <3>3, <6>1
        <5>3. i \in 1 .. Len(closed)
          BY <1>1, <5>2
        <5>4. closed'[i] \in stored \cup dropped \/ closed'[i] \in Sessions(queue)
          BY <1>3, <1>8, <5>3
        <5>5. CASE closed'[i] \in Sessions(queue)
          <6>1. PICK m \in 1 .. Len(queue) : queue[m] = closed'[i]
            BY <5>5 DEF Sessions
          <6>. QED BY <1>1, <3>1, <4>2, <6>1
        <5>. QED BY <2>5, <5>4, <5>5
      <4>. QED BY <1>1, <3>1, <4>1, <4>2
    <3>. QED BY <3>2, <3>3 DEF Orderly, Covered
  <2>. QED BY <1>4, <2>4, <2>5
<1>. QED BY <1>2, <1>3, <1>5, <1>6, <1>7, <1>9, <1>10, <1>11

LEMMA SampleStep ==
  ASSUME IInv, NEW c \in Collectors, Sample(c)
  PROVE  IInv'
<1>. DEFINE new == CHOOSE a \in Activities : source[a] = None
<1>1. new \in Activities /\ source[new] = None
  BY DEF Sample
<1>2. /\ source' = [source EXCEPT ![new] = running[c]]
      /\ current' = [current EXCEPT ![c] = new]
      /\ running[c] # None
      /\ UNCHANGED <<device, user, running, flushing, queue, closed, dropped, stored>>
  BY DEF Sample
<1>. HIDE DEF new
<1>3. /\ current \in [Collectors -> Activities \cup {None}]
      /\ source \in [Activities -> Devices \cup {None}] /\ running[c] \in Devices
  BY <1>2 DEF IInv, TypeOK
<1>4. TypeOK'
  BY <1>1, <1>2, <1>3 DEF IInv, TypeOK
<1>5. closed' = closed /\ Sessions(closed) \subseteq Activities
  BY <1>2, SessionsAreElements DEF IInv, TypeOK
<1>6. \A a \in Sessions(closed) : a # new /\ source'[a] # None
  BY <1>1, <1>2, <1>3, <1>5 DEF IInv, CurrentFresh
<1>7. ASSUME NEW d \in Collectors, current'[d] # None
      PROVE  /\ source'[current'[d]] # None
             /\ current'[d] \notin Sessions(closed)
             /\ \A e \in Collectors : current'[e] = current'[d] => e = d
  <2>1. \A e \in Collectors : e # c => current'[e] = current[e]
    BY <1>2, <1>3
  <2>2. current'[c] = new
    BY <1>2, <1>3
  <2>3. running[c] # None
    BY <1>2
  <2>4. \A e \in Collectors : current[e] # new
    BY <1>1, ActivityUploadsAssumption DEF IInv, CurrentFresh
  <2>5. CASE d = c
    BY <1>1, <1>2, <1>3, <1>6, <2>1, <2>2, <2>4, <2>5
  <2>6. CASE d # c
    <3>1. current'[d] = current[d] /\ current[d] \in Activities /\ current[d] # new
      BY <1>3, <1>7, <2>1, <2>4, <2>6
    <3>2. source'[current[d]] = source[current[d]]
      BY <1>2, <1>3, <3>1
    <3>. QED BY <1>7, <2>1, <2>2, <3>1, <3>2 DEF IInv, CurrentFresh
  <2>. QED BY <2>5, <2>6
<1>8. CurrentFresh'
  BY <1>5, <1>6, <1>7 DEF CurrentFresh
<1>. QED BY <1>2, <1>4, <1>8, QuietStep

LEMMA UnchangedGrows ==
  ASSUME UNCHANGED <<closed, dropped, stored>>
  PROVE  Grows
BY DEF Grows

\* A collector closes what it has open, and flushes.
LEMMA CloseStep ==
  ASSUME IInv, NEW c \in Collectors, running' \in [Collectors -> Devices \cup {None}],
         IF current[c] # None THEN Enqueue(current[c]) ELSE UNCHANGED <<queue, closed, dropped>>,
         current' = [current EXCEPT ![c] = None], flushing' = Flushed(c, TRUE),
         UNCHANGED <<device, user, source, stored>>
  PROVE  IInv'
<1>. DEFINE a == current[c]
<1>1. /\ current \in [Collectors -> Activities \cup {None}]
      /\ queue \in Seq(Activities) /\ closed \in Seq(Activities)
  BY DEF IInv, TypeOK
<1>2. /\ closed' \in Seq(Activities) /\ dropped' \in SUBSET Activities
      /\ queue' \in Seq(Activities) /\ Len(queue') <= Capacity
      /\ Grows /\ Orderly(queue)' /\ stored' \subseteq Sessions(closed') /\ NothingLost' /\ NoGap'
      /\ Sessions(closed') \subseteq Sessions(closed) \cup ({a} \ {None})
  <2>1. CASE a # None
    <3>1. a \in Activities /\ a \notin Sessions(closed) /\ Enqueue(a)
      BY <1>1, <2>1 DEF IInv, CurrentFresh
    <3>. HIDE DEF a
    <3>2. /\ closed' \in Seq(Activities) /\ dropped' \in SUBSET Activities
          /\ queue' \in Seq(Activities) /\ Len(queue') <= Capacity
          /\ closed' = Append(closed, a) /\ Grows /\ Orderly(queue)'
          /\ stored' \subseteq Sessions(closed') /\ NothingLost' /\ NoGap'
      BY <3>1, EnqueueStep
    <3>3. Sessions(closed') = Sessions(closed) \cup {a}
      BY <1>1, <3>1, <3>2, AppendOf
    <3>. QED BY <2>1, <3>2, <3>3
  <2>2. CASE a = None
    <3>1. UNCHANGED <<queue, closed, dropped, stored>>
      BY <2>2
    <3>2. Orderly(queue)' /\ NothingLost' /\ NoGap' /\ stored' \subseteq Sessions(closed')
      BY <3>1 DEF IInv, Orderly, Covered, NothingLost, NoGap
    <3>. QED BY <3>1, <3>2, UnchangedGrows DEF IInv, TypeOK
  <2>. QED BY <2>1, <2>2
<1>3. flushing' \in [Collectors -> Flush] /\ \A d \in Collectors : FlushCoherent(flushing[d])'
  BY <1>2, FlushedStays
<1>4. TypeOK'
  BY <1>1, <1>2, <1>3 DEF IInv, TypeOK
<1>5. \A d \in Collectors : current'[d] # None => d # c /\ current'[d] = current[d] /\ current[d] # a
  BY <1>1 DEF IInv, CurrentFresh
<1>6. \A x \in Sessions(closed') : source'[x] # None
  BY <1>2 DEF IInv, CurrentFresh
<1>7. CurrentFresh'
  BY <1>2, <1>5, <1>6 DEF IInv, CurrentFresh
<1>. QED BY <1>2, <1>3, <1>4, <1>7 DEF IInv

\* A collector begins, or one flushes, and nothing is closed.
LEMMA BeginStep ==
  ASSUME IInv, NEW c \in Collectors, Start(c) \/ Reflush(c)
  PROVE  IInv'
<1>1. /\ UNCHANGED <<user, current, source, queue, closed, dropped, stored>>
      /\ \E b \in BOOLEAN : flushing' = Flushed(c, b)
  BY DEF Start, Reflush
<1>2. /\ queue' \in Seq(Activities) /\ Orderly(queue)' /\ Grows
      /\ CurrentFresh' /\ NothingLost' /\ NoGap' /\ stored' \subseteq Sessions(closed')
  BY <1>1, UnchangedGrows
     DEF IInv, TypeOK, Orderly, Covered, NothingLost, NoGap, CurrentFresh
<1>3. flushing' \in [Collectors -> Flush] /\ \A d \in Collectors : FlushCoherent(flushing[d])'
  BY <1>1, <1>2, FlushedStays
<1>4. /\ running' \in [Collectors -> Devices \cup {None}]
      /\ device' \in [Devices -> [owner : Employees \cup {None}, status : Statuses]]
  <2>1. CASE Reflush(c)
    BY <2>1 DEF Reflush, IInv, TypeOK
  <2>2. CASE Start(c)
    <3>1. PICK d \in Devices : Registered(d) /\ running' = [running EXCEPT ![c] = d]
      BY <2>2 DEF Start
    <3>2. \/ device' = device
          \/ device' = [device EXCEPT ![d].status = "ACTIVE"]
          \/ device' = [device EXCEPT ![d] = [owner |-> user, status |-> "ACTIVE"]]
      BY <3>1 DEF Registered
    <3>3. /\ device \in [Devices -> [owner : Employees \cup {None}, status : Statuses]]
          /\ user \in Employees /\ running \in [Collectors -> Devices \cup {None}]
          /\ "ACTIVE" \in Statuses
      BY DEF IInv, TypeOK, Statuses
    <3>4. running' \in [Collectors -> Devices \cup {None}]
      BY <3>1, <3>3
    <3>5. device' \in [Devices -> [owner : Employees \cup {None}, status : Statuses]]
      BY <3>2, <3>3
    <3>. QED BY <3>4, <3>5
  <2>. QED BY <2>1, <2>2
<1>5. TypeOK'
  BY <1>1, <1>3, <1>4 DEF IInv, TypeOK
<1>. QED BY <1>2, <1>3, <1>5 DEF IInv

LEMMA CrashStep ==
  ASSUME IInv, Crash
  PROVE  IInv'
<1>1. /\ UNCHANGED <<device, user, queue, source, closed, dropped, stored>>
      /\ running' = [c \in Collectors |-> None] /\ current' = [c \in Collectors |-> None]
      /\ flushing' = [c \in Collectors |-> NoFlush]
  BY DEF Crash
<1>2. closed \in Seq(Activities) /\ closed' \in Seq(Activities)
  BY <1>1 DEF IInv, TypeOK
<1>3. NoFlush \in Flush
  BY <1>2, NoFlushes
<1>4. FlushCoherent(NoFlush)'
  BY <1>1, <1>2, NoFlushes, FlushStays, UnchangedGrows DEF IInv
<1>5. TypeOK'
  BY <1>1, <1>3 DEF IInv, TypeOK
<1>6. CurrentFresh' /\ Orderly(queue)' /\ NothingLost' /\ NoGap' /\ stored' \subseteq Sessions(closed')
  BY <1>1 DEF IInv, CurrentFresh, Orderly, Covered, NothingLost, NoGap
<1>7. \A c \in Collectors : flushing'[c] = NoFlush
  BY <1>1
<1>8. \A c \in Collectors : FlushCoherent(flushing[c])'
  BY <1>4, <1>7 DEF FlushCoherent, Orderly, Covered
<1>. QED BY <1>5, <1>6, <1>8 DEF IInv

-----------------------------------------------------------------------------
(* The uploads.                                                            *)

LEMMA AnswerIs ==
  ASSUME TypeOK, NEW c \in Collectors,
         NEW p \in {"idle", "sent", "stored", "duplicate", "failed"}, Answer(c, p)
  PROVE  \E f \in Flush : /\ f.pc = p /\ f.todo = flushing[c].todo
                          /\ flushing' = [flushing EXCEPT ![c] = f]
<1>. DEFINE f == [flushing[c] EXCEPT !.pc = p]
<1>1. flushing \in [Collectors -> Flush]
  BY DEF TypeOK
<1>2. flushing[c] \in Flush
  BY <1>1
<1>3. f \in Flush /\ f.pc = p /\ f.todo = flushing[c].todo
  BY <1>2 DEF Flush
<1>4. flushing' = [flushing EXCEPT ![c] = f]
  BY <1>1 DEF Answer
<1>. QED BY <1>3, <1>4

\* What is sent is closed, and what was closed before it is done with.
LEMMA FirstIsCovered ==
  ASSUME IInv, NEW c \in Collectors, flushing[c].pc # "idle"
  PROVE  LET a == Uploading(c)
         IN  /\ a \in Activities /\ a \in Sessions(closed)
             /\ \A i, j \in 1 .. Len(closed) :
                  i < j /\ closed[j] = a => closed[i] \in stored \cup dropped
<1>1. /\ flushing[c] \in Flush /\ FlushCoherent(flushing[c])
      /\ closed \in Seq(Activities) /\ Len(closed) \in Nat
  BY DEF IInv, TypeOK
<1>2. PICK q \in Seq(Activities) : q = flushing[c].todo
  BY <1>1 DEF Flush
<1>3. q # <<>> /\ Orderly(q)
  BY <1>1, <1>2 DEF FlushCoherent
<1>4. Head(q) = q[1] /\ Len(q) >= 1 /\ Head(q) \in Sessions(q) /\ Len(q) \in Nat
  BY <1>3, SessionsOfTail
<1>5. Head(q) \in Activities /\ Head(q) \in Sessions(closed)
  BY <1>3, <1>4, SessionsAreElements DEF Orderly
<1>6. ASSUME NEW i \in 1 .. Len(closed), NEW j \in 1 .. Len(closed), i < j, closed[j] = q[1]
      PROVE  closed[i] \in stored \cup dropped
  <2>1. 1 \in 1 .. Len(q) /\ i \in 1 .. j - 1
    BY <1>4, <1>6
  <2>2. closed[i] \in stored \cup dropped \/ \E m \in 1 .. 1 - 1 : q[m] = closed[i]
    BY <1>3, <1>6, <2>1 DEF Orderly, Covered
  <2>. QED BY <2>2
<1>. QED BY <1>2, <1>4, <1>5, <1>6 DEF Uploading

\* The queue and the closed sessions stay, and a flush changes.
LEMMA AnswerStep ==
  ASSUME IInv, NEW c \in Collectors, NEW f \in Flush, FlushCoherent(f)',
         flushing' = [flushing EXCEPT ![c] = f],
         UNCHANGED <<device, user, running, current, queue, source, closed, dropped>>,
         \/ stored' = stored
         \/ flushing[c].pc # "idle" /\ stored' = stored \cup {Uploading(c)}
  PROVE  IInv'
<1>1. /\ queue \in Seq(Activities) /\ closed \in Seq(Activities) /\ TypeOK
      /\ Orderly(queue) /\ stored \subseteq Activities
  BY DEF IInv, TypeOK
<1>2. Grows
  BY DEF Grows
<1>3. PICK q \in Seq(Activities) : q = queue
  BY <1>1
<1>4. Orderly(queue)'
  BY <1>1, <1>2, <1>3, OrderlyStays
<1>5. flushing' \in [Collectors -> Flush] /\ \A d \in Collectors : FlushCoherent(flushing[d])'
  BY <1>2, FlushesStay
<1>6. /\ stored' \subseteq Sessions(closed') /\ stored' \subseteq Activities
      /\ NothingLost' /\ NoGap'
  <2>1. CASE stored' = stored
    BY <1>1, <2>1 DEF IInv, NothingLost, NoGap
  <2>2. CASE flushing[c].pc # "idle" /\ stored' = stored \cup {Uploading(c)}
    <3>1. /\ Uploading(c) \in Activities /\ Uploading(c) \in Sessions(closed)
          /\ \A i, j \in 1 .. Len(closed) :
               i < j /\ closed[j] = Uploading(c) => closed[i] \in stored \cup dropped
      BY <2>2, FirstIsCovered
    <3>2. NoGap'
      BY <2>2, <3>1 DEF IInv, NoGap
    <3>. QED BY <1>1, <2>2, <3>1, <3>2 DEF IInv, NothingLost
  <2>. QED BY <2>1, <2>2
<1>7. TypeOK'
  BY <1>1, <1>5, <1>6 DEF TypeOK
<1>8. CurrentFresh'
  BY DEF IInv, CurrentFresh
<1>. QED BY <1>4, <1>5, <1>6, <1>7, <1>8 DEF IInv

LEMMA UploadActivityStep ==
  ASSUME IInv, NEW c \in Collectors, UploadActivity(c)
  PROVE  IInv'
<1>1. /\ flushing[c].pc = "sent" /\ flushing[c].pc # "idle"
      /\ UNCHANGED <<device, user, running, current, queue, source, closed, dropped>>
  BY DEF UploadActivity
<1>2. PICK p \in {"stored", "duplicate", "failed"} :
        /\ Answer(c, p)
        /\ \/ stored' = stored /\ p = "failed"
           \/ stored' = stored \cup {Uploading(c)}
  BY DEF UploadActivity
<1>3. TypeOK /\ FlushCoherent(flushing[c])
  BY DEF IInv
<1>4. PICK f \in Flush : /\ f.pc = p /\ f.todo = flushing[c].todo
                         /\ flushing' = [flushing EXCEPT ![c] = f]
  BY <1>2, <1>3, AnswerIs
<1>5. FlushCoherent(f)'
  <2>1. PICK q \in Seq(Activities) : q = f.todo
    BY DEF Flush
  <2>2. Orderly(q) /\ q # <<>>
    BY <1>1, <1>3, <1>4, <2>1 DEF FlushCoherent
  <2>3. Orderly(q)'
    BY <1>1, <1>2, <1>3, <2>2, OrderlyStays DEF Grows
  <2>4. f.pc \in {"stored", "duplicate"} => Head(f.todo) \in stored'
    BY <1>2, <1>4 DEF Uploading
  <2>. QED BY <1>4, <2>1, <2>2, <2>3, <2>4 DEF FlushCoherent
<1>. QED BY <1>1, <1>2, <1>4, <1>5, AnswerStep

\* A flush has failed, or ends because it has.
LEMMA FailureStep ==
  ASSUME IInv, NEW c \in Collectors, UploadFails(c) \/ UploadBreaks(c)
  PROVE  IInv'
<1>1. UNCHANGED <<device, user, running, current, queue, source, closed, dropped, stored>>
  BY DEF UploadFails, UploadBreaks
<1>2. TypeOK /\ FlushCoherent(flushing[c]) /\ Grows /\ closed \in Seq(Activities)
  BY <1>1, UnchangedGrows DEF IInv, TypeOK
<1>3. CASE UploadFails(c)
  <2>1. Answer(c, "failed") /\ flushing[c].pc # "idle"
    BY <1>3 DEF UploadFails
  <2>2. PICK f \in Flush : /\ f.pc = "failed" /\ f.todo = flushing[c].todo
                           /\ flushing' = [flushing EXCEPT ![c] = f]
    BY <1>2, <2>1, AnswerIs
  <2>3. FlushCoherent(f)
    BY <1>2, <2>1, <2>2 DEF FlushCoherent
  <2>4. FlushCoherent(f)'
    BY <1>2, <2>3, FlushStays
  <2>. QED BY <1>1, <2>2, <2>4, AnswerStep
<1>4. CASE UploadBreaks(c)
  <2>1. flushing' = [flushing EXCEPT ![c] = NoFlush]
    BY <1>4 DEF UploadBreaks, AfterFailure
  <2>2. NoFlush \in Flush /\ FlushCoherent(NoFlush)
    BY <1>2, NoFlushes
  <2>3. FlushCoherent(NoFlush)'
    BY <1>2, <2>2, FlushStays
  <2>. QED BY <1>1, <2>1, <2>2, <2>3, AnswerStep
<1>. QED BY <1>3, <1>4

\* What is stored may be taken out of an orderly sequence, wherever it is.
LEMMA WithoutStored ==
  ASSUME closed \in Seq(Activities), NEW q \in Seq(Activities), Orderly(q),
         NEW i \in 1 .. Len(q), q[i] \in stored,
         NEW r \in Seq(Activities), Len(r) = Len(q) - 1,
         \A k \in 1 .. Len(q) - 1 : r[k] = IF k < i THEN q[k] ELSE q[k + 1]
  PROVE  Orderly(r) /\ Sessions(q) \subseteq Sessions(r) \cup stored
<1>1. Len(q) \in Nat /\ Len(closed) \in Nat
  OBVIOUS
<1>2. ASSUME NEW m \in 1 .. Len(q), m # i
      PROVE  LET n == IF m < i THEN m ELSE m - 1 IN n \in 1 .. Len(r) /\ r[n] = q[m]
  <2>1. CASE m < i
    BY <1>1, <2>1
  <2>2. CASE ~ (m < i)
    <3>1. m - 1 \in 1 .. Len(q) - 1 /\ ~ (m - 1 < i)
      BY <1>1, <1>2, <2>2
    <3>2. r[m - 1] = q[m]
      BY <1>1, <3>1
    <3>. QED BY <2>2, <3>1, <3>2
  <2>. QED BY <2>1, <2>2
<1>3. Sessions(q) \subseteq Sessions(r) \cup stored
  BY <1>2 DEF Sessions
<1>4. Sessions(r) \subseteq Sessions(q)
  <2>1. ASSUME NEW k \in 1 .. Len(r)
        PROVE  r[k] \in Sessions(q)
    <3>1. /\ (IF k < i THEN k ELSE k + 1) \in 1 .. Len(q)
          /\ r[k] = q[IF k < i THEN k ELSE k + 1]
      BY <1>1, <2>1
    <3>. QED BY <3>1 DEF Sessions
  <2>. QED BY <2>1 DEF Sessions
<1>5. ASSUME NEW k \in 1 .. Len(r), NEW j \in 1 .. Len(closed), closed[j] = r[k],
             NEW h \in 1 .. j - 1, closed[h] \notin stored \cup dropped
      PROVE  \E m \in 1 .. k - 1 : r[m] = closed[h]
  <2>. DEFINE l == IF k < i THEN k ELSE k + 1
  <2>1. l \in 1 .. Len(q) /\ r[k] = q[l]
    BY <1>1
  <2>2. PICK m \in 1 .. l - 1 : q[m] = closed[h]
    BY <1>5, <2>1 DEF Orderly, Covered
  <2>3. m \in 1 .. Len(q) /\ m # i
    BY <1>1, <1>5, <2>1, <2>2
  <2>. DEFINE n == IF m < i THEN m ELSE m - 1
  <2>4. n \in 1 .. Len(r) /\ r[n] = q[m]
    BY <1>2, <2>3
  <2>5. n \in 1 .. k - 1
    BY <1>1, <2>1, <2>2, <2>3, <2>4
  <2>. QED BY <2>2, <2>4, <2>5
<1>. QED BY <1>3, <1>4, <1>5 DEF Orderly, Covered

LEMMA NextUploadCoherent ==
  ASSUME IInv, NEW c \in Collectors, Removable(c)
  PROVE  NextUpload(c) \in Flush /\ FlushCoherent(NextUpload(c))
<1>1. /\ flushing[c] \in Flush /\ FlushCoherent(flushing[c])
      /\ closed \in Seq(Activities)
  BY DEF IInv, TypeOK
<1>2. PICK q \in Seq(Activities) : q = flushing[c].todo
  BY <1>1 DEF Flush
<1>3. q # <<>> /\ Orderly(q) /\ Head(q) \in stored
  BY <1>1, <1>2 DEF FlushCoherent, Removable
<1>4. /\ Len(q) \in Nat /\ Head(q) = q[1] /\ Len(q) >= 1
      /\ Tail(q) = <<>> <=> Len(q) = 1
  BY <1>3, SessionsOfTail
<1>5. /\ Tail(q) \in Seq(Activities) /\ Len(Tail(q)) = Len(q) - 1
      /\ \A k \in 1 .. Len(Tail(q)) : Tail(q)[k] = q[k + 1]
  BY <1>3, HeadTailProperties
<1>6. CASE Len(q) = 1
  BY <1>1, <1>2, <1>6, NoFlushes DEF NextUpload
<1>7. CASE Len(q) # 1
  <2>. DEFINE f == [flushing[c] EXCEPT !.pc = "sent", !.todo = Tail(flushing[c].todo)]
  <2>1. NextUpload(c) = f
    BY <1>2, <1>7 DEF NextUpload
  <2>2. f \in Flush /\ f.pc = "sent" /\ f.todo = Tail(q)
    BY <1>1, <1>2, <1>5 DEF Flush
  <2>3. 1 \in 1 .. Len(q) /\ \A k \in 1 .. Len(q) - 1 : Tail(q)[k] = IF k < 1 THEN q[k] ELSE q[k + 1]
    BY <1>4, <1>5
  <2>4. Orderly(Tail(q))
    BY <1>1, <1>3, <1>4, <1>5, <2>3, WithoutStored
  <2>. HIDE DEF f
  <2>. QED BY <1>4, <1>7, <2>1, <2>2, <2>4 DEF FlushCoherent
<1>. QED BY <1>6, <1>7

LEMMA UploadDoneStep ==
  ASSUME IInv, NEW c \in Collectors, UploadDone(c)
  PROVE  IInv'
<1>. DEFINE a == Uploading(c)
<1>1. /\ UNCHANGED <<device, user, running, current, source, closed, dropped, stored>>
      /\ Removable(c) /\ queue' = RemoveFirst(queue, a)
      /\ flushing' = [flushing EXCEPT ![c] = NextUpload(c)]
  BY DEF UploadDone
<1>2. /\ TypeOK /\ FlushCoherent(flushing[c]) /\ Grows /\ closed \in Seq(Activities)
      /\ queue \in Seq(Activities) /\ Len(queue) \in Nat /\ Len(queue) <= Capacity
      /\ Orderly(queue) /\ NothingLost /\ Capacity \in Nat
  BY <1>1, UnchangedGrows, ActivityUploadsAssumption DEF IInv, TypeOK
<1>3. a \in stored
  BY <1>1, <1>2 DEF FlushCoherent, Removable, Uploading
<1>4. NextUpload(c) \in Flush /\ FlushCoherent(NextUpload(c))
  BY <1>1, NextUploadCoherent
<1>5. PICK f \in Flush : f = NextUpload(c) /\ FlushCoherent(f)
  BY <1>4
<1>6. FlushCoherent(f)'
  BY <1>2, <1>5, FlushStays
<1>7. flushing' \in [Collectors -> Flush] /\ \A d \in Collectors : FlushCoherent(flushing[d])'
  BY <1>1, <1>2, <1>5, <1>6, FlushesStay
<1>8. PICK q \in Seq(Activities) : q = queue
  BY <1>2
<1>9. \E r \in Seq(Activities) : /\ r = queue' /\ Len(r) <= Len(q) /\ Orderly(r)
                                 /\ Sessions(q) \subseteq Sessions(r) \cup stored
  <2>. HIDE DEF a
  <2>1. CASE queue' = q
    BY <1>2, <1>8, <2>1
  <2>2. CASE \E i \in 1 .. Len(q) : q[i] = a /\ queue' = RemoveAt(q, i)
    <3>1. PICK i \in 1 .. Len(q) : q[i] = a /\ queue' = RemoveAt(q, i)
      BY <2>2
    <3>2. PICK r : r = RemoveAt(q, i)
      OBVIOUS
    <3>3. /\ r \in Seq(Activities) /\ Len(r) = Len(q) - 1
          /\ \A k \in 1 .. Len(q) - 1 : r[k] = IF k < i THEN q[k] ELSE q[k + 1]
      BY <3>2, RemoveAtOf
    <3>4. Orderly(r) /\ Sessions(q) \subseteq Sessions(r) \cup stored
      BY <1>2, <1>3, <1>8, <3>1, <3>3, WithoutStored
    <3>. QED BY <1>2, <1>8, <3>1, <3>2, <3>3, <3>4
  <2>. QED BY <1>1, <1>8, <2>1, <2>2, RemoveFirstOf
<1>10. PICK r \in Seq(Activities) : /\ r = queue' /\ Len(r) <= Len(q) /\ Orderly(r)
                                    /\ Sessions(q) \subseteq Sessions(r) \cup stored
  BY <1>9
<1>11. Orderly(queue)'
  <2>1. Orderly(r)'
    BY <1>2, <1>10, OrderlyStays
  <2>. QED BY <1>10, <2>1
<1>12. TypeOK'
  <2>1. Len(queue') <= Capacity
    BY <1>2, <1>8, <1>10
  <2>. QED BY <1>1, <1>2, <1>7, <1>10, <2>1 DEF TypeOK
<1>13. NothingLost'
  <2>1. ToSet(queue) = Sessions(q) /\ ToSet(queue') = Sessions(r)
    BY <1>2, <1>8, <1>10, SessionsAreElements
  <2>. QED BY <1>1, <1>2, <1>10, <2>1 DEF NothingLost
<1>14. CurrentFresh' /\ NoGap' /\ stored' \subseteq Sessions(closed')
  BY <1>1 DEF IInv, CurrentFresh, NoGap
<1>. QED BY <1>7, <1>11, <1>12, <1>13, <1>14 DEF IInv

-----------------------------------------------------------------------------
(* Every step.                                                             *)

LEMMA DeviceStep ==
  ASSUME IInv, NEW d \in Devices,
         \/ UpdateDeviceMonitoring(d) \/ TrustDevice(d) \/ RevokeDevice(d)
         \/ ForceReregistration(d) \/ ReassignDevice(d)
  PROVE  IInv'
<1>. DEFINE Rows == [owner : Employees \cup {None}, status : Statuses]
<1>1. device[d] \in Rows /\ device \in [Devices -> Rows]
  BY DEF IInv, TypeOK
<1>2. \A s \in Statuses : [device[d] EXCEPT !.status = s] \in Rows
  BY <1>1
<1>3. \A e \in Employees : [device[d] EXCEPT !.owner = e] \in Rows
  BY <1>1
<1>4. {"ACTIVE", "INACTIVE", "TRUSTED", "REVOKED", "REREGISTRATION_REQUIRED"} \subseteq Statuses
  BY DEF Statuses
<1>5. PICK r \in Rows : SetDevice(d, r)
  <2>. HIDE DEF Rows
  <2>1. CASE ReassignDevice(d)
    BY <1>3, <2>1 DEF ReassignDevice
  <2>2. CASE UpdateDeviceMonitoring(d)
    BY <1>2, <1>4, <2>2 DEF UpdateDeviceMonitoring
  <2>3. CASE TrustDevice(d) \/ RevokeDevice(d) \/ ForceReregistration(d)
    BY <1>2, <1>4, <2>3 DEF TrustDevice, RevokeDevice, ForceReregistration
  <2>. QED BY <2>1, <2>2, <2>3
<1>6. device' = [device EXCEPT ![d] = r] /\ UNCHANGED <<user, agent, stored>>
  BY <1>5 DEF SetDevice
<1>7. device' \in [Devices -> Rows]
  BY <1>1, <1>6
<1>8. UNCHANGED <<user, running, current, flushing, queue, source, closed, dropped, stored>>
  BY <1>6 DEF agent
<1>9. TypeOK' /\ CurrentFresh'
  BY <1>7, <1>8 DEF IInv, TypeOK, CurrentFresh
<1>. QED BY <1>8, <1>9, QuietStep

LEMMA UserStep ==
  ASSUME IInv, ChangeUser \/ UNCHANGED vars
  PROVE  IInv'
<1>1. /\ UNCHANGED <<device, running, current, flushing, queue, source, closed, dropped, stored>>
      /\ user' \in Employees
  BY DEF ChangeUser, agent, vars, IInv, TypeOK
<1>2. TypeOK' /\ CurrentFresh'
  BY <1>1 DEF IInv, TypeOK, CurrentFresh
<1>. QED BY <1>1, <1>2, QuietStep

LEMMA Initially ==
  ASSUME Init
  PROVE  IInv
<1>1. <<>> \in Seq(Activities) /\ Len(<<>>) = 0
  OBVIOUS
<1>2. NoFlush \in Flush /\ FlushCoherent(NoFlush)
  BY <1>1, NoFlushes DEF Init
<1>3. TypeOK
  BY <1>1, <1>2, ActivityUploadsAssumption DEF Init, TypeOK, Statuses
<1>4. \A c \in Collectors : FlushCoherent(flushing[c])
  BY <1>2 DEF Init
<1>5. /\ stored \subseteq Sessions(closed) /\ CurrentFresh /\ Orderly(queue)
      /\ NothingLost /\ NoGap
  BY <1>1 DEF Init, CurrentFresh, Orderly, Covered, Sessions, NothingLost, NoGap
<1>. QED BY <1>3, <1>4, <1>5 DEF IInv

LEMMA EveryStep ==
  ASSUME IInv, [Next]_vars
  PROVE  IInv'
<1>1. CASE DeviceNext
  BY <1>1, DeviceStep DEF DeviceNext
<1>2. CASE CollectorNext
  <2>1. ASSUME NEW c \in Collectors, Roll(c) \/ Stop(c)
        PROVE  IInv'
    <3>1. /\ IF current[c] # None THEN Enqueue(current[c]) ELSE UNCHANGED <<queue, closed, dropped>>
          /\ current' = [current EXCEPT ![c] = None] /\ flushing' = Flushed(c, TRUE)
          /\ UNCHANGED <<device, user, source, stored>>
      BY <2>1 DEF Roll, Stop
    <3>2. running' \in [Collectors -> Devices \cup {None}]
      BY <2>1 DEF Roll, Stop, IInv, TypeOK
    <3>. QED BY <3>1, <3>2, CloseStep
  <2>. QED BY <1>2, <2>1, SampleStep, BeginStep, CrashStep, UserStep DEF CollectorNext
<1>3. CASE UploadNext
  BY <1>3, UploadActivityStep, UploadDoneStep, FailureStep DEF UploadNext
<1>4. CASE UNCHANGED vars
  BY <1>4, UserStep
<1>. QED BY <1>1, <1>2, <1>3, <1>4 DEF Next

-----------------------------------------------------------------------------
(* The theorems.                                                           *)

LEMMA Invariance == Spec => []IInv
BY Initially, EveryStep, PTL DEF Spec

\* Every variable has its type, and localStorage holds no more sessions than
\* write() keeps.
THEOREM TypeCorrect == Spec => []TypeOK
<1>1. IInv => TypeOK
  BY DEF IInv
<1>. QED BY <1>1, Invariance, PTL

\* Whatever closeOpenSession() has put into the queue is still there or at the
\* server, unless write() had no room for it: no order of flushes, lost answers,
\* restarts and new collectors loses a session.
THEOREM NothingIsLost == Spec => []NothingLost
<1>1. IInv => NothingLost
  BY DEF IInv
<1>. QED BY <1>1, Invariance, PTL

\* The server has a session only with all that were closed before it and fitted
\* into the queue, although every collector has a flush of its own over the one
\* queue.
THEOREM NoGapHolds == Spec => []NoGap
<1>1. IInv => NoGap
  BY DEF IInv
<1>. QED BY <1>1, Invariance, PTL
=============================================================================
