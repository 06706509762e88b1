--------------------------- MODULE MonitorProofs ---------------------------
(***************************************************************************)
(* Proofs about the monitor, for any number of requests and objects and    *)
(* any waiting times.                                                      *)
(***************************************************************************)
EXTENDS Monitor, TLAPS

\* The entries of the queues are the requests that called Enter for that
\* object and have neither left nor given up, ...
QueueEntries ==
  \A o \in Objects : \A i \in 1..Len(waitings[o]) :
    pc[waitings[o][i]] \in Queued /\ object[waitings[o][i]] = o

\* ... each of them once, ...
NoDuplicates ==
  \A o \in Objects : \A i, j \in 1..Len(waitings[o]) :
    waitings[o][i] = waitings[o][j] => i = j

\* ... and each such request is in the queue of its object ...
QueuedIsInQueue ==
  \A r \in Requests : pc[r] \in Queued =>
    \E i \in 1..Len(waitings[object[r]]) : waitings[object[r]][i] = r

\* ... first, when it is in service.
ServiceIsFirst ==
  \A r \in Requests : pc[r] = "service" => Attest(object[r], r)

MonitorInv ==
  TypeOK /\ QueueEntries /\ NoDuplicates /\ QueuedIsInQueue /\ ServiceIsFirst
-----------------------------------------------------------------------------
\* slices.Delete gives a queue that is one shorter, whose entries are those
\* before the place deleted and, shifted, those after it.
LEMMA DeleteProperties ==
  ASSUME NEW S, NEW q \in Seq(S), NEW i \in 1..Len(q)
  PROVE  /\ Delete(q, i) \in Seq(S)
         /\ Len(Delete(q, i)) = Len(q) - 1
         /\ \A j \in 1..(Len(q) - 1) :
              Delete(q, i)[j] = IF j < i THEN q[j] ELSE q[j + 1]
  BY DEF Delete

\* The specification keeps every variable in its type.
THEOREM TypeCorrect == Spec => []TypeOK
<1>1. Init => TypeOK
  BY MonitorAssumption DEF Init, TypeOK, PC
<1>2. TypeOK /\ [Next]_vars => TypeOK'
  <2> SUFFICES ASSUME TypeOK, [Next]_vars PROVE TypeOK'
    OBVIOUS
  <2> USE MonitorAssumption DEF TypeOK, PC, Queued, Sending
  <2>1. ASSUME NEW r \in Requests, NEW o \in Objects, Enter(r, o) PROVE TypeOK'
    BY <2>1 DEF Enter
  <2>2. ASSUME NEW r \in Requests, Send(r) PROVE TypeOK'
    BY <2>2 DEF Send
  <2>3. ASSUME NEW r \in Requests, Enter_timeout(r) PROVE TypeOK'
    <3>1. PICK i \in 1..Len(waitings[object[r]]) :
            waitings' = [waitings EXCEPT ![object[r]] = Delete(@, i)]
      BY <2>3 DEF Enter_timeout
    <3>2. Delete(waitings[object[r]], i) \in Seq(Requests)
      BY DeleteProperties
    <3>3. QED
      BY <2>3, <3>1, <3>2 DEF Enter_timeout
  <2>4. ASSUME NEW r \in Requests, Enter_service(r) PROVE TypeOK'
    BY <2>4 DEF Enter_service
  <2>5. ASSUME NEW r \in Requests, Enter_wait(r) PROVE TypeOK'
    BY <2>5 DEF Enter_wait
  <2>6. ASSUME NEW r \in Requests, Exit(r) PROVE TypeOK'
    <3>1. 1 \in 1..Len(waitings[object[r]])
      BY <2>6 DEF Exit, Attest
    <3>2. Delete(waitings[object[r]], 1) \in Seq(Requests)
      BY <3>1, DeleteProperties
    <3>3. QED
      BY <2>6, <3>2 DEF Exit
  <2>7. CASE Guard_plan
    BY <2>7 DEF Guard_plan, Dues
  <2>8. CASE Guard_timer
    BY <2>8 DEF Guard_timer
  <2>9. CASE Guard_broadcast
    BY <2>9 DEF Guard_broadcast
  <2>10. CASE Done
    BY <2>10 DEF Done
  <2>11. CASE Tick
    BY <2>11 DEF Tick, Minus1
  <2>12. CASE UNCHANGED vars
    BY <2>12 DEF vars
  <2>13. QED
    BY <2>1, <2>2, <2>3, <2>4, <2>5, <2>6, <2>7, <2>8, <2>9, <2>10, <2>11, <2>12
       DEF Next, Request, Guard_loop, Ended
<1>3. QED
  BY <1>1, <1>2, PTL DEF Spec

\* Deleting a request from its queue while it stops being queued keeps the
\* queue invariants, whatever place it had.
LEMMA DeletePreserves ==
  ASSUME MonitorInv, TypeOK',
         NEW r \in Requests, NEW i \in 1..Len(waitings[object[r]]),
         waitings[object[r]][i] = r,
         pc[r] = "service" \/ pc[r] = "test",
         waitings' = [waitings EXCEPT ![object[r]] = Delete(@, i)],
         NEW p \in PC \ Queued,
         pc' = [pc EXCEPT ![r] = p],
         UNCHANGED object
  PROVE  (QueueEntries /\ NoDuplicates /\ QueuedIsInQueue /\ ServiceIsFirst)'
<1> DEFINE o == object[r]
           q == waitings[o]
<1>0. /\ o \in Objects /\ q \in Seq(Requests) /\ Len(q) \in Nat /\ i \in 1..Len(q)
      /\ waitings \in [Objects -> Seq(Requests)] /\ pc \in [Requests -> PC]
      /\ object \in [Requests -> Objects]
  BY DEF MonitorInv, TypeOK
<1>1. /\ waitings'[o] \in Seq(Requests)
      /\ Len(waitings'[o]) = Len(q) - 1
      /\ \A j \in 1..(Len(q) - 1) :
           waitings'[o][j] = IF j < i THEN q[j] ELSE q[j + 1]
  BY <1>0, DeleteProperties
<1>1a. ASSUME NEW j \in 1..(Len(q) - 1), j < i
       PROVE  j \in 1..Len(q) /\ waitings'[o][j] = q[j]
  BY <1>0, <1>1, <1>1a
<1>1b. ASSUME NEW j \in 1..(Len(q) - 1), ~(j < i)
       PROVE  j + 1 \in 1..Len(q) /\ waitings'[o][j] = q[j + 1]
  BY <1>0, <1>1, <1>1b
<1>2. \A u \in Objects : u # o => waitings'[u] = waitings[u]
  BY <1>0
<1>3. \A s \in Requests : s # r => pc'[s] = pc[s]
  BY <1>0
<1>4. pc'[r] = p /\ p \notin Queued /\ p # "service"
  BY <1>0 DEF Queued
<1>5. \A j \in 1..(Len(q) - 1) :
        \E k \in 1..Len(q) : k # i /\ waitings'[o][j] = q[k] /\ q[k] # r
  <2> SUFFICES ASSUME NEW j \in 1..(Len(q) - 1)
               PROVE  \E k \in 1..Len(q) : k # i /\ waitings'[o][j] = q[k] /\ q[k] # r
    OBVIOUS
  <2>1. CASE j < i
    <3>1. j \in 1..Len(q) /\ j # i /\ waitings'[o][j] = q[j]
      BY <1>0, <1>1a, <2>1
    <3>2. q[j] # r
      BY <1>0, <3>1 DEF MonitorInv, NoDuplicates
    <3>3. QED
      BY <3>1, <3>2
  <2>2. CASE ~(j < i)
    <3>1. j + 1 \in 1..Len(q) /\ j + 1 # i /\ waitings'[o][j] = q[j + 1]
      BY <1>0, <1>1b, <2>2
    <3>2. q[j + 1] # r
      BY <1>0, <3>1 DEF MonitorInv, NoDuplicates
    <3>3. QED
      BY <3>1, <3>2
  <2>3. QED
    BY <2>1, <2>2
<1>6. QueueEntries'
  <2> SUFFICES ASSUME NEW u \in Objects, NEW j \in 1..Len(waitings'[u])
               PROVE  /\ pc'[waitings'[u][j]] \in Queued
                      /\ object'[waitings'[u][j]] = u
    BY DEF QueueEntries
  <2>1. CASE u = o
    <3>1. PICK k \in 1..Len(q) : waitings'[o][j] = q[k] /\ q[k] # r
      BY <1>0, <1>1, <1>5, <2>1
    <3>2. q[k] \in Requests /\ pc[q[k]] \in Queued /\ object[q[k]] = o
      BY <1>0 DEF MonitorInv, QueueEntries
    <3>3. QED
      BY <1>3, <2>1, <3>1, <3>2
  <2>2. CASE u # o
    <3>1. /\ waitings[u][j] \in Requests /\ pc[waitings[u][j]] \in Queued
          /\ object[waitings[u][j]] = u
      BY <1>0, <1>2, <2>2 DEF MonitorInv, QueueEntries
    <3>2. waitings[u][j] # r
      BY <2>2, <3>1
    <3>3. QED
      BY <1>2, <1>3, <2>2, <3>1, <3>2
  <2>3. QED
    BY <2>1, <2>2
<1>7. NoDuplicates'
  <2> SUFFICES ASSUME NEW u \in Objects,
                      NEW j \in 1..Len(waitings'[u]), NEW k \in 1..Len(waitings'[u]),
                      waitings'[u][j] = waitings'[u][k]
               PROVE  j = k
    BY DEF NoDuplicates
  <2>1. CASE u = o
    <3> DEFINE at(n) == IF n < i THEN n ELSE n + 1
    <3>1. \A n \in 1..(Len(q) - 1) :
            at(n) \in 1..Len(q) /\ waitings'[o][n] = q[at(n)]
      <4> TAKE n \in 1..(Len(q) - 1)
      <4>1. CASE n < i
        BY <1>1a, <4>1
      <4>2. CASE ~(n < i)
        BY <1>1b, <4>2
      <4>3. QED
        BY <4>1, <4>2
    <3>2. j \in 1..(Len(q) - 1) /\ k \in 1..(Len(q) - 1)
      BY <1>1, <2>1
    <3>3. at(j) \in 1..Len(q) /\ at(k) \in 1..Len(q) /\ q[at(j)] = q[at(k)]
      BY <2>1, <3>1, <3>2
    <3>4. at(j) = at(k)
      BY <1>0, <3>3 DEF MonitorInv, NoDuplicates
    <3>5. i \in Nat /\ j \in Nat /\ k \in Nat
      BY <1>0, <3>2
    <3>6. QED
      BY <3>4, <3>5
  <2>2. CASE u # o
    BY <1>2, <2>2 DEF MonitorInv, NoDuplicates
  <2>3. QED
    BY <2>1, <2>2
<1>8. QueuedIsInQueue'
  <2> SUFFICES ASSUME NEW s \in Requests, pc'[s] \in Queued
               PROVE  \E j \in 1..Len(waitings'[object[s]]) : waitings'[object[s]][j] = s
    BY DEF QueuedIsInQueue
  <2>1. s # r /\ pc[s] \in Queued
    BY <1>3, <1>4
  <2>2. PICK k \in 1..Len(waitings[object[s]]) : waitings[object[s]][k] = s
    BY <2>1 DEF MonitorInv, QueuedIsInQueue
  <2>3. CASE object[s] = o
    <3>1. k # i
      BY <2>1, <2>2, <2>3
    <3>2. CASE k < i
      <4>1. k \in 1..(Len(q) - 1)
        BY <1>0, <2>3, <3>2
      <4>2. waitings'[o][k] = q[k]
        BY <1>1a, <3>2, <4>1
      <4>3. QED
        BY <1>1, <2>2, <2>3, <4>1, <4>2
    <3>3. CASE k > i
      <4>1. k - 1 \in 1..(Len(q) - 1) /\ waitings'[o][k - 1] = q[(k - 1) + 1]
        BY <1>0, <1>1, <2>3, <3>3
      <4>2. (k - 1) + 1 = k
        OBVIOUS
      <4>3. QED
        BY <1>1, <2>2, <2>3, <4>1, <4>2
    <3>4. QED
      BY <1>0, <3>1, <3>2, <3>3
  <2>4. CASE object[s] # o
    BY <1>0, <1>2, <2>2, <2>4
  <2>5. QED
    BY <2>3, <2>4
<1>9. ServiceIsFirst'
  <2> SUFFICES ASSUME NEW s \in Requests, pc'[s] = "service"
               PROVE  waitings'[object[s]] # <<>> /\ waitings'[object[s]][1] = s
    BY DEF ServiceIsFirst, Attest
  <2>1. s # r /\ pc[s] = "service"
    BY <1>3, <1>4
  <2>2. waitings[object[s]] # <<>> /\ waitings[object[s]][1] = s
    BY <2>1 DEF MonitorInv, ServiceIsFirst, Attest
  <2>3. CASE object[s] = o
    <3>1. 1 \in 1..Len(q) /\ i # 1
      BY <1>0, <2>1, <2>2, <2>3
    <3>2. 1 \in 1..(Len(q) - 1) /\ 1 < i
      BY <1>0, <3>1
    <3>3. waitings'[o][1] = s /\ Len(waitings'[o]) # 0
      BY <1>0, <1>1, <2>2, <2>3, <3>2
    <3>4. QED
      BY <1>1, <2>3, <3>3
  <2>4. CASE object[s] # o
    BY <1>0, <1>2, <2>2, <2>4
  <2>5. QED
    BY <2>3, <2>4
<1>10. QED
  BY <1>6, <1>7, <1>8, <1>9

\* Every step keeps the queue invariants.
LEMMA MonitorInvStep == MonitorInv /\ TypeOK' /\ [Next]_vars => MonitorInv'
<1> SUFFICES ASSUME MonitorInv, TypeOK', [Next]_vars PROVE MonitorInv'
  OBVIOUS
<1>0. /\ waitings \in [Objects -> Seq(Requests)] /\ pc \in [Requests -> PC]
      /\ object \in [Requests -> Objects]
  BY DEF MonitorInv, TypeOK
<1>1. ASSUME NEW r \in Requests, NEW o \in Objects, Enter(r, o) PROVE MonitorInv'
  <2> DEFINE n == Len(waitings[o])
  <2>1. /\ waitings'[o] = Append(waitings[o], r)
        /\ Len(waitings'[o]) = n + 1 /\ n \in Nat
        /\ waitings'[o][n + 1] = r
        /\ \A i \in 1..n : waitings'[o][i] = waitings[o][i]
    BY <1>0, <1>1 DEF Enter
  <2>2. \A u \in Objects : u # o => waitings'[u] = waitings[u]
    BY <1>0, <1>1 DEF Enter
  <2>3. /\ pc'[r] = "enter_send" /\ object'[r] = o /\ pc[r] = "idle"
        /\ \A s \in Requests : s # r => pc'[s] = pc[s] /\ object'[s] = object[s]
    BY <1>0, <1>1 DEF Enter
  <2>4. \A u \in Objects : \A i \in 1..Len(waitings[u]) :
          waitings[u][i] \in Requests /\ waitings[u][i] # r
    <3>1. \A u \in Objects : \A i \in 1..Len(waitings[u]) :
            waitings[u][i] \in Requests /\ pc[waitings[u][i]] \in Queued
      BY <1>0 DEF MonitorInv, QueueEntries
    <3>2. pc[r] \notin Queued
      BY <2>3 DEF Queued
    <3>3. QED
      BY <3>1, <3>2
  <2>5. QueueEntries'
    <3> SUFFICES ASSUME NEW u \in Objects, NEW i \in 1..Len(waitings'[u])
                 PROVE  /\ pc'[waitings'[u][i]] \in Queued
                        /\ object'[waitings'[u][i]] = u
      BY DEF QueueEntries
    <3>1. CASE u = o /\ i = n + 1
      BY <2>1, <2>3, <3>1 DEF Queued
    <3>2. CASE u = o /\ i # n + 1
      <4>1. i \in 1..n
        BY <2>1, <3>2
      <4>2. QED
        BY <2>1, <2>3, <2>4, <3>2, <4>1 DEF MonitorInv, QueueEntries
    <3>3. CASE u # o
      BY <2>2, <2>3, <2>4, <3>3 DEF MonitorInv, QueueEntries
    <3>4. QED
      BY <3>1, <3>2, <3>3
  <2>6. NoDuplicates'
    <3> SUFFICES ASSUME NEW u \in Objects,
                        NEW i \in 1..Len(waitings'[u]), NEW j \in 1..Len(waitings'[u]),
                        waitings'[u][i] = waitings'[u][j]
                 PROVE  i = j
      BY DEF NoDuplicates
    <3>1. CASE u = o
      <4>1. \A k \in 1..(n + 1) : k = n + 1 \/ k \in 1..n
        BY <2>1
      <4>2. i \in 1..(n + 1) /\ j \in 1..(n + 1)
        BY <2>1, <3>1
      <4>3. QED
        BY <2>1, <2>4, <3>1, <4>1, <4>2 DEF MonitorInv, NoDuplicates
    <3>2. CASE u # o
      BY <2>2, <3>2 DEF MonitorInv, NoDuplicates
    <3>3. QED
      BY <3>1, <3>2
  <2>7. QueuedIsInQueue'
    <3> SUFFICES ASSUME NEW s \in Requests, pc'[s] \in Queued
                 PROVE  \E i \in 1..Len(waitings'[object'[s]]) : waitings'[object'[s]][i] = s
      BY DEF QueuedIsInQueue
    <3>1. CASE s = r
      <4>1. n + 1 \in 1..Len(waitings'[o])
        BY <2>1
      <4>2. QED
        BY <2>1, <2>3, <3>1, <4>1
    <3>2. CASE s # r
      <4>1. PICK i \in 1..Len(waitings[object[s]]) : waitings[object[s]][i] = s
        BY <2>3, <3>2 DEF MonitorInv, QueuedIsInQueue
      <4>2. object[s] \in Objects /\ object'[s] = object[s]
        BY <1>0, <2>3, <3>2
      <4>3. CASE object[s] = o
        <5>1. i \in 1..n /\ i \in 1..Len(waitings'[o])
          BY <2>1, <4>3
        <5>2. QED
          BY <2>1, <4>1, <4>2, <4>3, <5>1
      <4>4. CASE object[s] # o
        BY <2>2, <4>1, <4>2, <4>4
      <4>5. QED
        BY <4>3, <4>4
    <3>3. QED
      BY <3>1, <3>2
  <2>8. ServiceIsFirst'
    <3> SUFFICES ASSUME NEW s \in Requests, pc'[s] = "service"
                 PROVE  waitings'[object'[s]] # <<>> /\ waitings'[object'[s]][1] = s
      BY DEF ServiceIsFirst, Attest
    <3>1. /\ pc[s] = "service" /\ object'[s] = object[s] /\ object[s] \in Objects
          /\ waitings[object[s]] # <<>> /\ waitings[object[s]][1] = s
      BY <1>0, <2>3 DEF MonitorInv, ServiceIsFirst, Attest
    <3>2. CASE object[s] = o
      <4>1. 1 \in 1..n
        BY <1>0, <2>1, <3>1, <3>2
      <4>2. Len(waitings'[o]) # 0 /\ waitings'[o] \in Seq(Requests)
        BY <1>0, <2>1
      <4>3. QED
        BY <2>1, <3>1, <3>2, <4>1, <4>2
    <3>3. CASE object[s] # o
      BY <2>2, <3>1, <3>3
    <3>4. QED
      BY <3>2, <3>3
  <2>9. QED
    BY <2>5, <2>6, <2>7, <2>8 DEF MonitorInv
<1>2. ASSUME NEW r \in Requests, Enter_timeout(r) PROVE MonitorInv'
  <2>1. PICK i \in 1..Len(waitings[object[r]]) :
          /\ waitings[object[r]][i] = r
          /\ waitings' = [waitings EXCEPT ![object[r]] = Delete(@, i)]
    BY <1>2 DEF Enter_timeout
  <2>2. "idle" \in PC \ Queued
    BY DEF PC, Queued
  <2>3. (QueueEntries /\ NoDuplicates /\ QueuedIsInQueue /\ ServiceIsFirst)'
    BY <1>2, <2>1, <2>2, DeletePreserves DEF Enter_timeout
  <2>4. QED
    BY <2>3 DEF MonitorInv
<1>3. ASSUME NEW r \in Requests, Exit(r) PROVE MonitorInv'
  <2>1. 1 \in 1..Len(waitings[object[r]]) /\ waitings[object[r]][1] = r
    BY <1>0, <1>3 DEF Exit, Attest
  <2>2. "exit_send" \in PC \ Queued
    BY DEF PC, Queued
  <2>3. (QueueEntries /\ NoDuplicates /\ QueuedIsInQueue /\ ServiceIsFirst)'
    BY <1>3, <2>1, <2>2, DeletePreserves DEF Exit
  <2>4. QED
    BY <2>3 DEF MonitorInv
<1>4. ASSUME UNCHANGED <<waitings, object>>,
             \A r \in Requests : pc'[r] \in Queued <=> pc[r] \in Queued,
             \A r \in Requests : pc'[r] = "service" =>
               pc[r] = "service" \/ Attest(object[r], r)
      PROVE  MonitorInv'
  <2>1. \A o \in Objects : \A i \in 1..Len(waitings[o]) : waitings[o][i] \in Requests
    BY <1>0
  <2>2. QueueEntries'
    BY <1>4, <2>1 DEF MonitorInv, QueueEntries
  <2>3. NoDuplicates'
    BY <1>4 DEF MonitorInv, NoDuplicates
  <2>4. QueuedIsInQueue'
    BY <1>4 DEF MonitorInv, QueuedIsInQueue
  <2>5. ServiceIsFirst'
    BY <1>4 DEF MonitorInv, ServiceIsFirst, Attest
  <2>6. QED
    BY <2>2, <2>3, <2>4, <2>5 DEF MonitorInv
<1>5. ASSUME NEW r \in Requests, Send(r) PROVE MonitorInv'
  BY <1>0, <1>4, <1>5 DEF Send, Sending, Queued
<1>6. ASSUME NEW r \in Requests, Enter_service(r) PROVE MonitorInv'
  BY <1>0, <1>4, <1>6 DEF Enter_service, Queued
<1>7. ASSUME NEW r \in Requests, Enter_wait(r) PROVE MonitorInv'
  BY <1>0, <1>4, <1>7 DEF Enter_wait, Queued
<1>8. CASE Guard_plan
  BY <1>4, <1>8 DEF Guard_plan
<1>9. CASE Guard_timer
  BY <1>4, <1>9 DEF Guard_timer
<1>10. CASE Guard_broadcast
  BY <1>0, <1>4, <1>10 DEF Guard_broadcast, Queued
<1>11. CASE Done
  BY <1>4, <1>11 DEF Done
<1>12. CASE Tick
  BY <1>4, <1>12 DEF Tick
<1>13. CASE UNCHANGED vars
  BY <1>4, <1>13 DEF vars
<1>14. QED
  BY <1>1, <1>2, <1>3, <1>5, <1>6, <1>7, <1>8, <1>9, <1>10, <1>11, <1>12, <1>13
     DEF Next, Request, Guard_loop, Ended

\* The queue invariants hold in every reachable state.
THEOREM QueueInvariant == Spec => []MonitorInv
<1>1. Init => MonitorInv
  BY MonitorAssumption DEF Init, MonitorInv, TypeOK, PC, QueueEntries,
     NoDuplicates, QueuedIsInQueue, ServiceIsFirst, Queued
<1>2. QED
  BY <1>1, MonitorInvStep, TypeCorrect, PTL DEF Spec

\* At most one request is in service per object.
THEOREM MutuallyExclusive == Spec => []MutualExclusion
<1>1. MonitorInv => MutualExclusion
  BY DEF MonitorInv, ServiceIsFirst, Attest, MutualExclusion
<1>2. QED
  BY <1>1, QueueInvariant, PTL

\* No log.Fatal of the monitor is reachable.
THEOREM NeverFatal == Spec => []QueueStateGood
<1>1. MonitorInv => QueueStateGood
  BY DEF MonitorInv, QueuedIsInQueue, ServiceIsFirst, QueueStateGood, Queued
<1>2. QED
  BY <1>1, QueueInvariant, PTL

\* No interleaving loses a wakeup, but for the timeout of a queue's first.
THEOREM WakeupsKept == Spec => WakeupKept
<1>1. MonitorInv /\ [Next]_vars =>
        [WakeupUnderWay => WakeupUnderWay' \/ HeadGivesUp]_vars
  <2> SUFFICES ASSUME MonitorInv, Next, WakeupUnderWay
               PROVE  WakeupUnderWay' \/ HeadGivesUp \/ UNCHANGED vars
    BY DEF vars
  <2>0. /\ waitings \in [Objects -> Seq(Requests)] /\ pc \in [Requests -> PC]
        /\ object \in [Requests -> Objects]
        /\ \A o \in Objects : waitings[o] # <<>> =>
             /\ 1 \in 1..Len(waitings[o])
             /\ waitings[o][1] \in Requests
             /\ object[waitings[o][1]] = o
    BY DEF MonitorInv, TypeOK, QueueEntries
  <2>1. ASSUME NEW r \in Requests, NEW o \in Objects, Enter(r, o)
        PROVE  WakeupUnderWay'
    BY <2>0, <2>1 DEF Enter, WakeupUnderWay, Sending
  <2>2. ASSUME NEW r \in Requests, Send(r) PROVE WakeupUnderWay'
    BY <2>2 DEF Send, WakeupUnderWay
  <2>3. ASSUME NEW r \in Requests, Enter_timeout(r)
        PROVE  WakeupUnderWay' \/ HeadGivesUp
    <3> DEFINE q == waitings[object[r]]
    <3>1. PICK i \in 1..Len(q) :
            q[i] = r /\ waitings' = [waitings EXCEPT ![object[r]] = Delete(@, i)]
      BY <2>3 DEF Enter_timeout
    <3>2. CASE q[1] = r
      BY <2>3, <3>2 DEF HeadGivesUp
    <3>3. CASE q[1] # r
      <4>1. q \in Seq(Requests) /\ Len(q) \in Nat /\ i > 1
        BY <2>0, <3>1, <3>3
      <4>2. waitings'[object[r]][1] = q[1] /\ q # <<>>
        <5>1. 1 \in 1..(Len(q) - 1) /\ 1 < i
          BY <4>1
        <5>2. Delete(q, i)[1] = q[1]
          BY <4>1, <5>1, DeleteProperties
        <5>3. QED
          BY <2>0, <3>1, <4>1, <5>2
      <4>3. \A o \in Objects : waitings'[o] # <<>> =>
              waitings[o] # <<>> /\ waitings'[o][1] = waitings[o][1]
        BY <2>0, <3>1, <4>2
      <4>4. /\ guard' = guard /\ pc[r] = "test" /\ pc'[r] = "idle"
            /\ \A s \in Requests : s # r => pc'[s] = pc[s]
        BY <2>0, <2>3 DEF Enter_timeout
      <4>5. QED
        BY <2>0, <4>3, <4>4 DEF WakeupUnderWay, Sending
    <3>4. QED
      BY <3>2, <3>3
  <2>4. ASSUME NEW r \in Requests, Enter_service(r) PROVE WakeupUnderWay'
    BY <2>0, <2>4 DEF Enter_service, WakeupUnderWay, Sending
  <2>5. ASSUME NEW r \in Requests, Enter_wait(r) PROVE WakeupUnderWay'
    BY <2>0, <2>5 DEF Enter_wait, Attest, WakeupUnderWay, Sending
  <2>6. ASSUME NEW r \in Requests, Exit(r) PROVE WakeupUnderWay'
    BY <2>0, <2>6 DEF Exit, WakeupUnderWay, Sending
  <2>7. CASE Guard_plan
    BY <2>7 DEF Guard_plan, WakeupUnderWay
  <2>8. CASE Guard_timer
    BY <2>8 DEF Guard_timer, WakeupUnderWay
  <2>9. CASE Guard_broadcast
    BY <2>0, <2>9 DEF Guard_broadcast, WakeupUnderWay
  <2>10. CASE Done
    BY <2>0, <2>10 DEF Done, WakeupUnderWay
  <2>11. CASE Tick
    BY <2>11 DEF Tick, WakeupUnderWay
  <2>12. CASE Ended
    BY <2>12 DEF Ended
  <2>13. QED
    BY <2>1, <2>2, <2>3, <2>4, <2>5, <2>6, <2>7, <2>8, <2>9, <2>10, <2>11, <2>12
       DEF Next, Request, Guard_loop
<1>2. QED
  BY <1>1, QueueInvariant, PTL DEF Spec, WakeupKept
-----------------------------------------------------------------------------
\* Monitor implements Exclusion: its queues are the lines, and the requests
\* in service are those inside.
THEOREM Implementation == Spec => ImplementsExclusion
<1> DEFINE served == {s \in Requests : pc[s] = "service"}
<1>1. Init => Exclusive!Init
  BY DEF Init, Exclusive!Init
<1>2. MonitorInv /\ [Next]_vars => [Exclusive!Next]_(Exclusive!vars)
  <2> SUFFICES ASSUME MonitorInv, [Next]_vars
               PROVE  Exclusive!Next \/ UNCHANGED <<waitings, served>>
    BY DEF Exclusive!vars
  <2>0. /\ waitings \in [Objects -> Seq(Requests)] /\ pc \in [Requests -> PC]
        /\ object \in [Requests -> Objects]
    BY DEF MonitorInv, TypeOK
  <2>1. ASSUME NEW r \in Requests, NEW o \in Objects, Enter(r, o)
        PROVE  Exclusive!Next
    <3>1. \A p \in Objects : ~ Exclusive!InLine(r, p)
      BY <2>1 DEF Enter, Exclusive!InLine, MonitorInv, QueueEntries, Queued
    <3>2. UNCHANGED served
      BY <2>0, <2>1 DEF Enter
    <3>3. Exclusive!Arrive(r, o)
      BY <2>1, <3>1, <3>2 DEF Enter, Exclusive!Arrive
    <3>4. QED
      BY <3>3 DEF Exclusive!Next
  <2>2. ASSUME NEW r \in Requests, Enter_timeout(r) PROVE Exclusive!Next
    <3>1. r \notin served /\ UNCHANGED served
      BY <2>0, <2>2 DEF Enter_timeout
    <3>2. Exclusive!GiveUp(r, object[r])
      BY <2>2, <3>1 DEF Enter_timeout, Exclusive!GiveUp, Delete, Exclusive!Without
    <3>3. object[r] \in Objects
      BY <2>0
    <3>4. QED
      BY <3>2, <3>3, Zenon DEF Exclusive!Next
  <2>3. ASSUME NEW r \in Requests, Enter_service(r) PROVE Exclusive!Next
    <3>1. served' = served \cup {r}
      BY <2>0, <2>3 DEF Enter_service
    <3>2. Exclusive!Admit(r, object[r])
      BY <2>3, <3>1 DEF Enter_service, Attest, Exclusive!Admit
    <3>3. object[r] \in Objects
      BY <2>0
    <3>4. QED
      BY <3>2, <3>3 DEF Exclusive!Next, Exclusive!Admit
  <2>4. ASSUME NEW r \in Requests, Exit(r) PROVE Exclusive!Next
    <3>1. r \in served /\ served' = served \ {r}
      BY <2>0, <2>4 DEF Exit
    <3>2. Exclusive!Leave(r, object[r])
      BY <2>4, <3>1 DEF Exit, Attest, Exclusive!Leave, Delete, Exclusive!Without
    <3>3. object[r] \in Objects
      BY <2>0
    <3>4. QED
      BY <3>2, <3>3 DEF Exclusive!Next, Exclusive!Leave
  <2>5. ASSUME NEW r \in Requests, Send(r) \/ Enter_wait(r)
        PROVE  UNCHANGED <<waitings, served>>
    BY <2>0, <2>5 DEF Send, Enter_wait, Sending
  <2>6. CASE Guard_loop
    BY <2>0, <2>6 DEF Guard_loop, Guard_plan, Guard_timer, Guard_broadcast
  <2>7. CASE Done \/ Tick \/ Ended \/ UNCHANGED vars
    BY <2>7 DEF Done, Tick, Ended, vars
  <2>8. QED
    BY <2>1, <2>2, <2>3, <2>4, <2>5, <2>6, <2>7 DEF Next, Request
<1>3. QED
  BY <1>1, <1>2, QueueInvariant, PTL DEF Spec, ImplementsExclusion, Exclusive!Spec
=============================================================================
