------------------------------ MODULE Monitor ------------------------------
(***************************************************************************)
(* The monitor of v1/server/monitor.go, which serializes the modifications *)
(* of one object.  Request goroutines call Enter and Exit; one goroutine   *)
(* runs Guard_loop.  They share the wait queues under m.mutex, the         *)
(* condition variable m.blocker and the unbuffered channel m.schedule.     *)
(*                                                                         *)
(* A section under the mutex is one action: it never blocks inside, and    *)
(* Cond.Wait joins the notification list before it unlocks.  A send on     *)
(* m.schedule is outside of the mutex and is a rendezvous with the guard's *)
(* select.  Times are kept relative to now: left[r] is due - now (0 once   *)
(* due has passed) and timer what is left of the guard's sleep, so that    *)
(* time needs no bound.                                                    *)
(***************************************************************************)
EXTENDS Naturals, Sequences

CONSTANTS
  Requests,       \* rid, unique among the requests in progress
  Objects,        \* object (or bucket) names
  ExclusionWait,  \* configuration Exclusion_wait, the d given to Enter
  IdleWait,       \* the guard's sleep without waiting requests, 3600 s
  SmallWait       \* m.smallwait, the guard's shortest sleep

ASSUME MonitorAssumption ==
  /\ ExclusionWait \in Nat \ {0}
  /\ IdleWait \in Nat \ {0}
  /\ SmallWait \in Nat \ {0}

VARIABLES
  waitings,  \* m.waitings, a missing key being the empty queue
  pc,        \* where each request's goroutine is
  object,    \* the object of the request's last call of Enter
  left,      \* time until the request's due
  guard,     \* where Guard_loop is
  timer      \* time until m.timer fires

vars == <<waitings, pc, object, left, guard, timer>>

\* A request is in a queue between the append of Enter and its own removal.
Queued == {"enter_send", "test", "blocked", "service"}
Sending == {"enter_send", "exit_send"}
PC == {"idle", "exit_send"} \cup Queued

\* slices.Delete(queue, i, i + 1).
Delete(q, i) == [j \in 1..(Len(q) - 1) |-> IF j < i THEN q[j] ELSE q[j + 1]]

\* queue[0].rid == rid, with the test that the queue is not empty; the
\* result of Attest(object, rid).
Attest(o, r) == waitings[o] # <<>> /\ waitings[o][1] = r

Init ==
  /\ waitings = [o \in Objects |-> <<>>]
  /\ pc = [r \in Requests |-> "idle"]
  /\ object \in [Requests -> Objects]
  /\ left = [r \in Requests |-> 0]
  /\ guard = "plan"
  /\ timer = 0
-----------------------------------------------------------------------------
(***************************************************************************)
(* Enter and Exit, run by request goroutines.                              *)
(***************************************************************************)

\* Mutant of Enter: a new request is put next to the one in service.
Enter_jumps(r, o) ==
  /\ pc[r] = "idle"
  /\ guard # "returned"
  /\ waitings' = [waitings EXCEPT
       ![o] = IF @ = <<>> THEN <<r>> ELSE <<Head(@), r>> \o Tail(@)]
  /\ pc' = [pc EXCEPT ![r] = "enter_send"]
  /\ object' = [object EXCEPT ![r] = o]
  /\ left' = [left EXCEPT ![r] = ExclusionWait]
  /\ UNCHANGED <<guard, timer>>

\* The first critical section of Enter queues the request.
Enter(r, o) ==
  /\ pc[r] = "idle"
  /\ guard # "returned"
  /\ waitings' = [waitings EXCEPT ![o] = Append(@, r)]
  /\ pc' = [pc EXCEPT ![r] = "enter_send"]
  /\ object' = [object EXCEPT ![r] = o]
  /\ left' = [left EXCEPT ![r] = ExclusionWait]
  /\ UNCHANGED <<guard, timer>>

\* m.schedule <- struct{}{} of Enter and Exit, received in the guard's select.
Send(r) ==
  /\ pc[r] \in Sending
  /\ guard = "select"
  /\ pc' = [pc EXCEPT ![r] = IF @ = "enter_send" THEN "test" ELSE "idle"]
  /\ guard' = "wakeup"
  /\ UNCHANGED <<waitings, object, left, timer>>

\* Mutant of Enter_timeout: the head is deleted, whoever it is.
Enter_timeout_head(r) ==
  /\ pc[r] = "test"
  /\ left[r] = 0
  /\ waitings[object[r]] # <<>>
  /\ waitings' = [waitings EXCEPT ![object[r]] = Delete(@, 1)]
  /\ pc' = [pc EXCEPT ![r] = "idle"]
  /\ UNCHANGED <<object, left, guard, timer>>

\* The loop of Enter: a request whose due has passed deletes itself.
Enter_timeout(r) ==
  /\ pc[r] = "test"
  /\ left[r] = 0
  /\ \E i \in 1..Len(waitings[object[r]]) :
       /\ waitings[object[r]][i] = r
       /\ waitings' = [waitings EXCEPT ![object[r]] = Delete(@, i)]
  /\ pc' = [pc EXCEPT ![r] = "idle"]
  /\ UNCHANGED <<object, left, guard, timer>>

\* Mutant of Enter_service: a wakeup is taken for the turn.
Enter_service_unattested(r) ==
  /\ pc[r] = "test"
  /\ left[r] > 0
  /\ pc' = [pc EXCEPT ![r] = "service"]
  /\ left' = [left EXCEPT ![r] = 0]
  /\ UNCHANGED <<waitings, object, guard, timer>>

\* The loop of Enter: the first of the queue enters.
Enter_service(r) ==
  /\ pc[r] = "test"
  /\ left[r] > 0
  /\ Attest(object[r], r)
  /\ pc' = [pc EXCEPT ![r] = "service"]
  /\ left' = [left EXCEPT ![r] = 0]
  /\ UNCHANGED <<waitings, object, guard, timer>>

\* The loop of Enter: m.blocker.Wait().
Enter_wait(r) ==
  /\ pc[r] = "test"
  /\ left[r] > 0
  /\ waitings[object[r]] # <<>>
  /\ ~ Attest(object[r], r)
  /\ pc' = [pc EXCEPT ![r] = "blocked"]
  /\ UNCHANGED <<waitings, object, left, guard, timer>>

\* Mutant of Exit: the guard is not told.
Exit_silent(r) ==
  /\ pc[r] = "service"
  /\ Attest(object[r], r)
  /\ waitings' = [waitings EXCEPT ![object[r]] = Delete(@, 1)]
  /\ pc' = [pc EXCEPT ![r] = "idle"]
  /\ UNCHANGED <<object, left, guard, timer>>

\* Exit removes the first of the queue, then sends.
Exit(r) ==
  /\ pc[r] = "service"
  /\ Attest(object[r], r)
  /\ waitings' = [waitings EXCEPT ![object[r]] = Delete(@, 1)]
  /\ pc' = [pc EXCEPT ![r] = "exit_send"]
  /\ UNCHANGED <<object, left, guard, timer>>
-----------------------------------------------------------------------------
(***************************************************************************)
(* Guard_loop.                                                             *)
(***************************************************************************)

\* The dues Guard_loop looks at: all but the first of each queue.
Dues == {IdleWait} \cup
  UNION {{left[waitings[o][i]] : i \in 2..Len(waitings[o])} : o \in Objects}

\* Mutant of Guard_plan: the timer is set ahead of the due.
Guard_plan_early ==
  /\ guard = "plan"
  /\ \E d \in Dues :
       /\ \A e \in Dues : d <= e
       /\ timer' = d - SmallWait
  /\ guard' = "select"
  /\ UNCHANGED <<waitings, pc, object, left>>

\* Compute the next due and reset the timer.
Guard_plan ==
  /\ guard = "plan"
  /\ \E d \in Dues :
       /\ \A e \in Dues : d <= e
       /\ timer' = IF d < SmallWait THEN SmallWait ELSE d
  /\ guard' = "select"
  /\ UNCHANGED <<waitings, pc, object, left>>

\* case <-m.timer.C.
Guard_timer ==
  /\ guard = "select"
  /\ timer = 0
  /\ guard' = "wakeup"
  /\ UNCHANGED <<waitings, pc, object, left, timer>>

\* Mutant of Guard_broadcast: Signal wakes one sleeper, of any object.
Guard_signal ==
  /\ guard = "wakeup"
  /\ pc' = IF \E r \in Requests : pc[r] = "blocked"
           THEN [pc EXCEPT ![CHOOSE r \in Requests : pc[r] = "blocked"] = "test"]
           ELSE pc
  /\ guard' = "plan"
  /\ UNCHANGED <<waitings, object, left, timer>>

\* m.blocker.Broadcast().
Guard_broadcast ==
  /\ guard = "wakeup"
  /\ pc' = [r \in Requests |-> IF pc[r] = "blocked" THEN "test" ELSE pc[r]]
  /\ guard' = "plan"
  /\ UNCHANGED <<waitings, object, left, timer>>

\* Done closes m.schedule when the use of the monitor has ended.
Done ==
  /\ \A r \in Requests : pc[r] = "idle"
  /\ guard = "select"
  /\ guard' = "returned"
  /\ UNCHANGED <<waitings, pc, object, left, timer>>

\* One unit of time passes.
Minus1(n) == IF n = 0 THEN 0 ELSE n - 1

Tick ==
  /\ (guard = "select" /\ timer > 0) \/ \E r \in Requests : left[r] > 0
  /\ left' = [r \in Requests |-> Minus1(left[r])]
  /\ timer' = IF guard = "select" THEN Minus1(timer) ELSE timer
  /\ UNCHANGED <<waitings, pc, object, guard>>

Request(r) ==
  \/ \E o \in Objects : Enter(r, o)
  \/ Send(r)
  \/ Enter_timeout(r)
  \/ Enter_service(r)
  \/ Enter_wait(r)
  \/ Exit(r)

Guard_loop == Guard_plan \/ Guard_timer \/ Guard_broadcast

\* After Done nothing is left to do.
Ended == guard = "returned" /\ UNCHANGED vars

Next ==
  (\E r \in Requests : Request(r)) \/ Guard_loop \/ Done \/ Tick \/ Ended

Spec == Init /\ [][Next]_vars

(***************************************************************************)
(* Fairness.  A goroutine that can run does run.  Goroutines that send on  *)
(* a channel are served in order (strong fairness of Send).  The work in   *)
(* exclusion ends.  Clients need not send requests: Enter is not fair.     *)
(***************************************************************************)
Loop(r) == Enter_timeout(r) \/ Enter_service(r) \/ Enter_wait(r)

FairSpec ==
  /\ Spec
  /\ WF_vars(Guard_loop)
  /\ WF_vars(Tick)
  /\ \A r \in Requests :
       SF_vars(Send(r)) /\ WF_vars(Loop(r)) /\ WF_vars(Exit(r))
-----------------------------------------------------------------------------
(***************************************************************************)
(* Properties.                                                             *)
(***************************************************************************)

\* Every variable has its type.
TypeOK ==
  /\ waitings \in [Objects -> Seq(Requests)]
  /\ pc \in [Requests -> PC]
  /\ object \in [Requests -> Objects]
  /\ left \in [Requests -> Nat]
  /\ guard \in {"plan", "select", "wakeup", "returned"}
  /\ timer \in Nat

\* Two requests never are between serialize_access and release_access of
\* the same object.
MutualExclusion ==
  \A r, s \in Requests :
    pc[r] = "service" /\ pc[s] = "service" /\ object[r] = object[s] => r = s

\* The three log.Fatal of Enter and Exit, "BAD queue state", are never
\* reached: a request in the loop of Enter finds itself in the queue, and
\* one that calls Exit finds itself first in it.
QueueStateGood ==
  \A r \in Requests :
    /\ pc[r] = "test" =>
         \E i \in 1..Len(waitings[object[r]]) : waitings[object[r]][i] = r
    /\ pc[r] = "service" => Attest(object[r], r)

\* A wakeup is under way for a first of a queue that sleeps: the guard is
\* about to broadcast, or some request is about to send to the guard.
WakeupUnderWay ==
  \A o \in Objects :
    waitings[o] # <<>> /\ pc[waitings[o][1]] = "blocked" =>
      guard = "wakeup" \/ \E r \in Requests : pc[r] \in Sending

\* A request that has reached the head of a queue gives up.
HeadGivesUp ==
  \E r \in Requests : Enter_timeout(r) /\ waitings[object[r]][1] = r

\* Wakeups are not lost by any interleaving of Enter, Exit and Guard_loop:
\* the one step after which a request that may enter can sleep on with no
\* wakeup under way is the timeout of the first of a queue, which deletes
\* itself without sending to the guard.
WakeupKept == [][WakeupUnderWay => WakeupUnderWay' \/ HeadGivesUp]_vars

\* The monitor implements the specification it promises, Exclusion.
Exclusive == INSTANCE Exclusion
  WITH line <- waitings, inside <- {s \in Requests : pc[s] = "service"}
ImplementsExclusion == Exclusive!Spec

\* Every call of Enter returns, with or without success.
EnterReturns ==
  \A r \in Requests : pc[r] = "enter_send" ~> pc[r] \in {"service", "idle"}
=============================================================================
