------------------------------- MODULE Server -------------------------------
(***************************************************************************)
(* The life of requests in v1/server/server.go: ServeHTTP with the         *)
(* request-id and the scratch suffix it makes for each request, the        *)
(* control request "quit", and the end of the process.                     *)
(*                                                                         *)
(* A request-id identifies a request in the monitor (module Monitor), and  *)
(* a suffix names its scratch files (module ObjectStore).  What a handler  *)
(* does is the subject of the other modules.                               *)
(***************************************************************************)
EXTENDS Naturals

CONSTANTS
  Tasks,     \* one goroutine of a request each
  Suffixes,  \* the suffixes there are, "@" with 6 hex digits
  MaxTime    \* time.Now() is in 1..MaxTime, and may go back

ASSUME ServerAssumption == MaxTime \in Nat \ {0}

VARIABLES
  rid_past,   \* the last request-id
  suffixes,   \* suffixes[s]: the request-id that s is used by, or 0
  pc,         \* where the goroutine of the request is
  kind,       \* "object", or "quit" for POST /bbs.ctl/quit
  time,       \* the time it has read in make_request_id, or 0
  rid,        \* its request-id, or 0
  suffix,     \* its suffix, or 0
  shut,       \* where the goroutine of shutdown_server of a quit request is
  process     \* "serving", "closing" after http.Server.Shutdown, or "down"

requests == <<pc, kind, time, rid, suffix>>
vars == <<rid_past, suffixes, requests, shut, process>>

Init ==
  /\ rid_past = 0
  /\ suffixes = [s \in Suffixes |-> 0]
  /\ pc = [t \in Tasks |-> "idle"]
  /\ kind = [t \in Tasks |-> "object"]
  /\ time = [t \in Tasks |-> 0]
  /\ rid = [t \in Tasks |-> 0]
  /\ suffix = [t \in Tasks |-> 0]
  /\ shut = [t \in Tasks |-> "none"] /\ process = "serving"

go(t, p) == pc' = [pc EXCEPT ![t] = p]
up == process # "down"

\* A connection is accepted until the listener is closed.
Arrive(t) ==
  /\ process = "serving" /\ pc[t] = "idle"
  /\ \E k \in {"object", "quit"} : kind' = [kind EXCEPT ![t] = k]
  /\ go(t, "auth")
  /\ UNCHANGED <<rid_past, suffixes, time, rid, suffix, shut, process>>

\* attest_authorization, which may answer 401 before an id is made.
Attest_authorization(t) ==
  /\ up /\ pc[t] = "auth"
  /\ \/ go(t, "time")
     \/ go(t, "return")
  /\ UNCHANGED <<rid_past, suffixes, kind, time, rid, suffix, shut, process>>

\* make_request_id reads the time before it takes the mutex.
Read_time(t) ==
  /\ up /\ pc[t] = "time"
  /\ \E n \in 1..MaxTime : time' = [time EXCEPT ![t] = n]
  /\ go(t, "rid")
  /\ UNCHANGED <<rid_past, suffixes, kind, rid, suffix, shut, process>>

\* Mutant of new_rid: two requests of one time have the same id.
new_rid_same(t) == IF rid_past <= time[t] THEN time[t] ELSE rid_past + 1

\* The time, or the last id plus one when it does not advance.
new_rid(t) == IF rid_past < time[t] THEN time[t] ELSE rid_past + 1

\* Mutant of Make_request_id: an id that is not a time is not recorded.
Make_request_id_lost(t) ==
  /\ up /\ pc[t] = "rid"
  /\ rid_past' = IF rid_past < time[t] THEN time[t] ELSE rid_past
  /\ rid' = [rid EXCEPT ![t] = new_rid(t)]
  /\ time' = [time EXCEPT ![t] = 0]
  /\ go(t, "suffix")
  /\ UNCHANGED <<suffixes, kind, suffix, shut, process>>

Make_request_id(t) ==
  /\ up /\ pc[t] = "rid"
  /\ rid_past' = new_rid(t)
  /\ rid' = [rid EXCEPT ![t] = new_rid(t)]
  /\ time' = [time EXCEPT ![t] = 0]
  /\ go(t, "suffix")
  /\ UNCHANGED <<suffixes, kind, suffix, shut, process>>

\* make_scratch_suffix: a random suffix that is not in use.
Make_scratch_suffix(t) ==
  /\ up /\ pc[t] = "suffix"
  /\ \E s \in Suffixes :
       /\ suffixes[s] = 0
       /\ suffixes' = [suffixes EXCEPT ![s] = rid[t]]
       /\ suffix' = [suffix EXCEPT ![t] = s]
  /\ go(t, "serve")
  /\ UNCHANGED <<rid_past, kind, time, rid, shut, process>>

\* log.Fatal: no suffix was found in 10 tries.  It is modelled when all are in
\* use; bad luck alone has a probability that is left out.
Suffix_fatal(t) ==
  /\ up /\ pc[t] = "suffix"
  /\ \A s \in Suffixes : suffixes[s] # 0
  /\ process' = "down"
  /\ UNCHANGED <<rid_past, suffixes, requests, shut>>

\* The handler; server_control starts shutdown_server.
Serve(t) ==
  /\ up /\ pc[t] = "serve"
  /\ shut' = [shut EXCEPT ![t] = IF kind[t] = "quit" THEN "started" ELSE @]
  /\ go(t, "discharge")
  /\ UNCHANGED <<rid_past, suffixes, kind, time, rid, suffix, process>>

\* Mutant of Serve_panic: the suffix is not discharged in a defer.
Serve_panic_leaks(t) ==
  /\ up /\ pc[t] = "serve" /\ kind[t] = "object"
  /\ go(t, "done")
  /\ UNCHANGED <<rid_past, suffixes, kind, time, rid, suffix, shut, process>>

\* A handler panics; deferred calls are made and net/http drops the
\* connection.
Serve_panic(t) ==
  /\ up /\ pc[t] = "serve" /\ kind[t] = "object"
  /\ go(t, "broken")
  /\ UNCHANGED <<rid_past, suffixes, kind, time, rid, suffix, shut, process>>

\* discharge_scratch_suffix removes the suffixes of the request-id.
Discharge_scratch_suffix(t) ==
  /\ up /\ pc[t] \in {"discharge", "broken"}
  /\ suffixes' = [s \in Suffixes |-> IF suffixes[s] = rid[t] THEN 0 ELSE suffixes[s]]
  /\ suffix' = [suffix EXCEPT ![t] = 0]
  /\ go(t, IF pc[t] = "broken" THEN "done" ELSE "return")
  /\ UNCHANGED <<rid_past, kind, time, rid, shut, process>>

\* The handler returns.
Return(t) ==
  /\ up /\ pc[t] = "return"
  /\ go(t, "done")
  /\ UNCHANGED <<rid_past, suffixes, kind, time, rid, suffix, shut, process>>
-----------------------------------------------------------------------------
\* Mutant of Shutdown: the listener stays open.
Shutdown_open(t) ==
  /\ up /\ shut[t] = "started"
  /\ shut' = [shut EXCEPT ![t] = "waiting"]
  /\ UNCHANGED <<rid_past, suffixes, requests, process>>

\* http.Server.Shutdown closes the listener, and waits.
Shutdown(t) ==
  /\ up /\ shut[t] = "started"
  /\ shut' = [shut EXCEPT ![t] = "waiting"]
  /\ process' = "closing"
  /\ UNCHANGED <<rid_past, suffixes, requests>>

\* It returns when no request is in progress.
Shutdown_returns(t) ==
  /\ up /\ shut[t] = "waiting"
  /\ \A u \in Tasks : pc[u] \in {"idle", "done"}
  /\ shut' = [shut EXCEPT ![t] = "returned"]
  /\ UNCHANGED <<rid_past, suffixes, requests, process>>

\* It fails when its context is cancelled, and net/http cancels the context of
\* a request when its handler returns.
Shutdown_fails(t) ==
  /\ up /\ shut[t] = "waiting" /\ pc[t] = "done"
  /\ shut' = [shut EXCEPT ![t] = "failed"]
  /\ UNCHANGED <<rid_past, suffixes, requests, process>>

\* log.Fatal after 3 seconds.
Forced_quit(t) ==
  /\ up /\ shut[t] = "failed"
  /\ process' = "down"
  /\ UNCHANGED <<rid_past, suffixes, requests, shut>>

\* Serve() of Start_server returns as soon as the listener is closed, and the
\* process ends with main.
Main_returns ==
  /\ process = "closing"
  /\ process' = "down"
  /\ UNCHANGED <<rid_past, suffixes, requests, shut>>

Ended ==
  /\ ~ up \/ (\A t \in Tasks : pc[t] = "done")
  /\ UNCHANGED vars

Request(t) ==
  \/ Attest_authorization(t) \/ Read_time(t) \/ Make_request_id(t) \/ Make_scratch_suffix(t)
  \/ Suffix_fatal(t) \/ Serve(t) \/ Serve_panic(t) \/ Discharge_scratch_suffix(t)
  \/ Return(t)

Stopping(t) == Shutdown(t) \/ Shutdown_returns(t) \/ Shutdown_fails(t) \/ Forced_quit(t)

Next == (\E t \in Tasks : Arrive(t) \/ Request(t) \/ Stopping(t)) \/ Main_returns \/ Ended

\* Goroutines run; clients need not come.
Spec ==
  /\ Init /\ [][Next]_vars
  /\ \A t \in Tasks : WF_vars(Request(t)) /\ WF_vars(Stopping(t))
  /\ WF_vars(Main_returns)
-----------------------------------------------------------------------------
\* Every variable has its type, and the last id is the largest one.
TypeOK ==
  /\ rid_past \in Nat
  /\ suffixes \in [Suffixes -> 0..rid_past]
  /\ pc \in [Tasks -> {"idle", "auth", "time", "rid", "suffix", "serve", "broken",
                       "discharge", "return", "done"}]
  /\ kind \in [Tasks -> {"object", "quit"}]
  /\ time \in [Tasks -> 0..MaxTime]
  /\ rid \in [Tasks -> 0..rid_past]
  /\ suffix \in [Tasks -> {0} \cup Suffixes]
  /\ shut \in [Tasks -> {"none", "started", "waiting", "returned", "failed"}]
  /\ process \in {"serving", "closing", "down"}

\* MAKE_REQUEST_ID, "It is strictly increasing": a request gets an id larger
\* than all before it, although times are read before the mutex is taken, may
\* be the same, and may go back.
IdsIncrease ==
  [][\A s, t \in Tasks : rid[t] = 0 /\ rid'[t] # 0 => rid[s] < rid'[t]]_vars

InService(t) == pc[t] \in {"serve", "broken", "discharge"}

\* "A key is valid during request processing with a request-id": no two
\* requests in service have the same suffix, so that no scratch file has two
\* writers; and when a request has ended, in a panic too, its suffix is free.
SuffixOwned ==
  \A t \in Tasks :
    IF InService(t)
    THEN /\ suffixes[suffix[t]] = rid[t]
         /\ \A s \in Tasks \ {t} : InService(s) => suffix[s] # suffix[t]
    ELSE \A s \in Suffixes : rid[t] # 0 => suffixes[s] # rid[t]

\* SERVER_CONTROL, "quit": the server stops, whatever requests are in progress
\* and whoever cancels the context of Shutdown, and however many quits there are.
QuitStops == \A t \in Tasks : shut[t] = "started" ~> process = "down"
=============================================================================
