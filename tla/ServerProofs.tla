---------------------------- MODULE ServerProofs ----------------------------
(***************************************************************************)
(* Proofs about request-ids and scratch suffixes, for any number of        *)
(* requests and suffixes and any clock.                                    *)
(***************************************************************************)
EXTENDS Server, TLAPS

\* A request has an id from make_request_id on, ...
IdsMade ==
  \A t \in Tasks :
    /\ pc[t] \in {"idle", "auth", "time", "rid"} => rid[t] = 0
    /\ pc[t] = "suffix" \/ InService(t) => rid[t] # 0

\* ... which no other request has, ...
IdsDistinct ==
  \A s, t \in Tasks : rid[s] # 0 /\ rid[s] = rid[t] => s = t

\* ... a request in service has a suffix, registered for its id, ...
SuffixTaken ==
  \A t \in Tasks :
    InService(t) => suffix[t] \in Suffixes /\ suffixes[suffix[t]] = rid[t]

\* ... and nothing else is registered for the id of a request.
SuffixesOfService ==
  \A t \in Tasks, s \in Suffixes :
    rid[t] # 0 /\ suffixes[s] = rid[t] => InService(t) /\ suffix[t] = s

ServerInv == TypeOK /\ IdsMade /\ IdsDistinct /\ SuffixTaken /\ SuffixesOfService
-----------------------------------------------------------------------------
\* make_request_id gives an id that is larger than the last one.
LEMMA NewRidLarger ==
  ASSUME TypeOK, NEW t \in Tasks
  PROVE  new_rid(t) \in Nat /\ rid_past < new_rid(t)
BY ServerAssumption DEF TypeOK, new_rid

\* The initial state satisfies the invariant.
LEMMA ServerInitial == Init => ServerInv
BY ServerAssumption DEF Init, ServerInv, TypeOK, IdsMade, IdsDistinct, SuffixTaken,
     SuffixesOfService, InService

\* make_request_id keeps the invariant: the new id is nobody's, and no suffix
\* is registered for it yet.
LEMMA MakeRequestIdInv ==
  ASSUME ServerInv, NEW t \in Tasks, Make_request_id(t)
  PROVE  ServerInv'
<1> DEFINE n == new_rid(t)
<1>1. n \in Nat /\ rid_past < n
  BY NewRidLarger DEF ServerInv
<1>2. /\ rid_past' = n /\ rid' = [rid EXCEPT ![t] = n] /\ pc' = [pc EXCEPT ![t] = "suffix"]
      /\ time' = [time EXCEPT ![t] = 0] /\ pc[t] = "rid"
      /\ UNCHANGED <<suffixes, kind, suffix, shut, process>>
  BY DEF Make_request_id, go
<1> HIDE DEF n
<1>3. TypeOK'
  BY <1>1, <1>2, ServerAssumption DEF ServerInv, TypeOK
<1>4. \A s \in Tasks : rid[s] < n /\ rid[s] \in Nat
  BY <1>1 DEF ServerInv, TypeOK
<1>5. \A s \in Suffixes : suffixes[s] < n /\ suffixes[s] \in Nat
  BY <1>1 DEF ServerInv, TypeOK
<1>6. IdsMade'
  BY <1>1, <1>2 DEF ServerInv, TypeOK, IdsMade, InService
<1>7. IdsDistinct'
  BY <1>2, <1>4 DEF ServerInv, TypeOK, IdsDistinct
<1>8. SuffixTaken'
  BY <1>2 DEF ServerInv, TypeOK, SuffixTaken, InService
<1>9. SuffixesOfService'
  BY <1>2, <1>5 DEF ServerInv, TypeOK, SuffixesOfService, InService
<1> QED BY <1>3, <1>6, <1>7, <1>8, <1>9 DEF ServerInv

\* make_scratch_suffix takes a suffix that is registered for nobody.
LEMMA MakeScratchSuffixInv ==
  ASSUME ServerInv, NEW t \in Tasks, Make_scratch_suffix(t)
  PROVE  ServerInv'
<1>1. PICK s \in Suffixes :
        /\ suffixes[s] = 0
        /\ suffixes' = [suffixes EXCEPT ![s] = rid[t]]
        /\ suffix' = [suffix EXCEPT ![t] = s]
  BY DEF Make_scratch_suffix
<1>2. /\ pc' = [pc EXCEPT ![t] = "serve"] /\ pc[t] = "suffix"
      /\ UNCHANGED <<rid_past, kind, time, rid, shut, process>>
  BY DEF Make_scratch_suffix, go
<1>3. TypeOK'
  BY <1>1, <1>2 DEF ServerInv, TypeOK
<1>4. rid[t] # 0
  BY <1>2 DEF ServerInv, IdsMade
<1>5. IdsMade' /\ IdsDistinct'
  BY <1>2 DEF ServerInv, TypeOK, IdsMade, IdsDistinct, InService
<1>6. SuffixTaken'
  <2> SUFFICES ASSUME NEW u \in Tasks, InService(u)'
               PROVE  suffix'[u] \in Suffixes /\ suffixes'[suffix'[u]] = rid[u]
    BY <1>2 DEF SuffixTaken
  <2>1. CASE u = t
    BY <1>1, <2>1 DEF ServerInv, TypeOK
  <2>2. CASE u # t
    <3>1. InService(u) /\ suffix'[u] = suffix[u]
      BY <1>1, <1>2, <2>2 DEF ServerInv, TypeOK, InService
    <3>2. suffix[u] \in Suffixes /\ suffixes[suffix[u]] = rid[u] /\ rid[u] # 0
      BY <3>1 DEF ServerInv, SuffixTaken, IdsMade
    <3> QED BY <1>1, <3>1, <3>2 DEF ServerInv, TypeOK
  <2> QED BY <2>1, <2>2
<1>7. SuffixesOfService'
  <2> SUFFICES ASSUME NEW u \in Tasks, NEW v \in Suffixes, rid[u] # 0, suffixes'[v] = rid[u]
               PROVE  InService(u)' /\ suffix'[u] = v
    BY <1>2 DEF SuffixesOfService
  <2>1. CASE v = s
    <3>1. rid[u] = rid[t]
      BY <1>1, <2>1 DEF ServerInv, TypeOK
    <3>2. u = t
      BY <1>4, <3>1 DEF ServerInv, IdsDistinct
    <3> QED BY <1>1, <1>2, <2>1, <3>2 DEF ServerInv, TypeOK, InService
  <2>2. CASE v # s
    <3>1. InService(u) /\ suffix[u] = v
      BY <1>1, <2>2 DEF ServerInv, TypeOK, SuffixesOfService
    <3>2. u # t
      BY <1>2, <3>1 DEF InService
    <3> QED BY <1>1, <1>2, <3>1, <3>2 DEF ServerInv, TypeOK, InService
  <2> QED BY <2>1, <2>2
<1> QED BY <1>3, <1>5, <1>6, <1>7 DEF ServerInv

\* discharge_scratch_suffix frees the suffixes of its own id alone.
LEMMA DischargeInv ==
  ASSUME ServerInv, NEW t \in Tasks, Discharge_scratch_suffix(t)
  PROVE  ServerInv'
<1>1. /\ suffixes' = [s \in Suffixes |-> IF suffixes[s] = rid[t] THEN 0 ELSE suffixes[s]]
      /\ suffix' = [suffix EXCEPT ![t] = 0]
      /\ pc' = [pc EXCEPT ![t] = IF pc[t] = "broken" THEN "done" ELSE "return"]
      /\ InService(t)
      /\ UNCHANGED <<rid_past, kind, time, rid, shut, process>>
  BY DEF Discharge_scratch_suffix, go, InService
<1>2. TypeOK'
  BY <1>1 DEF ServerInv, TypeOK
<1>3. rid[t] # 0
  BY <1>1 DEF ServerInv, IdsMade
<1>4. IdsMade' /\ IdsDistinct'
  BY <1>1 DEF ServerInv, TypeOK, IdsMade, IdsDistinct, InService
<1>5. \A u \in Tasks : InService(u)' => u # t /\ InService(u) /\ suffix'[u] = suffix[u]
  BY <1>1 DEF ServerInv, TypeOK, InService
<1>6. SuffixTaken'
  <2> SUFFICES ASSUME NEW u \in Tasks, InService(u)'
               PROVE  suffix'[u] \in Suffixes /\ suffixes'[suffix'[u]] = rid'[u]
    BY DEF SuffixTaken
  <2>1. u # t /\ suffix'[u] = suffix[u] /\ suffix[u] \in Suffixes
        /\ suffixes[suffix[u]] = rid[u] /\ rid[u] # 0
    BY <1>5 DEF ServerInv, SuffixTaken, IdsMade
  <2>2. rid[u] # rid[t]
    BY <1>3, <2>1 DEF ServerInv, IdsDistinct
  <2> QED BY <1>1, <2>1, <2>2
<1>7. SuffixesOfService'
  <2> SUFFICES ASSUME NEW u \in Tasks, NEW v \in Suffixes, rid[u] # 0, suffixes'[v] = rid[u]
               PROVE  InService(u)' /\ suffix'[u] = v
    BY <1>1 DEF SuffixesOfService
  <2>1. suffixes[v] = rid[u] /\ u # t
    BY <1>1
  <2>2. InService(u) /\ suffix[u] = v
    BY <2>1 DEF ServerInv, SuffixesOfService
  <2> QED BY <1>1, <2>1, <2>2 DEF ServerInv, TypeOK, InService
<1> QED BY <1>2, <1>4, <1>6, <1>7 DEF ServerInv

\* The other steps of a request move its program counter: in service from
\* Serve to the discharge, and not otherwise.
LEMMA MoveInv ==
  ASSUME ServerInv, NEW t \in Tasks, TypeOK',
         UNCHANGED <<rid_past, suffixes, rid, suffix>>,
         NEW p, pc' = [pc EXCEPT ![t] = p],
         p \in {"discharge", "broken"} <=> InService(t),
         p \in {"auth", "time", "rid"} => pc[t] \in {"idle", "auth", "time"},
         p \notin {"suffix", "serve", "idle"}
  PROVE  ServerInv'
<1>1. \A u \in Tasks : InService(u)' <=> InService(u)
  BY DEF ServerInv, TypeOK, InService
<1>2. IdsMade'
  BY <1>1 DEF ServerInv, TypeOK, IdsMade
<1>3. IdsDistinct' /\ SuffixTaken' /\ SuffixesOfService'
  BY <1>1 DEF ServerInv, IdsDistinct, SuffixTaken, SuffixesOfService
<1> QED BY <1>2, <1>3 DEF ServerInv

\* Steps that leave the requests alone keep the invariant.
LEMMA SameRequestsInv ==
  ASSUME ServerInv, UNCHANGED <<rid_past, suffixes, requests>>,
         shut' \in [Tasks -> {"none", "started", "waiting", "returned", "failed"}],
         process' \in {"serving", "closing", "down"}
  PROVE  ServerInv'
BY DEF ServerInv, TypeOK, IdsMade, IdsDistinct, SuffixTaken, SuffixesOfService, InService,
       requests

\* Every step keeps the invariant.
LEMMA ServerStep == ServerInv /\ [Next]_vars => ServerInv'
<1> SUFFICES ASSUME ServerInv, [Next]_vars PROVE ServerInv'
  OBVIOUS
<1>1. ASSUME NEW t \in Tasks, Arrive(t) PROVE ServerInv'
  <2>1. TypeOK' BY <1>1 DEF ServerInv, TypeOK, Arrive, go
  <2> QED BY <1>1, <2>1, MoveInv DEF Arrive, go, InService
<1>2. ASSUME NEW t \in Tasks, Attest_authorization(t) PROVE ServerInv'
  <2>1. TypeOK' BY <1>2 DEF ServerInv, TypeOK, Attest_authorization, go
  <2>2. PICK p \in {"time", "return"} : pc' = [pc EXCEPT ![t] = p]
    BY <1>2 DEF Attest_authorization, go
  <2> QED BY <1>2, <2>1, <2>2, MoveInv DEF Attest_authorization, InService
<1>3. ASSUME NEW t \in Tasks, Read_time(t) PROVE ServerInv'
  <2>1. TypeOK' BY <1>3, ServerAssumption DEF ServerInv, TypeOK, Read_time, go
  <2> QED BY <1>3, <2>1, MoveInv DEF Read_time, go, InService
<1>4. ASSUME NEW t \in Tasks, Serve(t) PROVE ServerInv'
  <2>1. TypeOK' BY <1>4 DEF ServerInv, TypeOK, Serve, go
  <2> QED BY <1>4, <2>1, MoveInv DEF Serve, go, InService
<1>5. ASSUME NEW t \in Tasks, Serve_panic(t) PROVE ServerInv'
  <2>1. TypeOK' BY <1>5 DEF ServerInv, TypeOK, Serve_panic, go
  <2> QED BY <1>5, <2>1, MoveInv DEF Serve_panic, go, InService
<1>6. ASSUME NEW t \in Tasks, Return(t) PROVE ServerInv'
  <2>1. TypeOK' BY <1>6 DEF ServerInv, TypeOK, Return, go
  <2> QED BY <1>6, <2>1, MoveInv DEF Return, go, InService
<1>7. ASSUME NEW t \in Tasks, Suffix_fatal(t) PROVE ServerInv'
  BY <1>7, SameRequestsInv DEF Suffix_fatal, ServerInv, TypeOK
<1>8. ASSUME NEW t \in Tasks, Stopping(t) PROVE ServerInv'
  BY <1>8, SameRequestsInv
     DEF Stopping, Shutdown, Shutdown_returns, Shutdown_fails, Forced_quit, ServerInv, TypeOK
<1>9. CASE Main_returns
  BY <1>9, SameRequestsInv DEF Main_returns, ServerInv, TypeOK
<1>10. CASE UNCHANGED vars
  BY <1>10, SameRequestsInv DEF vars, ServerInv, TypeOK
<1> QED BY <1>1, <1>2, <1>3, <1>4, <1>5, <1>6, <1>7, <1>8, <1>9, <1>10, MakeRequestIdInv,
           MakeScratchSuffixInv, DischargeInv DEF Next, Request, Ended
-----------------------------------------------------------------------------
\* The invariant holds in every state: ids are distinct, and suffixes are
\* registered for the requests in service and for them alone.
THEOREM ServerInvariant == Spec => []ServerInv
BY ServerInitial, ServerStep, PTL DEF Spec

\* Every variable of the server keeps its type, and rid_past is the largest
\* request-id there is.
THEOREM TypeCorrect == Spec => []TypeOK
<1>1. ServerInv => TypeOK
  BY DEF ServerInv
<1> QED BY <1>1, ServerInvariant, PTL

\* No two requests in service have the same scratch suffix, and a request that
\* has ended, or panicked, has none.
THEOREM SuffixesOwned == Spec => []SuffixOwned
<1>1. ServerInv => SuffixOwned
  <2> SUFFICES ASSUME ServerInv, NEW t \in Tasks
               PROVE  IF InService(t)
                      THEN /\ suffixes[suffix[t]] = rid[t]
                           /\ \A s \in Tasks \ {t} : InService(s) => suffix[s] # suffix[t]
                      ELSE \A s \in Suffixes : rid[t] # 0 => suffixes[s] # rid[t]
    BY DEF SuffixOwned
  <2>1. CASE InService(t)
    BY <2>1 DEF ServerInv, IdsMade, IdsDistinct, SuffixTaken
  <2>2. CASE ~ InService(t)
    BY <2>2 DEF ServerInv, SuffixesOfService
  <2> QED BY <2>1, <2>2
<1> QED BY <1>1, ServerInvariant, PTL

\* make_request_id: "It is strictly increasing", whatever times are read before
\* the mutex is taken.
THEOREM IdsAlwaysIncrease == Spec => IdsIncrease
<1>1. ServerInv /\ [Next]_vars =>
        [\A s, t \in Tasks : rid[t] = 0 /\ rid'[t] # 0 => rid[s] < rid'[t]]_vars
  <2> SUFFICES ASSUME ServerInv, Next, NEW s \in Tasks, NEW t \in Tasks,
                      rid[t] = 0, rid'[t] # 0
               PROVE  rid[s] < rid'[t]
    OBVIOUS
  <2>1. PICK u \in Tasks : Make_request_id(u)
    BY DEF Next, Request, Stopping, Ended, Arrive, Attest_authorization, Read_time,
           Make_scratch_suffix, Suffix_fatal, Serve, Serve_panic, Discharge_scratch_suffix,
           Return, Shutdown, Shutdown_returns, Shutdown_fails, Forced_quit, Main_returns,
           requests, vars
  <2>2. rid' = [rid EXCEPT ![u] = new_rid(u)]
    BY <2>1 DEF Make_request_id
  <2>3. u = t /\ rid'[t] = new_rid(t)
    BY <2>2 DEF ServerInv, TypeOK
  <2>4. new_rid(t) \in Nat /\ rid_past < new_rid(t)
    BY NewRidLarger DEF ServerInv
  <2> QED BY <2>3, <2>4 DEF ServerInv, TypeOK
<1> QED BY <1>1, ServerInvariant, PTL DEF Spec, IdsIncrease
=============================================================================
