------------------------- MODULE ObjectStoreProofs -------------------------
(***************************************************************************)
(* Proofs about ObjectStore, for any number of requests, objects, contents *)
(* and failures.                                                           *)
(***************************************************************************)
EXTENDS ObjectStore, TLAPS

(***************************************************************************)
(* Type correctness.  What a request has read and prepared at each step:   *)
(* a request in exclusion has the values that it is about to store.        *)
(***************************************************************************)
Ready(t) ==
  /\ pc[t] # "idle" => req[t] \in Reqs
  /\ pc[t] = "upload" => op(t) = "PutObject"
  /\ pc[t] = "link" => op(t) = "CopyObject"
  /\ pc[t] \in {"place", "rename", "undo"} => op(t) \in Writing
  /\ pc[t] = "store" => op(t) \in Writing \cup Reading \cup Tagging
  /\ pc[t] \in {"stat", "meta", "md5", "lock", "guard", "store", "place", "rename"}
       /\ op(t) = "PutObject" => scratch[t] # Nil
  /\ pc[t] \in {"lock", "guard", "store", "place", "rename"}
       /\ op(t) = "CopyObject" => scratch[t] # Nil
  /\ pc[t] \in {"meta", "md5"} => stat[t] # Nil \/ conditional_put(t)
  /\ pc[t] \in {"lock", "guard", "store"} /\ op(t) \in Reading
       => stat[t] # Nil /\ etag[t] # Nil
  /\ pc[t] = "store" /\ op(t) \in Writing => new_metainfo(t) # Nil
  /\ pc[t] = "store" /\ op(t) = "PutObjectTagging" => stat[t] # Nil /\ etag[t] # Nil
  /\ pc[t] = "store" /\ op(t) = "DeleteObjectTagging" => seen[t] # Nil

TypeInv == TypeOK /\ \A t \in Tasks : Ready(t)

\* The state of a request other than the one that takes a step.
Same(u) ==
  /\ pc'[u] = pc[u] /\ req'[u] = req[u] /\ scratch'[u] = scratch[u]
  /\ stat'[u] = stat[u] /\ etag'[u] = etag[u] /\ seen'[u] = seen[u]

\* Ready only depends on the state of its request.
LEMMA ReadySame == ASSUME NEW u \in Tasks, Same(u), Ready(u) PROVE Ready(u)'
BY DEF Same, Ready, op, conditional_put, new_metainfo, make_metainfo, by_directive

\* The metainfo that PutObject and CopyObject prepare is well formed.
LEMMA NewMetainfoType ==
  ASSUME NEW t \in Tasks, req[t] \in Reqs, scratch[t] \in File,
         seen[t] \in Opt(Meta_info)
  PROVE  new_metainfo(t) \in Opt(Meta_info)
<1>1. req[t] \in Request
  BY StoreAssumption
<1>2. \A g, c \in Opt(Labels), d \in Directive : by_directive(d, g, c) \in Opt(Labels)
  BY DEF by_directive, Directive, Opt
<1>3. \A a, b \in Opt(Labels) : make_metainfo(scratch[t], a, b) \in Opt(Meta_info)
  BY DEF make_metainfo, Opt, Meta_info, File
<1>4. /\ (IF seen[t] = Nil THEN Nil ELSE seen[t].tags) \in Opt(Labels)
      /\ (IF seen[t] = Nil THEN Nil ELSE seen[t].hdrs) \in Opt(Labels)
  BY DEF Opt, Meta_info
<1>5. /\ req[t].tags \in Opt(Labels) /\ req[t].hdrs \in Opt(Labels)
      /\ req[t].tagging \in Directive /\ req[t].metadata \in Directive
  BY <1>1 DEF Request
<1> QED BY <1>2, <1>3, <1>4, <1>5 DEF new_metainfo, op

\* What a request stores in the metainfo file is well formed.
LEMMA StoredType ==
  ASSUME TypeInv, NEW t \in Tasks, pc[t] = "store"
  PROVE  metainfo_to_store(t) \in Meta_info
<1>1. /\ req[t] \in Reqs /\ Ready(t)
      /\ stat[t] \in Opt(File) /\ etag[t] \in Opt(Data)
      /\ seen[t] \in Opt(Meta_info) /\ scratch[t] \in Opt(File)
  BY DEF TypeInv, TypeOK, Ready
<1>2. req[t] \in Request
  BY <1>1, StoreAssumption
<1>3. stat[t] # Nil /\ etag[t] # Nil => etag_metainfo(t) \in Meta_info
  BY <1>1 DEF etag_metainfo, Opt, Meta_info, File
<1>4. CASE op(t) \in Writing
  <2>1. scratch[t] \in File
    BY <1>1, <1>4 DEF Ready, Opt, Writing
  <2>2. new_metainfo(t) \in Meta_info
    BY <1>1, <1>4, <2>1, NewMetainfoType DEF Ready, Opt
  <2> QED BY <1>4, <2>2 DEF metainfo_to_store, Writing, Reading
<1>5. CASE op(t) \in Reading
  BY <1>1, <1>3, <1>5 DEF metainfo_to_store, Ready, Reading, Writing
<1>6. CASE op(t) = "PutObjectTagging"
  <2> DEFINE m == IF seen[t] = Nil THEN etag_metainfo(t) ELSE seen[t]
  <2>1. m \in Meta_info
    BY <1>1, <1>3, <1>6 DEF Ready, Opt
  <2>2. [m EXCEPT !.tags = req[t].tags] \in Meta_info
    BY <1>2, <2>1 DEF Meta_info, Request
  <2> QED BY <1>6, <2>2 DEF metainfo_to_store, Reading, Writing
<1>7. CASE op(t) = "DeleteObjectTagging"
  <2>1. seen[t] \in Meta_info
    BY <1>1, <1>7 DEF Ready, Opt
  <2>2. [seen[t] EXCEPT !.tags = Nil] \in Meta_info
    BY <2>1 DEF Meta_info, Opt
  <2> QED BY <1>7, <2>2 DEF metainfo_to_store, Reading, Writing
<1> QED BY <1>1, <1>4, <1>5, <1>6, <1>7 DEF Ready, Tagging

\* The answer of a request is well formed, and a request that ends is ready.
LEMMA AnswerType ==
  ASSUME TypeInv, NEW t \in Tasks, NEW r \in Response, pc[t] # "idle", answer(t, r)
  PROVE  /\ resp' \in [Tasks -> Opt(Response)]
         /\ pc' \in [Tasks -> PC]
         /\ pc'[t] \in {"unlock", "discard", "done"}
         /\ \A u \in Tasks \ {t} : pc'[u] = pc[u]
BY DEF TypeInv, TypeOK, answer, go, Opt, PC

LEMMA ReplyType == \A c \in Codes : reply(c) \in Response
BY DEF reply, Response, Opt

LEMMA FinishType ==
  ASSUME TypeInv, NEW t \in Tasks, NEW c \in Codes, pc[t] # "idle", finish(t, c)
  PROVE  /\ resp' \in [Tasks -> Opt(Response)]
         /\ pc' \in [Tasks -> PC]
         /\ pc'[t] \in {"unlock", "discard", "done"}
         /\ \A u \in Tasks \ {t} : pc'[u] = pc[u]
BY AnswerType, ReplyType DEF finish

LEMMA GoType ==
  ASSUME TypeInv, NEW t \in Tasks, NEW p \in PC, go(t, p)
  PROVE  /\ pc' \in [Tasks -> PC]
         /\ pc'[t] = p
         /\ \A u \in Tasks \ {t} : pc'[u] = pc[u]
BY DEF TypeInv, TypeOK, go

\* check_conditions has one of four outcomes.
LEMMA ConditionCodes ==
  ASSUME NEW e, NEW m, NEW c
  PROVE  check_conditions(e, m, c) \in {"OK", "PreconditionFailed", "NotModified"}
BY DEF check_conditions

LEMMA FetchType ==
  ASSUME TypeOK, NEW k \in Keys, NEW f
  PROVE  fetch_object_metainfo(k, f) \in Opt(Meta_info)
BY DEF TypeOK, fetch_object_metainfo, Opt

\* The keys of a request that has started.
LEMMA KeyType ==
  ASSUME TypeInv, NEW t \in Tasks, pc[t] # "idle"
  PROVE  /\ req[t] \in Reqs /\ req[t] \in Request
         /\ key(t) \in Keys /\ read_key(t) \in Keys /\ op(t) \in Ops
<1>1. req[t] \in Reqs
  BY DEF TypeInv, Ready
<1>2. req[t] \in Request
  BY <1>1, StoreAssumption
<1>3. op(t) = "CopyObject" => req[t].src \in Keys
  BY <1>1, <1>2, StoreAssumption DEF op, Request, Opt
<1> QED BY <1>1, <1>2, <1>3 DEF key, read_key, op, Request

LEMMA StartType ==
  ASSUME TypeInv, NEW t \in Tasks, Start(t) PROVE TypeInv'
<1> PICK r \in Reqs : req' = [req EXCEPT ![t] = r]
                      /\ go(t, CASE r.op = "PutObject" -> "upload"
                                 [] r.op \in Tagging -> "lock"
                                 [] OTHER -> "stat")
  BY DEF Start
<1> DEFINE p == CASE r.op = "PutObject" -> "upload"
                  [] r.op \in Tagging -> "lock"
                  [] OTHER -> "stat"
<1>1. /\ p = "upload" => r.op = "PutObject"
      /\ p = "lock" => r.op \in Tagging
      /\ p = "stat" => r.op # "PutObject"
      /\ p \in {"upload", "lock", "stat"}
  BY DEF Tagging
<1>2. /\ pc' \in [Tasks -> PC] /\ pc'[t] = p
      /\ \A u \in Tasks \ {t} : pc'[u] = pc[u]
  <2> HIDE DEF p
  <2>1. p \in PC BY <1>1 DEF PC
  <2> QED BY <2>1, GoType DEF p
<1>3. req' \in [Tasks -> Opt(Reqs)] /\ req'[t] = r
      /\ \A u \in Tasks \ {t} : req'[u] = req[u]
  BY DEF TypeInv, TypeOK, Opt
<1>4. TypeOK'
  BY <1>2, <1>3 DEF TypeInv, TypeOK, Start, reading
<1>5. Ready(t)'
  <2> HIDE DEF p
  <2> QED BY <1>1, <1>2, <1>3 DEF Ready, op, Tagging, Writing, Reading
<1>6. \A u \in Tasks \ {t} : Ready(u)'
  BY <1>2, <1>3, ReadySame DEF Same, Start, reading, TypeInv
<1> QED BY <1>4, <1>5, <1>6 DEF TypeInv

\* Nothing is demanded of a request that returns or reads on.
LEMMA ReadyCalm ==
  ASSUME NEW t \in Tasks, req'[t] \in Reqs,
         pc'[t] \in {"unlock", "discard", "done", "dead", "serve", "unmeta", "remove"}
  PROVE  Ready(t)'
BY DEF Ready

LEMMA ReadyOthers ==
  ASSUME TypeInv, NEW t \in Tasks, \A u \in Tasks \ {t} : Same(u)
  PROVE  \A u \in Tasks \ {t} : Ready(u)'
BY ReadySame DEF TypeInv

\* The steps before exclusion keep TypeInv.
LEMMA PrepareType ==
  ASSUME TypeInv, NEW t \in Tasks, Prepare(t) PROVE TypeInv'
<1>0. pc[t] # "idle"
  BY DEF Prepare, Upload_scratch, Upload_fault, Fetch_object_status,
         Fetch_object_metainfo, Calculate_csum2, Copy_scratch, Copy_scratch_fault
<1>1. /\ req[t] \in Reqs /\ req[t] \in Request
      /\ key(t) \in Keys /\ read_key(t) \in Keys /\ op(t) \in Ops
  BY <1>0, KeyType
<1>2. CASE Upload_scratch(t)
  <2>1. req[t].data \in Data
    BY <1>1, <1>2, StoreAssumption DEF TypeInv, Ready, Upload_scratch, op, Request, Opt
  <2>2. [ino |-> made + 1, data |-> req[t].data] \in File
    BY <2>1 DEF TypeInv, TypeOK, File
  <2>3. /\ scratch' \in [Tasks -> Opt(File)] /\ scratch'[t] # Nil /\ made' \in Nat
        /\ \A u \in Tasks \ {t} : scratch'[u] = scratch[u]
    BY <1>2, <2>2, StoreAssumption DEF Upload_scratch, TypeInv, TypeOK, Opt
  <2>4. /\ pc' \in [Tasks -> PC] /\ pc'[t] \in {"stat", "lock"}
        /\ \A u \in Tasks \ {t} : pc'[u] = pc[u]
    BY <1>2, GoType DEF Upload_scratch, PC
  <2>5. TypeOK'
    BY <1>2, <2>3, <2>4 DEF Upload_scratch, TypeInv, TypeOK, reading
  <2>6. Ready(t)'
    BY <1>1, <1>2, <2>3, <2>4 DEF Upload_scratch, TypeInv, Ready, op, Reading
  <2> QED BY <1>2, <2>3, <2>4, <2>5, <2>6, ReadyOthers
          DEF Upload_scratch, TypeInv, Same, reading
<1>3. CASE Upload_fault(t)
  <2>1. req[t].data \in Data
    BY <1>1, <1>3, StoreAssumption DEF TypeInv, Ready, Upload_fault, op, Request, Opt
  <2>2. [ino |-> made + 1, data |-> req[t].data] \in File
    BY <2>1 DEF TypeInv, TypeOK, File
  <2>3. /\ scratch' \in [Tasks -> Opt(File)] /\ made' \in Nat
        /\ \A u \in Tasks \ {t} : scratch'[u] = scratch[u]
    BY <1>3, <2>2 DEF Upload_fault, TypeInv, TypeOK, Opt
  <2>4. /\ pc' \in [Tasks -> PC] /\ pc'[t] = "discard"
        /\ \A u \in Tasks \ {t} : pc'[u] = pc[u]
    BY <1>3, GoType DEF Upload_fault, PC
  <2>5. resp' \in [Tasks -> Opt(Response)]
    BY <1>3, ReplyType DEF Upload_fault, Codes, TypeInv, TypeOK, Opt
  <2>6. TypeOK'
    BY <1>3, <2>3, <2>4, <2>5 DEF Upload_fault, TypeInv, TypeOK, reading
  <2>7. Ready(t)'
    BY <1>1, <1>3, <2>4, ReadyCalm DEF Upload_fault
  <2> QED BY <1>3, <2>3, <2>4, <2>6, <2>7, ReadyOthers
          DEF Upload_fault, TypeInv, Same, reading
<1>4. CASE Fetch_object_status(t)
  <2>1. /\ stat' \in [Tasks -> Opt(File)] /\ stat'[t] = file[read_key(t)]
        /\ \A u \in Tasks \ {t} : stat'[u] = stat[u]
    BY <1>1, <1>4 DEF Fetch_object_status, TypeInv, TypeOK
  <2>2. CASE file[read_key(t)] = Nil /\ ~ conditional_put(t)
    <3>1. finish(t, "NoSuchKey")
      BY <1>4, <2>2 DEF Fetch_object_status
    <3>2. /\ resp' \in [Tasks -> Opt(Response)] /\ pc' \in [Tasks -> PC]
          /\ pc'[t] \in {"unlock", "discard", "done"}
          /\ \A u \in Tasks \ {t} : pc'[u] = pc[u]
      BY <1>0, <3>1, FinishType DEF Codes
    <3>3. TypeOK'
      BY <1>4, <2>1, <3>2 DEF Fetch_object_status, TypeInv, TypeOK
    <3>4. Ready(t)'
      BY <1>1, <1>4, <3>2, ReadyCalm DEF Fetch_object_status
    <3> QED BY <1>4, <2>1, <3>2, <3>3, <3>4, ReadyOthers
            DEF Fetch_object_status, TypeInv, Same
  <2>3. CASE ~ (file[read_key(t)] = Nil /\ ~ conditional_put(t))
    <3>1. go(t, "meta") /\ UNCHANGED resp
      BY <1>4, <2>3 DEF Fetch_object_status
    <3>2. /\ pc' \in [Tasks -> PC] /\ pc'[t] = "meta"
          /\ \A u \in Tasks \ {t} : pc'[u] = pc[u]
      BY <3>1, GoType DEF PC
    <3>3. TypeOK'
      BY <1>4, <2>1, <3>1, <3>2 DEF Fetch_object_status, TypeInv, TypeOK
    <3>4. Ready(t)'
      BY <1>1, <1>4, <2>1, <2>3, <3>2
      DEF Fetch_object_status, TypeInv, Ready, op, conditional_put
    <3> QED BY <1>4, <2>1, <3>2, <3>3, <3>4, ReadyOthers
            DEF Fetch_object_status, TypeInv, Same
  <2> QED BY <2>2, <2>3
<1>5. CASE Fetch_object_metainfo(t)
  <2> DEFINE m == fetch_object_metainfo(read_key(t), stat[t])
  <2>1. m \in Opt(Meta_info)
    BY <1>1, FetchType DEF TypeInv
  <2>2. /\ seen' \in [Tasks -> Opt(Meta_info)] /\ seen'[t] = m
        /\ \A u \in Tasks \ {t} : seen'[u] = seen[u]
    <3> HIDE DEF m
    <3> QED BY <1>5, <2>1 DEF Fetch_object_metainfo, TypeInv, TypeOK, m
  <2>3. /\ etag' \in [Tasks -> Opt(Data)] /\ etag'[t] = IF m = Nil THEN Nil ELSE m.etag
        /\ \A u \in Tasks \ {t} : etag'[u] = etag[u]
    <3>1. (IF m = Nil THEN Nil ELSE m.etag) \in Opt(Data)
      <4> HIDE DEF m
      <4> QED BY <2>1 DEF Opt, Meta_info
    <3>2. etag' = [etag EXCEPT ![t] = IF m = Nil THEN Nil ELSE m.etag]
      BY <1>5 DEF Fetch_object_metainfo
    <3> HIDE DEF m
    <3> QED BY <3>1, <3>2 DEF TypeInv, TypeOK
  <2>4. m # Nil => m.etag # Nil /\ stat[t] # Nil
    <3>1. m # Nil => stat[t] # Nil
      BY DEF fetch_object_metainfo
    <3> HIDE DEF m
    <3> QED BY <2>1, <3>1, StoreAssumption DEF Opt, Meta_info
  <2>5. pc[t] = "meta" /\ UNCHANGED <<file, meta, holder, made, req, stat, scratch, crashes, prior>>
    BY <1>5 DEF Fetch_object_metainfo
  <2>6. \/ finish(t, "OK")
        \/ UNCHANGED resp /\ go(t, "serve")
        \/ /\ UNCHANGED resp /\ go(t, "store")
           /\ op(t) = "DeleteObjectTagging" /\ m # Nil
        \/ UNCHANGED resp /\ op(t) # "DeleteObjectTagging" /\ m = Nil /\ go(t, "md5")
        \/ UNCHANGED resp /\ m # Nil /\ go(t, after_etag(t, m))
    <3>1. CASE op(t) = "GetObjectTagging"
      BY <1>5, <3>1 DEF Fetch_object_metainfo
    <3>2. CASE op(t) = "DeleteObjectTagging"
      BY <1>5, <3>2 DEF Fetch_object_metainfo
    <3>3. CASE op(t) \notin {"GetObjectTagging", "DeleteObjectTagging"}
      BY <1>5, <3>3 DEF Fetch_object_metainfo
    <3> QED BY <3>1, <3>2, <3>3
  <2> HIDE DEF m
  <2>7. CASE finish(t, "OK")
    <3>1. /\ resp' \in [Tasks -> Opt(Response)] /\ pc' \in [Tasks -> PC]
          /\ pc'[t] \in {"unlock", "discard", "done"}
          /\ \A u \in Tasks \ {t} : pc'[u] = pc[u]
      BY <1>0, <2>7, FinishType DEF Codes
    <3>2. TypeOK'
      BY <2>2, <2>3, <2>5, <3>1 DEF TypeInv, TypeOK
    <3>3. Ready(t)'
      BY <1>1, <2>5, <3>1, ReadyCalm
    <3> QED BY <2>2, <2>3, <2>5, <3>1, <3>2, <3>3, ReadyOthers DEF TypeInv, Same
  <2>8. ASSUME NEW p \in PC, go(t, p), UNCHANGED resp,
               \/ p = "serve"
               \/ p = "store" /\ op(t) = "DeleteObjectTagging" /\ m # Nil
               \/ p = "md5"
               \/ p = after_etag(t, m) /\ m # Nil
        PROVE  TypeInv'
    <3>1. /\ pc' \in [Tasks -> PC] /\ pc'[t] = p
          /\ \A u \in Tasks \ {t} : pc'[u] = pc[u]
      BY <2>8, GoType
    <3>2. TypeOK'
      BY <2>2, <2>3, <2>5, <2>8, <3>1 DEF TypeInv, TypeOK
    <3>3. p = after_etag(t, m) /\ m # Nil =>
            \/ p = "serve"
            \/ p = "link" /\ op(t) = "CopyObject"
            \/ p = "lock" /\ op(t) \in {"PutObject", "DeleteObject"} \cup Reading
            \/ p = "store" /\ op(t) = "PutObjectTagging"
      BY DEF after_etag
    <3>4. pc'[t] # "serve" => Ready(t)'
      BY <1>1, <2>2, <2>3, <2>4, <2>5, <2>8, <3>1, <3>3
      DEF TypeInv, Ready, op, Reading, Writing, Tagging, conditional_put
    <3>5. pc'[t] = "serve" => Ready(t)'
      BY <1>1, <2>5, <3>1, ReadyCalm
    <3> QED BY <2>2, <2>3, <2>5, <3>1, <3>2, <3>4, <3>5, ReadyOthers DEF TypeInv, Same
  <2>9. after_etag(t, m) \in PC /\ {"serve", "store", "md5"} \subseteq PC
    BY <1>1 DEF after_etag, PC
  <2> QED BY <2>6, <2>7, <2>8, <2>9
<1>6. CASE Calculate_csum2(t)
  <2> DEFINE f == file[read_key(t)]
  <2>0. /\ pc[t] = "md5" /\ f \in Opt(File)
        /\ UNCHANGED <<file, meta, holder, made, req, stat, seen, scratch, crashes, prior>>
    BY <1>1, <1>6 DEF Calculate_csum2, TypeInv, TypeOK
  <2>1. CASE f # Nil \/ conditional_put(t)
    <3>1. /\ etag' = [etag EXCEPT ![t] = IF f = Nil THEN Nil ELSE f.data]
          /\ go(t, after_etag(t, Nil)) /\ UNCHANGED resp
      BY <1>6, <2>1 DEF Calculate_csum2
    <3>2. after_etag(t, Nil) \in PC
      BY <1>1 DEF after_etag, PC
    <3>3. /\ pc' \in [Tasks -> PC] /\ pc'[t] = after_etag(t, Nil)
          /\ \A u \in Tasks \ {t} : pc'[u] = pc[u]
      BY <3>1, <3>2, GoType
    <3>4. /\ etag' \in [Tasks -> Opt(Data)]
          /\ f # Nil => etag'[t] # Nil
          /\ \A u \in Tasks \ {t} : etag'[u] = etag[u]
      BY <2>0, <3>1, StoreAssumption DEF TypeInv, TypeOK, Opt, File
    <3>5. TypeOK'
      BY <2>0, <3>1, <3>3, <3>4 DEF TypeInv, TypeOK
    <3>6. \/ pc'[t] = "serve"
          \/ pc'[t] = "link" /\ op(t) = "CopyObject"
          \/ pc'[t] = "lock" /\ op(t) \in {"PutObject", "DeleteObject"} \cup Reading
          \/ pc'[t] = "store" /\ op(t) = "PutObjectTagging"
      BY <3>3 DEF after_etag
    <3>7. op(t) # "PutObject" => stat[t] # Nil /\ etag'[t] # Nil
      BY <2>0, <2>1, <3>4 DEF TypeInv, Ready, conditional_put
    <3>8. pc'[t] # "serve" => Ready(t)'
      BY <1>1, <2>0, <3>6, <3>7 DEF TypeInv, Ready, op, Reading, Writing, Tagging
    <3>9. pc'[t] = "serve" => Ready(t)'
      BY <1>1, <2>0, ReadyCalm
    <3> QED BY <2>0, <3>3, <3>4, <3>5, <3>8, <3>9, ReadyOthers DEF TypeInv, Same
  <2>2. CASE ~ (f # Nil \/ conditional_put(t))
    <3>1. finish(t, "InternalError") /\ UNCHANGED etag
      BY <1>6, <2>2 DEF Calculate_csum2
    <3>2. /\ resp' \in [Tasks -> Opt(Response)] /\ pc' \in [Tasks -> PC]
          /\ pc'[t] \in {"unlock", "discard", "done"}
          /\ \A u \in Tasks \ {t} : pc'[u] = pc[u]
      BY <1>0, <3>1, FinishType DEF Codes
    <3>3. TypeOK'
      BY <2>0, <3>1, <3>2 DEF TypeInv, TypeOK
    <3>4. Ready(t)'
      BY <1>1, <2>0, <3>2, ReadyCalm
    <3> QED BY <2>0, <3>1, <3>2, <3>3, <3>4, ReadyOthers DEF TypeInv, Same
  <2> QED BY <2>1, <2>2
<1>7. CASE Copy_scratch(t) \/ Copy_scratch_fault(t)
  <2>0. /\ pc[t] = "link" /\ op(t) = "CopyObject" /\ req[t].src \in Keys
        /\ UNCHANGED <<file, meta, holder, made, req, reading, crashes, prior>>
    BY <1>1, <1>7 DEF Copy_scratch, Copy_scratch_fault, TypeInv, Ready, read_key
  <2>1. /\ scratch' \in [Tasks -> Opt(File)]
        /\ \A u \in Tasks \ {t} : scratch'[u] = scratch[u]
    BY <1>7, <2>0 DEF Copy_scratch, Copy_scratch_fault, TypeInv, TypeOK
  <2>2. \/ \E c \in Codes : finish(t, c)
        \/ go(t, "lock") /\ UNCHANGED resp /\ scratch'[t] # Nil
        \/ go(t, "done") /\ resp' = [resp EXCEPT ![t] = reply("InternalError")]
    <3>1. CASE Copy_scratch_fault(t)
      BY <3>1 DEF Copy_scratch_fault
    <3>2. CASE Copy_scratch(t)
      <4> DEFINE c == check_conditions(etag[t], "read", req[t].cond)
      <4>1. CASE c # "OK"
        BY <3>2, <4>1, ConditionCodes DEF Copy_scratch, Codes
      <4>2. CASE c = "OK" /\ file[req[t].src] = Nil
        BY <3>2, <4>2 DEF Copy_scratch, Codes
      <4>3. CASE c = "OK" /\ file[req[t].src] # Nil
        BY <3>2, <4>3 DEF Copy_scratch, TypeInv, TypeOK
      <4> QED BY <4>1, <4>2, <4>3
    <3> QED BY <1>7, <3>1, <3>2
  <2>3. /\ pc' \in [Tasks -> PC] /\ resp' \in [Tasks -> Opt(Response)]
        /\ pc'[t] \in {"unlock", "discard", "done"} \/ (pc'[t] = "lock" /\ scratch'[t] # Nil)
        /\ \A u \in Tasks \ {t} : pc'[u] = pc[u]
    <3>1. CASE \E c \in Codes : finish(t, c)
      BY <1>0, <3>1, FinishType
    <3>2. CASE go(t, "lock") /\ UNCHANGED resp /\ scratch'[t] # Nil
      BY <3>2, GoType DEF PC, TypeInv, TypeOK
    <3>3. CASE go(t, "done") /\ resp' = [resp EXCEPT ![t] = reply("InternalError")]
      <4>1. reply("InternalError") \in Response
        BY ReplyType DEF Codes
      <4> QED BY <3>3, <4>1, GoType DEF PC, TypeInv, TypeOK, Opt
    <3> QED BY <2>2, <3>1, <3>2, <3>3
  <2>4. TypeOK'
    BY <2>0, <2>1, <2>3 DEF TypeInv, TypeOK, reading
  <2>5. Ready(t)'
    <3>1. CASE pc'[t] = "lock" /\ scratch'[t] # Nil
      BY <1>1, <2>0, <3>1 DEF Ready, op, Reading
    <3> QED BY <1>1, <2>0, <2>3, <3>1, ReadyCalm
  <2> QED BY <2>0, <2>1, <2>3, <2>4, <2>5, ReadyOthers DEF TypeInv, Same, reading
<1> QED BY <1>2, <1>3, <1>4, <1>5, <1>6, <1>7 DEF Prepare

\* A step that changes only pc and resp of a request, and files, keeps
\* TypeInv if the request is ready for its next step.
LEMMA PlainType ==
  ASSUME TypeInv, NEW t \in Tasks,
         \/ \E c \in Codes : finish(t, c)
         \/ UNCHANGED resp /\ \E p \in PC : go(t, p),
         pc[t] # "idle",
         UNCHANGED <<req, reading, scratch, crashes, prior, made>>,
         file' \in [Keys -> Opt(File)], meta' \in [Keys -> Opt(Meta_info)],
         holder' \in [Keys -> Opt(Tasks)],
         UNCHANGED resp => Ready(t)'
  PROVE  TypeInv'
<1>1. /\ pc' \in [Tasks -> PC] /\ resp' \in [Tasks -> Opt(Response)]
      /\ \A u \in Tasks \ {t} : pc'[u] = pc[u]
  <2>1. CASE \E c \in Codes : finish(t, c)
    BY <2>1, FinishType
  <2>2. CASE UNCHANGED resp /\ \E p \in PC : go(t, p)
    BY <2>2, GoType DEF TypeInv, TypeOK
  <2> QED BY <2>1, <2>2
<1>2. TypeOK'
  BY <1>1 DEF TypeInv, TypeOK, reading
<1>3. Ready(t)'
  <2>1. CASE \E c \in Codes : finish(t, c)
    BY <2>1, FinishType, KeyType, ReadyCalm
  <2> QED BY <2>1
<1> QED BY <1>1, <1>2, <1>3, ReadyOthers DEF TypeInv, Same, reading

\* The steps of entering exclusion keep TypeInv.
LEMMA LockType ==
  ASSUME TypeInv, NEW t \in Tasks, Serialize_access(t) \/ Access_timeout(t)
  PROVE  TypeInv'
<1>0. pc[t] = "lock"
  BY DEF Serialize_access, Access_timeout
<1>1. /\ req[t] \in Reqs /\ req[t] \in Request
      /\ key(t) \in Keys /\ read_key(t) \in Keys /\ op(t) \in Ops
  BY <1>0, KeyType
<1>2. CASE Access_timeout(t)
  <2>1. "RequestTimeout" \in Codes
    BY DEF Codes
  <2>2. finish(t, "RequestTimeout") /\ UNCHANGED <<file, meta, holder, made, req, reading, scratch, crashes, prior>>
    BY <1>2 DEF Access_timeout
  <2>3. /\ pc' \in [Tasks -> PC] /\ resp' \in [Tasks -> Opt(Response)]
        /\ \A u \in Tasks \ {t} : pc'[u] = pc[u]
        /\ pc'[t] \in {"unlock", "discard", "done"}
    BY <1>0, <2>1, <2>2, FinishType
  <2>4. TypeOK'
    BY <2>2, <2>3 DEF TypeInv, TypeOK, reading
  <2>5. Ready(t)'
    BY <1>1, <2>2, <2>3, ReadyCalm
  <2> QED BY <2>2, <2>3, <2>4, <2>5, ReadyOthers DEF TypeInv, Same, reading
<1>3. CASE Serialize_access(t)
  <2> DEFINE p == CASE op(t) \in Tagging -> "stat"
                    [] op(t) = "CopyObject" -> to_place(t)
                    [] op(t) = "PutObject" /\ ~ conditional_put(t) -> to_place(t)
                    [] OTHER -> "guard"
  <2>1. /\ p \in {"stat", "place", "store", "guard"}
        /\ p = "stat" => op(t) \in Tagging
        /\ p \in {"place", "store"} => op(t) \in Writing
        /\ p = "store" => new_metainfo(t) # Nil
    BY DEF to_place, Tagging, Writing
  <2>2. /\ go(t, p) /\ holder' = [holder EXCEPT ![key(t)] = t]
        /\ prior' = [prior EXCEPT ![t] = fetch_object_metainfo(key(t), file[key(t)])]
        /\ UNCHANGED <<file, meta, made, req, reading, scratch, resp, crashes>>
    BY <1>3 DEF Serialize_access
  <2> HIDE DEF p
  <2>3. /\ pc' \in [Tasks -> PC] /\ pc'[t] = p
        /\ \A u \in Tasks \ {t} : pc'[u] = pc[u]
    <3>1. p \in PC
      BY <2>1 DEF PC
    <3> QED BY <2>2, <3>1, GoType
  <2>4. prior' \in [Tasks -> Opt(Meta_info)] /\ holder' \in [Keys -> Opt(Tasks)]
    BY <1>1, <2>2, FetchType DEF TypeInv, TypeOK, Opt
  <2>5. TypeOK'
    BY <2>2, <2>3, <2>4 DEF TypeInv, TypeOK, reading
  <2>6. new_metainfo(t)' = new_metainfo(t)
    BY <2>2 DEF new_metainfo, make_metainfo, by_directive, op, reading
  <2>7. Ready(t)'
    BY <1>0, <1>1, <2>1, <2>2, <2>3, <2>6
    DEF TypeInv, Ready, op, reading, Tagging, Writing, Reading
  <2> QED BY <2>2, <2>3, <2>5, <2>7, ReadyOthers DEF TypeInv, Same, reading
<1> QED BY <1>2, <1>3

\* The steps in exclusion keep TypeInv.
LEMMA ModifyType ==
  ASSUME TypeInv, NEW t \in Tasks, Modify(t) PROVE TypeInv'
<1>0. pc[t] \in {"guard", "store", "place", "rename", "undo", "unmeta", "remove"}
  BY DEF Modify, Store_metainfo_serialized, Recheck_target, Recheck_panic,
         Store_object_metainfo, Store_fault, Place_remove_same, Place_scratch_file,
         Place_fault, Place_undo, Delete_metainfo, Delete_object, Delete_fault
<1>1. /\ req[t] \in Reqs /\ req[t] \in Request
      /\ key(t) \in Keys /\ read_key(t) \in Keys /\ op(t) \in Ops
  BY <1>0, KeyType
<1>2. /\ file \in [Keys -> Opt(File)] /\ meta \in [Keys -> Opt(Meta_info)]
      /\ holder \in [Keys -> Opt(Tasks)]
  BY DEF TypeInv, TypeOK
<1>3. CASE Store_metainfo_serialized(t)
  <2>1. /\ pc[t] = "guard" /\ op(t) \in Reading
        /\ UNCHANGED <<file, meta, holder, made, req, reading, scratch, crashes, prior>>
        /\ \/ \E c \in Codes : finish(t, c)
           \/ UNCHANGED resp /\ go(t, "store")
    BY <1>3 DEF Store_metainfo_serialized, Codes
  <2>2. go(t, "store") => Ready(t)'
    <3> SUFFICES ASSUME go(t, "store") PROVE Ready(t)'
      OBVIOUS
    <3>1. pc'[t] = "store"
      BY GoType DEF PC
    <3> QED BY <1>1, <2>1, <3>1 DEF TypeInv, Ready, op, reading, Reading, Writing
  <2>3. CASE \E c \in Codes : finish(t, c)
    <3>1. Ready(t)'
      BY <1>0, <1>1, <2>1, <2>3, FinishType, ReadyCalm
    <3> QED BY <1>0, <1>2, <2>1, <2>3, <3>1, PlainType
  <2>4. CASE UNCHANGED resp /\ go(t, "store")
    <3>1. "store" \in PC
      BY DEF PC
    <3> QED BY <1>0, <1>2, <2>1, <2>2, <2>4, <3>1, PlainType
  <2> QED BY <2>1, <2>3, <2>4
<1>4. CASE Recheck_target(t)
  <2>1. /\ pc[t] = "guard" /\ op(t) \in {"PutObject", "DeleteObject"}
        /\ UNCHANGED <<file, meta, holder, made, req, reading, scratch, crashes, prior>>
        /\ \/ \E c \in Codes : finish(t, c)
           \/ UNCHANGED resp /\ go(t, IF op(t) = "DeleteObject" THEN "unmeta" ELSE to_place(t))
    BY <1>4, ConditionCodes DEF Recheck_target, Codes
  <2>2. CASE \E c \in Codes : finish(t, c)
    <3>1. Ready(t)'
      BY <1>0, <1>1, <2>1, <2>2, FinishType, ReadyCalm
    <3> QED BY <1>0, <1>2, <2>1, <2>2, <3>1, PlainType
  <2>3. CASE UNCHANGED resp /\ go(t, IF op(t) = "DeleteObject" THEN "unmeta" ELSE to_place(t))
    <3> DEFINE p == IF op(t) = "DeleteObject" THEN "unmeta" ELSE to_place(t)
    <3>1. /\ p = "unmeta" \/ (op(t) = "PutObject" /\ p \in {"place", "store"})
          /\ p = "store" => new_metainfo(t) # Nil
          /\ p \in PC
      BY <2>1 DEF to_place, PC
    <3>2. new_metainfo(t)' = new_metainfo(t)
      BY <2>1 DEF new_metainfo, make_metainfo, by_directive, op, reading
    <3> HIDE DEF p
    <3>3. pc'[t] = p
      BY <2>3, <3>1, GoType DEF p
    <3>4. Ready(t)'
      BY <1>0, <1>1, <2>1, <3>1, <3>2, <3>3
      DEF TypeInv, Ready, op, reading, Reading, Writing, Tagging
    <3> QED BY <1>0, <1>2, <2>1, <2>3, <3>1, <3>4, PlainType DEF p
  <2> QED BY <2>1, <2>2, <2>3
<1>5. CASE Recheck_panic(t) \/ Store_fault(t) \/ Delete_fault(t)
  <2>1. /\ UNCHANGED <<file, meta, holder, made, req, reading, scratch, crashes, prior>>
        /\ \E c \in Codes : finish(t, c)
    BY <1>5 DEF Recheck_panic, Store_fault, Delete_fault, Codes
  <2>2. Ready(t)'
    BY <1>0, <1>1, <2>1, FinishType, ReadyCalm
  <2> QED BY <1>0, <1>2, <2>1, <2>2, PlainType
<1>6. CASE Store_object_metainfo(t)
  <2>1. /\ pc[t] = "store" /\ meta' = [meta EXCEPT ![key(t)] = metainfo_to_store(t)]
        /\ UNCHANGED <<file, holder, made, req, reading, scratch, crashes, prior>>
    BY <1>6 DEF Store_object_metainfo
  <2>2. meta' \in [Keys -> Opt(Meta_info)]
    BY <1>1, <1>2, <2>1, StoredType DEF Opt
  <2>3. \/ \E c \in Codes : finish(t, c)
        \/ UNCHANGED resp /\ go(t, "place") /\ op(t) \in Writing
        \/ UNCHANGED resp /\ go(t, "unlock")
    <3>1. CASE op(t) \in Writing
      BY <1>6, <3>1 DEF Store_object_metainfo, Writing, Reading
    <3>2. CASE op(t) \in Reading
      BY <1>6, <3>2 DEF Store_object_metainfo, Writing, Reading
    <3>3. CASE op(t) \notin Writing /\ op(t) \notin Reading
      BY <1>6, <3>3 DEF Store_object_metainfo, Codes
    <3> QED BY <3>1, <3>2, <3>3
  <2>4. "place" \in PC /\ "unlock" \in PC
    BY DEF PC
  <2>5. Ready(t)'
    <3>1. CASE \E c \in Codes : finish(t, c)
      BY <1>0, <1>1, <2>1, <3>1, FinishType, ReadyCalm
    <3>2. CASE go(t, "place") /\ op(t) \in Writing
      <4>1. pc'[t] = "place"
        BY <2>4, <3>2, GoType
      <4> QED BY <1>1, <2>1, <3>2, <4>1 DEF TypeInv, Ready, op, Writing, Reading, Tagging
    <3>3. CASE go(t, "unlock")
      BY <1>1, <2>1, <2>4, <3>3, GoType, ReadyCalm
    <3> QED BY <2>3, <3>1, <3>2, <3>3
  <2> QED BY <1>0, <1>2, <2>1, <2>2, <2>3, <2>4, <2>5, PlainType
<1>7. CASE Place_remove_same(t) \/ Place_undo(t) \/ Delete_metainfo(t)
  <2>1. /\ UNCHANGED <<holder, made, req, reading, scratch, resp, crashes, prior>>
        /\ file' \in [Keys -> Opt(File)] /\ meta' \in [Keys -> Opt(Meta_info)]
        /\ \/ pc[t] = "place" /\ go(t, "rename")
           \/ go(t, "unlock")
           \/ go(t, "remove")
    BY <1>2, <1>7 DEF Place_remove_same, Place_undo, Delete_metainfo, Opt
  <2>2. {"rename", "unlock", "remove"} \subseteq PC
    BY DEF PC
  <2>3. Ready(t)'
    <3>1. CASE pc[t] = "place" /\ go(t, "rename")
      <4>1. pc'[t] = "rename"
        BY <2>2, <3>1, GoType
      <4> QED BY <1>1, <2>1, <3>1, <4>1 DEF TypeInv, Ready, op, Writing, Reading
    <3>2. CASE go(t, "unlock") \/ go(t, "remove")
      <4>1. pc'[t] \in {"unlock", "remove"}
        BY <2>2, <3>2, GoType
      <4> QED BY <1>1, <2>1, <4>1, ReadyCalm
    <3> QED BY <2>1, <3>1, <3>2
  <2> QED BY <1>0, <1>2, <2>1, <2>2, <2>3, PlainType
<1>8. CASE Place_scratch_file(t)
  <2>1. /\ pc[t] \in {"place", "rename"} /\ scratch[t] \in File
    BY <1>8 DEF Place_scratch_file, TypeInv, TypeOK, Ready, Writing, Opt
  <2>2. /\ file' = [file EXCEPT ![key(t)] = scratch[t]]
        /\ scratch' = [scratch EXCEPT ![t] = Nil]
        /\ resp' = [resp EXCEPT ![t] = [reply("OK") EXCEPT !.etag = scratch[t].data]]
        /\ go(t, "unlock")
        /\ UNCHANGED <<meta, holder, made, req, reading, crashes, prior>>
    BY <1>8 DEF Place_scratch_file
  <2>3. [reply("OK") EXCEPT !.etag = scratch[t].data] \in Response
    BY <2>1 DEF reply, Response, Codes, Opt, File
  <2>4. /\ pc' \in [Tasks -> PC] /\ pc'[t] = "unlock"
        /\ \A u \in Tasks \ {t} : pc'[u] = pc[u]
    BY <2>2, GoType DEF PC
  <2>5. /\ resp' \in [Tasks -> Opt(Response)] /\ scratch' \in [Tasks -> Opt(File)]
        /\ file' \in [Keys -> Opt(File)]
        /\ \A u \in Tasks \ {t} : scratch'[u] = scratch[u]
    <3>1. resp' \in [Tasks -> Opt(Response)]
      BY <2>2, <2>3 DEF TypeInv, TypeOK, Opt
    <3> QED BY <1>1, <2>1, <2>2, <3>1 DEF TypeInv, TypeOK, Opt
  <2>6. TypeOK'
    BY <2>2, <2>4, <2>5 DEF TypeInv, TypeOK, reading
  <2>7. Ready(t)'
    BY <1>1, <2>2, <2>4, ReadyCalm
  <2> QED BY <2>2, <2>4, <2>5, <2>6, <2>7, ReadyOthers DEF TypeInv, Same, reading
<1>9. CASE Place_fault(t)
  <2>1. /\ pc[t] \in {"place", "rename"}
        /\ resp' = [resp EXCEPT ![t] = reply("InternalError")]
        /\ go(t, "unlock") \/ go(t, "undo")
        /\ UNCHANGED <<file, meta, holder, made, req, reading, scratch, crashes, prior>>
    BY <1>9 DEF Place_fault
  <2>2. /\ pc' \in [Tasks -> PC] /\ pc'[t] \in {"unlock", "undo"}
        /\ \A u \in Tasks \ {t} : pc'[u] = pc[u]
    BY <2>1, GoType DEF PC
  <2>3. reply("InternalError") \in Response
    BY ReplyType DEF Codes
  <2>4. resp' \in [Tasks -> Opt(Response)]
    BY <2>1, <2>3 DEF TypeInv, TypeOK, Opt
  <2>5. TypeOK'
    BY <2>1, <2>2, <2>4 DEF TypeInv, TypeOK, reading
  <2>6. Ready(t)'
    BY <1>1, <2>1, <2>2 DEF TypeInv, Ready, op, Writing
  <2> QED BY <2>1, <2>2, <2>5, <2>6, ReadyOthers DEF TypeInv, Same, reading
<1>10. CASE Delete_object(t)
  <2>1. /\ UNCHANGED <<meta, holder, made, req, reading, scratch, crashes, prior>>
        /\ file' \in [Keys -> Opt(File)]
        /\ \E c \in Codes : finish(t, c)
    BY <1>2, <1>10 DEF Delete_object, Codes, Opt
  <2>2. Ready(t)'
    BY <1>0, <1>1, <2>1, FinishType, ReadyCalm
  <2> QED BY <1>0, <1>2, <2>1, <2>2, PlainType
<1> QED BY <1>3, <1>4, <1>5, <1>6, <1>7, <1>8, <1>9, <1>10 DEF Modify

\* The last steps of a request keep TypeInv.
LEMMA EndType ==
  ASSUME TypeInv, NEW t \in Tasks, End(t) PROVE TypeInv'
<1>0. pc[t] \in {"unlock", "discard", "serve"}
  BY DEF End, Release_access, Discard_scratch_file, Serve, Get_object,
         Head_object, Get_object_tagging, Get_object_attributes
<1>1. /\ req[t] \in Reqs /\ req[t] \in Request
      /\ key(t) \in Keys /\ read_key(t) \in Keys /\ op(t) \in Ops
  BY <1>0, KeyType
<1>2. CASE Release_access(t)
  <2>1. /\ holder' = [holder EXCEPT ![key(t)] = Nil]
        /\ go(t, "serve") \/ go(t, "discard") \/ go(t, "done")
        /\ UNCHANGED <<file, meta, made, req, reading, scratch, resp, crashes, prior>>
    <3>1. CASE resp[t] = Nil
      BY <1>2, <3>1 DEF Release_access
    <3>2. CASE resp[t] # Nil /\ scratch[t] # Nil
      BY <1>2, <3>2 DEF Release_access
    <3>3. CASE resp[t] # Nil /\ scratch[t] = Nil
      BY <1>2, <3>3 DEF Release_access
    <3> QED BY <3>1, <3>2, <3>3
  <2>2. /\ pc' \in [Tasks -> PC] /\ pc'[t] \in {"serve", "discard", "done"}
        /\ \A u \in Tasks \ {t} : pc'[u] = pc[u]
    BY <2>1, GoType DEF PC
  <2>3. TypeOK'
    BY <2>1, <2>2 DEF TypeInv, TypeOK, reading, Opt
  <2>4. Ready(t)'
    BY <1>1, <2>1, <2>2, ReadyCalm
  <2> QED BY <2>1, <2>2, <2>3, <2>4, ReadyOthers DEF TypeInv, Same, reading
<1>3. CASE Discard_scratch_file(t)
  <2>1. /\ scratch' = [scratch EXCEPT ![t] = Nil]
        /\ go(t, "done")
        /\ UNCHANGED <<file, meta, holder, made, req, reading, resp, crashes, prior>>
    BY <1>3 DEF Discard_scratch_file
  <2>2. /\ pc' \in [Tasks -> PC] /\ pc'[t] = "done"
        /\ \A u \in Tasks \ {t} : pc'[u] = pc[u]
    BY <2>1, GoType DEF PC
  <2>3. TypeOK' /\ \A u \in Tasks \ {t} : scratch'[u] = scratch[u]
    BY <2>1, <2>2 DEF TypeInv, TypeOK, reading, Opt
  <2>4. Ready(t)'
    BY <1>1, <2>1, <2>2, ReadyCalm
  <2> QED BY <2>1, <2>2, <2>3, <2>4, ReadyOthers DEF TypeInv, Same, reading
<1>4. CASE Serve(t)
  <2>1. served(t, Nil) \in Response /\ \A f \in File : served(t, f.data) \in Response
    BY DEF TypeInv, TypeOK, served, Response, Codes, Opt, File
  <2>2. \A c \in Codes : finish(t, c) => \E r \in Response : answer(t, r)
    BY ReplyType DEF finish
  <2>3. UNCHANGED <<file, meta, holder, made, req, reading, scratch, crashes, prior>>
    BY <1>4 DEF Serve, Get_object, Head_object, Get_object_tagging,
                Get_object_attributes
  <2>4. \E r \in Response : answer(t, r)
    <3> DEFINE c == check_conditions(etag[t], "read", req[t].cond)
               f == file[key(t)]
    <3>1. c \in Codes /\ "NoSuchKey" \in Codes /\ "InternalError" \in Codes
      BY ConditionCodes DEF Codes
    <3>2. CASE Get_object(t)
      <4>1. \/ finish(t, c) \/ finish(t, "NoSuchKey") \/ finish(t, "InternalError")
            \/ f # Nil /\ answer(t, served(t, f.data))
        BY <3>2 DEF Get_object
      <4>2. f # Nil => f \in File
        BY <1>1 DEF TypeInv, TypeOK, Opt
      <4> HIDE DEF f, c
      <4> QED BY <2>1, <2>2, <3>1, <4>1, <4>2
    <3>3. CASE Head_object(t)
      <4>1. finish(t, c) \/ answer(t, served(t, Nil))
        BY <3>3 DEF Head_object
      <4> HIDE DEF c
      <4> QED BY <2>1, <2>2, <3>1, <4>1
    <3>4. CASE Get_object_tagging(t) \/ Get_object_attributes(t)
      BY <2>1, <3>4 DEF Get_object_tagging, Get_object_attributes
    <3> QED BY <1>4, <3>2, <3>3, <3>4 DEF Serve
  <2>5. /\ pc' \in [Tasks -> PC] /\ resp' \in [Tasks -> Opt(Response)]
        /\ pc'[t] \in {"unlock", "discard", "done"}
        /\ \A u \in Tasks \ {t} : pc'[u] = pc[u]
    BY <1>0, <2>4, AnswerType
  <2>6. TypeOK'
    BY <2>3, <2>5 DEF TypeInv, TypeOK, reading
  <2>7. Ready(t)'
    BY <1>1, <2>3, <2>5, ReadyCalm
  <2> QED BY <2>3, <2>5, <2>6, <2>7, ReadyOthers DEF TypeInv, Same, reading
<1> QED BY <1>2, <1>3, <1>4 DEF End

\* A crash keeps TypeInv: a dead request has nothing to do.
LEMMA CrashType == ASSUME TypeInv, Crash PROVE TypeInv'
<1>1. /\ pc' = [t \in Tasks |-> IF Running(t) THEN "dead" ELSE pc[t]]
      /\ holder' = [k \in Keys |-> Nil] /\ crashes' = crashes + 1
      /\ UNCHANGED <<file, meta, made, req, reading, scratch, resp, prior>>
  BY DEF Crash
<1>2. TypeOK'
  BY <1>1 DEF TypeInv, TypeOK, reading, Opt, PC
<1>3. ASSUME NEW t \in Tasks PROVE Ready(t)'
  <2>1. CASE Running(t)
    <3>1. pc'[t] = "dead" /\ req'[t] \in Reqs
      BY <1>1, <2>1 DEF Running, TypeInv, Ready
    <3> QED BY <3>1, ReadyCalm
  <2>2. CASE ~ Running(t)
    BY <1>1, <2>2, ReadySame DEF Same, reading, TypeInv
  <2> QED BY <2>1, <2>2
<1> QED BY <1>2, <1>3 DEF TypeInv

LEMMA TypeInit == Init => TypeInv
<1> SUFFICES ASSUME Init PROVE TypeInv
  OBVIOUS
<1>1. file \in [Keys -> Opt(File)]
  <2>1. [ino : 1..Found, data : Data] \subseteq File
    BY StoreAssumption DEF File
  <2> QED BY <2>1 DEF Init, Opt
<1>2. TypeOK
  BY <1>1, StoreAssumption DEF Init, TypeOK, Opt, PC
<1>3. \A t \in Tasks : Ready(t)
  BY DEF Init, Ready
<1> QED BY <1>2, <1>3 DEF TypeInv

LEMMA TypeStep == TypeInv /\ [Next]_vars => TypeInv'
<1> SUFFICES ASSUME TypeInv, [Next]_vars PROVE TypeInv'
  OBVIOUS
<1>1. CASE \E t \in Tasks :
             Start(t) \/ Serialize_access(t) \/ Access_timeout(t) \/ Step(t)
  BY <1>1, StartType, LockType, PrepareType, ModifyType, EndType DEF Step
<1>2. CASE Crash
  BY <1>2, CrashType
<1>3. CASE UNCHANGED vars
  <2>1. TypeOK'
    BY <1>3 DEF vars, TypeInv, TypeOK
  <2>2. \A u \in Tasks : Ready(u)'
    BY <1>3, ReadySame DEF vars, Same, TypeInv
  <2> QED BY <2>1, <2>2 DEF TypeInv
<1> QED BY <1>1, <1>2, <1>3 DEF Next, Ended

\* Every state of the object operations is well formed: whatever the order
\* of the requests' steps, no request stores metainfo without an ETag or
\* places a scratch file it does not have.
THEOREM TypeCorrect == Spec => []TypeOK
<1>1. Spec => []TypeInv
  BY TypeInit, TypeStep, PTL DEF Spec
<1>2. TypeInv => TypeOK
  BY DEF TypeInv
<1> QED BY <1>1, <1>2, PTL
-----------------------------------------------------------------------------
(***************************************************************************)
(* Nothing is left behind.  A request that holds exclusion holds it on its *)
(* own object, and is at a step from which every path leads to unlock.     *)
(***************************************************************************)
NoCopy == \A r \in Reqs : r.op # "CopyObject"

\* The one failure after which CopyObject does not clean up cannot happen.
LinksClean == "link" \notin Faults \/ NoCopy

InExclusion(t) ==
  \/ pc[t] \in {"guard", "store", "place", "rename", "undo", "unmeta", "remove", "unlock"}
  \/ pc[t] \in {"stat", "meta", "md5"} /\ op(t) \in Tagging

Neat(t) ==
  /\ pc[t] = "done" => scratch[t] = Nil
  /\ pc[t] = "md5" => op(t) # "DeleteObjectTagging"
  /\ \A k \in Keys : holder[k] = t => key(t) = k /\ InExclusion(t)

NeatInv == \A t \in Tasks : Neat(t)

\* The steps of one request leave the others neat.
LEMMA NeatOthers ==
  ASSUME NEW t \in Tasks, NeatInv,
         \A u \in Tasks \ {t} :
           /\ pc'[u] = pc[u] /\ req'[u] = req[u] /\ scratch'[u] = scratch[u]
           /\ \A k \in Keys : holder'[k] = u => holder[k] = u
  PROVE  \A u \in Tasks \ {t} : Neat(u)'
BY DEF NeatInv, Neat, InExclusion, op, key

\* A request that returns is neat: release_access and discard_scratch_file
\* are still to be called when they are needed.
LEMMA NeatAnswer ==
  ASSUME TypeInv, NeatInv, NEW t \in Tasks, NEW r, pc[t] # "idle", answer(t, r),
         UNCHANGED <<holder, req, scratch>>
  PROVE  NeatInv'
<1>1. /\ pc'[t] = IF holder[key(t)] = t THEN "unlock"
                  ELSE IF scratch[t] # Nil THEN "discard" ELSE "done"
      /\ \A u \in Tasks \ {t} : pc'[u] = pc[u]
  BY DEF answer, go, TypeInv, TypeOK
<1>2. Neat(t)'
  BY <1>1 DEF NeatInv, Neat, InExclusion, op, key
<1>3. \A u \in Tasks \ {t} : Neat(u)'
  BY <1>1, NeatOthers
<1> QED BY <1>2, <1>3 DEF NeatInv

\* A request that goes on is neat.
LEMMA NeatGo ==
  ASSUME TypeInv, NeatInv, NEW t \in Tasks, NEW p, go(t, p), pc[t] # "idle",
         UNCHANGED <<holder, req>>,
         \A u \in Tasks \ {t} : scratch'[u] = scratch[u],
         p = "done" => scratch'[t] = Nil,
         p = "md5" => op(t) # "DeleteObjectTagging",
         InExclusion(t) =>
           \/ p \in {"store", "place", "rename", "undo", "unmeta", "remove", "unlock"}
           \/ p \in {"meta", "md5"} /\ op(t) \in Tagging
  PROVE  NeatInv'
<1>1. pc'[t] = p /\ \A u \in Tasks \ {t} : pc'[u] = pc[u]
  BY DEF go, TypeInv, TypeOK
<1>2. Neat(t)'
  BY <1>1 DEF NeatInv, Neat, InExclusion, op, key
<1>3. \A u \in Tasks \ {t} : Neat(u)'
  BY <1>1, NeatOthers
<1> QED BY <1>2, <1>3 DEF NeatInv

LEMMA NeatPrepare ==
  ASSUME LinksClean, TypeInv, NeatInv, NEW t \in Tasks, Prepare(t)
  PROVE  NeatInv'
<1>0. pc[t] # "idle"
  BY DEF Prepare, Upload_scratch, Upload_fault, Fetch_object_status,
         Fetch_object_metainfo, Calculate_csum2, Copy_scratch, Copy_scratch_fault
<1>1. CASE Upload_scratch(t) \/ Upload_fault(t)
  <2>1. /\ pc[t] = "upload" /\ UNCHANGED <<holder, req>>
        /\ \A u \in Tasks \ {t} : scratch'[u] = scratch[u]
        /\ go(t, "stat") \/ go(t, "lock") \/ go(t, "discard")
    BY <1>1 DEF Upload_scratch, Upload_fault, TypeInv, TypeOK
  <2>2. ~ InExclusion(t)
    BY <2>1 DEF InExclusion
  <2> QED BY <1>0, <2>1, <2>2, NeatGo
<1>2. CASE Fetch_object_status(t)
  <2>1. /\ pc[t] = "stat" /\ UNCHANGED <<holder, req, scratch>>
        /\ go(t, "meta") \/ finish(t, "NoSuchKey")
    BY <1>2 DEF Fetch_object_status
  <2>2. InExclusion(t) => op(t) \in Tagging
    BY <2>1 DEF InExclusion
  <2>3. CASE finish(t, "NoSuchKey")
    BY <1>0, <2>1, <2>3, NeatAnswer DEF finish
  <2>4. CASE go(t, "meta")
    BY <1>0, <2>1, <2>2, <2>4, NeatGo
  <2> QED BY <2>1, <2>3, <2>4
<1>3. CASE Fetch_object_metainfo(t)
  <2> DEFINE m == fetch_object_metainfo(read_key(t), stat[t])
  <2>1. pc[t] = "meta" /\ UNCHANGED <<holder, req, scratch>>
    BY <1>3 DEF Fetch_object_metainfo
  <2>2. InExclusion(t) => op(t) \in Tagging
    BY <2>1 DEF InExclusion
  <2>3. CASE op(t) = "GetObjectTagging"
    <3>1. go(t, "serve")
      BY <1>3, <2>3 DEF Fetch_object_metainfo
    <3> QED BY <1>0, <2>1, <2>2, <2>3, <3>1, NeatGo DEF Tagging
  <2>4. CASE op(t) = "DeleteObjectTagging"
    <3>1. go(t, "store") \/ finish(t, "OK")
      BY <1>3, <2>4 DEF Fetch_object_metainfo
    <3>2. CASE go(t, "store")
      BY <1>0, <2>1, <3>2, NeatGo
    <3>3. CASE finish(t, "OK")
      BY <1>0, <2>1, <3>3, NeatAnswer DEF finish
    <3> QED BY <3>1, <3>2, <3>3
  <2>5. CASE op(t) \notin {"GetObjectTagging", "DeleteObjectTagging"}
    <3>1. go(t, IF m = Nil THEN "md5" ELSE after_etag(t, m))
      BY <1>3, <2>5 DEF Fetch_object_metainfo
    <3>2. op(t) \in Tagging => after_etag(t, m) = "store"
      BY <2>5 DEF Tagging, after_etag, Reading
    <3>3. after_etag(t, m) \in {"link", "lock", "store", "serve"}
      BY DEF after_etag
    <3> HIDE DEF m
    <3> QED BY <1>0, <2>1, <2>2, <2>5, <3>1, <3>2, <3>3, NeatGo
  <2> QED BY <2>3, <2>4, <2>5
<1>4. CASE Calculate_csum2(t)
  <2>1. /\ pc[t] = "md5" /\ UNCHANGED <<holder, req, scratch>>
        /\ go(t, after_etag(t, Nil)) \/ finish(t, "InternalError")
    BY <1>4 DEF Calculate_csum2
  <2>2. op(t) \in Tagging => after_etag(t, Nil) = "store"
    BY <2>1 DEF Tagging, after_etag, Reading, NeatInv, Neat
  <2>3. after_etag(t, Nil) \in {"link", "lock", "store", "serve"}
    BY DEF after_etag
  <2>4. InExclusion(t) => op(t) \in Tagging
    BY <2>1 DEF InExclusion
  <2>5. CASE finish(t, "InternalError")
    BY <1>0, <2>1, <2>5, NeatAnswer DEF finish
  <2>6. CASE go(t, after_etag(t, Nil))
    BY <1>0, <2>1, <2>2, <2>3, <2>4, <2>6, NeatGo
  <2> QED BY <2>1, <2>5, <2>6
<1>5. CASE Copy_scratch(t)
  <2>1. /\ pc[t] = "link" /\ UNCHANGED <<holder, req>>
        /\ \/ UNCHANGED scratch /\ \E c : finish(t, c)
           \/ go(t, "lock") /\ \A u \in Tasks \ {t} : scratch'[u] = scratch[u]
    BY <1>5 DEF Copy_scratch, TypeInv, TypeOK
  <2>2. ~ InExclusion(t)
    BY <2>1 DEF InExclusion
  <2>3. CASE UNCHANGED scratch /\ \E c : finish(t, c)
    BY <1>0, <2>1, <2>3, NeatAnswer DEF finish
  <2>4. CASE go(t, "lock") /\ \A u \in Tasks \ {t} : scratch'[u] = scratch[u]
    BY <1>0, <2>1, <2>2, <2>4, NeatGo
  <2> QED BY <2>1, <2>3, <2>4
<1>6. ~ Copy_scratch_fault(t)
  BY DEF Copy_scratch_fault, LinksClean, NoCopy, TypeInv, Ready, op
<1> QED BY <1>1, <1>2, <1>3, <1>4, <1>5, <1>6 DEF Prepare

LEMMA NeatModify ==
  ASSUME TypeInv, NeatInv, NEW t \in Tasks, Modify(t)
  PROVE  NeatInv'
<1>0. pc[t] # "idle"
  BY DEF Modify, Store_metainfo_serialized, Recheck_target, Recheck_panic,
         Store_object_metainfo, Store_fault, Place_remove_same, Place_scratch_file,
         Place_fault, Place_undo, Delete_metainfo, Delete_object, Delete_fault
<1> DEFINE Onward == {"store", "place", "rename", "undo", "unmeta", "remove", "unlock"}
<1>1. ASSUME UNCHANGED <<holder, req, scratch>>, \E c : finish(t, c)
      PROVE  NeatInv'
  BY <1>0, <1>1, NeatAnswer DEF finish
<1>2. ASSUME UNCHANGED <<holder, req>>, \A u \in Tasks \ {t} : scratch'[u] = scratch[u],
             \E p \in Onward : go(t, p)
      PROVE  NeatInv'
  BY <1>0, <1>2, NeatGo
<1>3. CASE Store_metainfo_serialized(t)
  BY <1>1, <1>2, <1>3 DEF Store_metainfo_serialized
<1>4. CASE Recheck_target(t)
  <2>1. (IF op(t) = "DeleteObject" THEN "unmeta" ELSE to_place(t)) \in Onward
    BY DEF to_place
  <2>2. /\ UNCHANGED <<holder, req, scratch>>
        /\ \/ \E c : finish(t, c)
           \/ go(t, IF op(t) = "DeleteObject" THEN "unmeta" ELSE to_place(t))
    BY <1>4 DEF Recheck_target
  <2> QED BY <1>1, <1>2, <2>1, <2>2
<1>5. CASE Recheck_panic(t) \/ Store_fault(t) \/ Delete_object(t) \/ Delete_fault(t)
  BY <1>1, <1>5 DEF Recheck_panic, Store_fault, Delete_object, Delete_fault
<1>6. CASE Store_object_metainfo(t)
  <2>1. CASE op(t) \in Writing \cup Reading
    <3>1. UNCHANGED <<holder, req, scratch>> /\ (go(t, "place") \/ go(t, "unlock"))
      BY <1>6, <2>1 DEF Store_object_metainfo, Writing, Reading
    <3> QED BY <1>2, <3>1
  <2>2. CASE op(t) \notin Writing \cup Reading
    BY <1>1, <1>6, <2>2 DEF Store_object_metainfo
  <2> QED BY <2>1, <2>2
<1>7. CASE Place_remove_same(t) \/ Place_fault(t) \/ Place_undo(t) \/ Delete_metainfo(t)
  BY <1>2, <1>7 DEF Place_remove_same, Place_fault, Place_undo, Delete_metainfo
<1>8. CASE Place_scratch_file(t)
  <2>1. /\ UNCHANGED <<holder, req>> /\ go(t, "unlock")
        /\ \A u \in Tasks \ {t} : scratch'[u] = scratch[u]
    BY <1>8 DEF Place_scratch_file, TypeInv, TypeOK
  <2> QED BY <1>2, <2>1
<1> QED BY <1>3, <1>4, <1>5, <1>6, <1>7, <1>8 DEF Modify

LEMMA NeatEnd ==
  ASSUME TypeInv, NeatInv, NEW t \in Tasks, End(t)
  PROVE  NeatInv'
<1>0. pc[t] \in {"unlock", "discard", "serve"}
  BY DEF End, Release_access, Discard_scratch_file, Serve, Get_object,
         Head_object, Get_object_tagging, Get_object_attributes
<1>1. CASE Release_access(t)
  <2>1. holder' = [holder EXCEPT ![key(t)] = Nil] /\ UNCHANGED <<req, scratch>>
    BY <1>1 DEF Release_access
  <2>2. go(t, "serve") \/ go(t, "discard") \/ (go(t, "done") /\ scratch[t] = Nil)
    <3>1. CASE resp[t] = Nil
      BY <1>1, <3>1 DEF Release_access
    <3>2. CASE resp[t] # Nil /\ scratch[t] # Nil
      BY <1>1, <3>2 DEF Release_access
    <3>3. CASE resp[t] # Nil /\ scratch[t] = Nil
      BY <1>1, <3>3 DEF Release_access
    <3> QED BY <3>1, <3>2, <3>3
  <2>3. /\ pc'[t] \in {"serve", "discard"} \/ (pc'[t] = "done" /\ scratch[t] = Nil)
        /\ \A u \in Tasks \ {t} : pc'[u] = pc[u]
    BY <2>2 DEF go, TypeInv, TypeOK
  <2>4. key(t) \in Keys /\ holder \in [Keys -> Opt(Tasks)]
    BY <1>0, KeyType DEF TypeInv, TypeOK
  <2>5. \A u \in Tasks, k \in Keys : holder'[k] = u => holder[k] = u /\ k # key(t)
    BY <2>1, <2>4, StoreAssumption
  <2>6. \A k \in Keys : holder'[k] # t
    BY <2>5 DEF NeatInv, Neat
  <2>7. Neat(t)'
    BY <2>1, <2>3, <2>6 DEF Neat
  <2> QED BY <2>1, <2>3, <2>5, <2>7, NeatOthers DEF NeatInv
<1>2. CASE Discard_scratch_file(t)
  <2>1. /\ go(t, "done") /\ UNCHANGED <<holder, req>> /\ scratch'[t] = Nil
        /\ \A u \in Tasks \ {t} : scratch'[u] = scratch[u]
        /\ ~ InExclusion(t)
    BY <1>2 DEF Discard_scratch_file, TypeInv, TypeOK, InExclusion
  <2> QED BY <1>0, <2>1, NeatGo
<1>3. CASE Serve(t)
  <2>1. UNCHANGED <<holder, req, scratch>>
    BY <1>3 DEF Serve, Get_object, Head_object, Get_object_tagging,
                Get_object_attributes
  <2>2. \E r : answer(t, r)
    <3>1. CASE Get_object(t)
      BY <3>1 DEF Get_object, finish
    <3>2. CASE Head_object(t)
      BY <3>2 DEF Head_object, finish
    <3>3. CASE Get_object_tagging(t) \/ Get_object_attributes(t)
      BY <3>3 DEF Get_object_tagging, Get_object_attributes
    <3> QED BY <1>3, <3>1, <3>2, <3>3 DEF Serve
  <2> QED BY <1>0, <2>1, <2>2, NeatAnswer
<1> QED BY <1>1, <1>2, <1>3 DEF End

LEMMA NeatStep ==
  ASSUME LinksClean, TypeInv, NeatInv, [Next]_vars
  PROVE  NeatInv'
<1>1. ASSUME NEW t \in Tasks, Start(t) PROVE NeatInv'
  <2>1. /\ UNCHANGED <<holder, scratch>> /\ pc[t] = "idle"
        /\ pc'[t] \in {"upload", "lock", "stat"}
        /\ \A u \in Tasks \ {t} : pc'[u] = pc[u] /\ req'[u] = req[u]
    <3>1. PICK r \in Reqs : req' = [req EXCEPT ![t] = r]
            /\ go(t, CASE r.op = "PutObject" -> "upload"
                       [] r.op \in Tagging -> "lock"
                       [] OTHER -> "stat")
      BY <1>1 DEF Start
    <3>2. (CASE r.op = "PutObject" -> "upload"
             [] r.op \in Tagging -> "lock"
             [] OTHER -> "stat") \in {"upload", "lock", "stat"}
      BY DEF Tagging
    <3>3. pc[t] = "idle" /\ UNCHANGED <<holder, scratch>>
      BY <1>1 DEF Start
    <3> QED BY <3>1, <3>2, <3>3 DEF go, TypeInv, TypeOK
  <2>2. Neat(t)'
    BY <2>1 DEF NeatInv, Neat, InExclusion
  <2> QED BY <2>1, <2>2, NeatOthers DEF NeatInv
<1>2. ASSUME NEW t \in Tasks, Serialize_access(t) PROVE NeatInv'
  <2> DEFINE p == CASE op(t) \in Tagging -> "stat"
                    [] op(t) = "CopyObject" -> to_place(t)
                    [] op(t) = "PutObject" /\ ~ conditional_put(t) -> to_place(t)
                    [] OTHER -> "guard"
  <2>1. p \in {"guard", "store", "place"} \/ (p = "stat" /\ op(t) \in Tagging)
    BY DEF to_place
  <2>2. /\ holder' = [holder EXCEPT ![key(t)] = t] /\ UNCHANGED <<req, scratch>>
        /\ go(t, p) /\ pc[t] = "lock"
    BY <1>2 DEF Serialize_access
  <2> HIDE DEF p
  <2>3. pc'[t] = p /\ \A u \in Tasks \ {t} : pc'[u] = pc[u]
    BY <2>2 DEF go, TypeInv, TypeOK
  <2>4. key(t) \in Keys /\ holder \in [Keys -> Opt(Tasks)]
    BY <2>2, KeyType DEF TypeInv, TypeOK
  <2>5. \A k \in Keys : holder[k] # t
    BY <2>2 DEF NeatInv, Neat, InExclusion
  <2>6. Neat(t)'
    BY <2>1, <2>2, <2>3, <2>4, <2>5 DEF Neat, InExclusion, op, key
  <2> QED BY <2>2, <2>3, <2>4, <2>6, NeatOthers DEF NeatInv
<1>3. ASSUME NEW t \in Tasks, Access_timeout(t) PROVE NeatInv'
  <2>1. pc[t] # "idle" /\ finish(t, "RequestTimeout") /\ UNCHANGED <<holder, req, scratch>>
    BY <1>3 DEF Access_timeout
  <2> QED BY <2>1, NeatAnswer DEF finish
<1>4. CASE Crash
  <2>1. /\ \A k \in Keys : holder'[k] = Nil
        /\ \A t \in Tasks : pc'[t] = "dead" \/ (pc'[t] = pc[t] /\ pc[t] # "md5")
        /\ UNCHANGED <<req, scratch>>
    BY <1>4 DEF Crash, Running
  <2> QED BY <2>1, StoreAssumption DEF NeatInv, Neat, op
<1>5. CASE UNCHANGED vars
  BY <1>5 DEF vars, NeatInv, Neat, InExclusion, op, key
<1> QED BY <1>1, <1>2, <1>3, <1>4, <1>5, NeatPrepare, NeatModify, NeatEnd
        DEF Next, Ended, Step

LEMMA NeatAlways == LinksClean => (Spec => []NeatInv)
<1> SUFFICES ASSUME LinksClean PROVE Spec => []NeatInv
  OBVIOUS
<1>1. Init => NeatInv
  BY StoreAssumption DEF Init, NeatInv, Neat
<1>2. TypeInv /\ NeatInv /\ [Next]_vars => NeatInv'
  BY NeatStep
<1> QED BY <1>1, <1>2, TypeInit, TypeStep, PTL DEF Spec

\* A request that has returned has released its exclusion and has removed or
\* placed its scratch file, on every path through the operations, provided
\* that there are no copies or that the checksum of a linked scratch file can
\* be read (CopyObject does not clean up otherwise).
THEOREM CleanReturn == LinksClean => (Spec => []NothingLeft)
<1>1. NeatInv => NothingLeft
  BY DEF NeatInv, Neat, NothingLeft, InExclusion
<1> QED BY <1>1, NeatAlways, PTL
=============================================================================
