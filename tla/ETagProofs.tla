----------------------------- MODULE ETagProofs -----------------------------
(***************************************************************************)
(* Proofs about ObjectStore: ETags are those of the data, for any number   *)
(* of requests, objects, contents, failures and crashes, as long as no     *)
(* copies by hard link are made.  A file then has its entity-key for       *)
(* itself, and an entity-key that has been replaced does not come back.    *)
(* From this, that the two files of an object, its data and its metainfo,  *)
(* act as the one atomic object of Objects.                                *)
(***************************************************************************)
EXTENDS ObjectStoreProofs

\* Entity-keys are of files made so far.
Bounded ==
  /\ \A k \in Keys : file[k] # Nil => file[k].ino <= made
  /\ \A t \in Tasks : scratch[t] # Nil => scratch[t].ino <= made
  /\ \A t \in Tasks : stat[t] # Nil => stat[t].ino <= made
  /\ \A k \in Keys : meta[k] # Nil => meta[k].ent <= made

\* Nobody else knows the entity-key of a scratch file.
Private ==
  \A u \in Tasks : scratch[u] # Nil =>
    /\ \A k \in Keys : file[k] # Nil => file[k].ino # scratch[u].ino
    /\ \A t \in Tasks : stat[t] # Nil => stat[t].ino # scratch[u].ino
    /\ \A t \in Tasks \ {u} : scratch[t] # Nil => scratch[t].ino # scratch[u].ino

\* Metainfo has the ETag of the object it matches, and of the scratch file
\* it will match.
MetaSound(k) ==
  meta[k] # Nil =>
    /\ file[k] # Nil /\ file[k].ino = meta[k].ent => meta[k].etag = file[k].data
    /\ \A u \in Tasks :
         scratch[u] # Nil /\ scratch[u].ino = meta[k].ent
           => meta[k].etag = scratch[u].data

\* What a request has read fits together, unless the object has changed.
Reads(t) ==
  /\ stat[t] # Nil => key(t) \in Keys
  /\ seen[t] # Nil => stat[t] # Nil /\ seen[t].ent = stat[t].ino
                      /\ etag[t] # Nil /\ seen[t].etag = etag[t]
  /\ stat[t] # Nil /\ file[key(t)] # Nil /\ file[key(t)].ino = stat[t].ino
       => /\ file[key(t)].data = stat[t].data
          /\ etag[t] # Nil => etag[t] = stat[t].data

DataInv ==
  /\ Bounded
  /\ Private
  /\ \A k \in Keys : MetaSound(k)
  /\ \A t \in Tasks : Reads(t)

\* What a request has read and answered at each step.
Unread(t) ==
  \/ pc[t] \in {"idle", "upload", "stat"}
  \/ pc[t] = "lock" /\ op(t) \in Tagging

Control(t) ==
  /\ Unread(t) => stat[t] = Nil /\ etag[t] = Nil /\ seen[t] = Nil /\ resp[t] = Nil
  /\ pc[t] = "md5" => seen[t] = Nil
  /\ pc[t] \in {"lock", "guard", "store", "serve"} /\ op(t) \in Reading
       => etag[t] # Nil
  /\ pc[t] = "unlock" /\ op(t) \in Reading /\ resp[t] = Nil => etag[t] # Nil
  /\ pc[t] \in {"discard", "done"} => resp[t] # Nil
  /\ pc[t] # "idle" /\ op(t) = "GetObject" /\ resp[t] # Nil /\ resp[t].code = "OK"
       => resp[t].etag = resp[t].body

ControlInv == \A t \in Tasks : Control(t)
-----------------------------------------------------------------------------
(***************************************************************************)
(* The kinds of steps on files, metainfo and what requests have read.      *)
(***************************************************************************)

\* Files and metainfo that disappear.
LEMMA DataLess ==
  ASSUME DataInv, UNCHANGED <<made, stat, etag, seen, req>>,
         \A k \in Keys : file'[k] \in {file[k], Nil},
         \A k \in Keys : meta'[k] \in {meta[k], Nil},
         \A u \in Tasks : scratch'[u] \in {scratch[u], Nil}
  PROVE  DataInv'
<1>1. Bounded'
  BY DEF DataInv, Bounded
<1>2. Private'
  BY DEF DataInv, Private
<1>3. ASSUME NEW k \in Keys PROVE MetaSound(k)'
  BY DEF DataInv, MetaSound
<1>4. ASSUME NEW u \in Tasks PROVE Reads(u)'
  BY DEF DataInv, Reads, key
<1> QED BY <1>1, <1>2, <1>3, <1>4 DEF DataInv

\* A new scratch file has a new entity-key.
LEMMA DataNew ==
  ASSUME TypeOK, DataInv, NEW t \in Tasks, NEW d \in Data,
         made' = made + 1,
         scratch' = [scratch EXCEPT ![t] = [ino |-> made + 1, data |-> d]],
         UNCHANGED <<file, meta, stat, etag, seen, req>>
  PROVE  DataInv'
<1> DEFINE f == [ino |-> made + 1, data |-> d]
<1>1. /\ made \in Nat /\ scratch'[t] = f /\ f.ino = made + 1
      /\ \A u \in Tasks \ {t} : scratch'[u] = scratch[u]
  BY DEF TypeOK
<1>2. /\ \A k \in Keys : file[k] # Nil => file[k].ino \in Nat
      /\ \A u \in Tasks : scratch[u] # Nil => scratch[u].ino \in Nat
      /\ \A u \in Tasks : stat[u] # Nil => stat[u].ino \in Nat
      /\ \A k \in Keys : meta[k] # Nil => meta[k].ent \in Nat
  BY DEF TypeOK, Opt, File, Meta_info
<1> HIDE DEF f
<1>3. Bounded'
  BY <1>1, <1>2 DEF DataInv, Bounded
<1>4. Private'
  BY <1>1, <1>2 DEF DataInv, Bounded, Private
<1>5. ASSUME NEW k \in Keys PROVE MetaSound(k)'
  BY <1>1, <1>2 DEF DataInv, Bounded, MetaSound
<1>6. ASSUME NEW u \in Tasks PROVE Reads(u)'
  BY DEF DataInv, Reads, key
<1> QED BY <1>3, <1>4, <1>5, <1>6 DEF DataInv

\* A request reads the status of its object.
LEMMA DataStatus ==
  ASSUME TypeOK, DataInv, NEW t \in Tasks, key(t) \in Keys,
         etag[t] = Nil, seen[t] = Nil,
         stat' = [stat EXCEPT ![t] = file[key(t)]],
         UNCHANGED <<file, meta, made, scratch, etag, seen, req>>
  PROVE  DataInv'
<1>1. stat'[t] = file[key(t)] /\ \A u \in Tasks \ {t} : stat'[u] = stat[u]
  BY DEF TypeOK
<1>2. Bounded'
  BY <1>1 DEF DataInv, Bounded
<1>3. Private'
  BY <1>1 DEF DataInv, Private
<1>4. ASSUME NEW k \in Keys PROVE MetaSound(k)'
  BY DEF DataInv, MetaSound
<1>5. ASSUME NEW u \in Tasks PROVE Reads(u)'
  BY <1>1 DEF DataInv, Reads, key
<1> QED BY <1>2, <1>3, <1>4, <1>5 DEF DataInv

\* A request reads the metainfo, if it matches the status.
LEMMA DataMetainfo ==
  ASSUME TypeOK, DataInv, NEW t \in Tasks, key(t) \in Keys,
         NEW m, m = fetch_object_metainfo(key(t), stat[t]),
         seen' = [seen EXCEPT ![t] = m],
         etag' = [etag EXCEPT ![t] = IF m = Nil THEN Nil ELSE m.etag],
         UNCHANGED <<file, meta, made, scratch, stat, req>>
  PROVE  DataInv' /\ (m # Nil => etag'[t] # Nil)
<1>1. /\ seen'[t] = m /\ \A u \in Tasks \ {t} : seen'[u] = seen[u]
      /\ etag'[t] = IF m = Nil THEN Nil ELSE m.etag
      /\ \A u \in Tasks \ {t} : etag'[u] = etag[u]
  BY DEF TypeOK
<1>2. m # Nil => /\ stat[t] # Nil /\ m = meta[key(t)] /\ m.ent = stat[t].ino
                 /\ m.etag \in Data /\ m.etag # Nil
  <2>1. m # Nil => stat[t] # Nil /\ m = meta[key(t)] /\ m.ent = stat[t].ino
    BY DEF fetch_object_metainfo
  <2>2. meta[key(t)] # Nil => meta[key(t)].etag \in Data
    BY DEF TypeOK, Opt, Meta_info
  <2> QED BY <2>1, <2>2, StoreAssumption
<1>3. Bounded' /\ Private' /\ \A k \in Keys : MetaSound(k)'
  BY DEF DataInv, Bounded, Private, MetaSound
<1>4. Reads(t)'
  BY <1>1, <1>2 DEF DataInv, MetaSound, Reads, key
<1>5. ASSUME NEW u \in Tasks \ {t} PROVE Reads(u)'
  BY <1>1 DEF DataInv, Reads, key
<1> QED BY <1>1, <1>2, <1>3, <1>4, <1>5 DEF DataInv

\* A request calculates the MD5 of the file that has the name now.
LEMMA DataMd5 ==
  ASSUME TypeOK, DataInv, NEW t \in Tasks, key(t) \in Keys, seen[t] = Nil,
         etag' = [etag EXCEPT ![t] = IF file[key(t)] = Nil THEN Nil
                                     ELSE file[key(t)].data],
         UNCHANGED <<file, meta, made, scratch, stat, seen, req>>
  PROVE  DataInv'
<1>1. /\ etag'[t] = IF file[key(t)] = Nil THEN Nil ELSE file[key(t)].data
      /\ \A u \in Tasks \ {t} : etag'[u] = etag[u]
  BY DEF TypeOK
<1>2. Bounded' /\ Private' /\ \A k \in Keys : MetaSound(k)'
  BY DEF DataInv, Bounded, Private, MetaSound
<1>3. Reads(t)'
  BY <1>1 DEF DataInv, Reads, key
<1>4. ASSUME NEW u \in Tasks \ {t} PROVE Reads(u)'
  BY <1>1 DEF DataInv, Reads, key
<1> QED BY <1>2, <1>3, <1>4 DEF DataInv

\* Metainfo is stored for the request's scratch file, or with what the
\* request has read: in the second case the ETag is right, or the object has
\* changed and the metainfo never matches.
LEMMA DataStore ==
  ASSUME TypeOK, DataInv, NEW t \in Tasks, key(t) \in Keys, NEW m,
         \/ /\ scratch[t] # Nil
            /\ m.ent = scratch[t].ino /\ m.etag = scratch[t].data
         \/ /\ stat[t] # Nil /\ etag[t] # Nil
            /\ m.ent = stat[t].ino /\ m.etag = etag[t],
         meta' = [meta EXCEPT ![key(t)] = m],
         UNCHANGED <<file, made, scratch, stat, etag, seen, req>>
  PROVE  DataInv'
<1>1. meta'[key(t)] = m /\ \A k \in Keys \ {key(t)} : meta'[k] = meta[k]
  BY DEF TypeOK
<1>2. Bounded'
  BY <1>1 DEF DataInv, Bounded
<1>3. Private' /\ \A u \in Tasks : Reads(u)'
  BY DEF DataInv, Private, Reads, key
<1>4. ASSUME NEW k \in Keys, k = key(t) PROVE MetaSound(k)'
  <2>1. CASE /\ scratch[t] # Nil
             /\ m.ent = scratch[t].ino /\ m.etag = scratch[t].data
    BY <1>1, <1>4, <2>1 DEF DataInv, Private, MetaSound
  <2>2. CASE /\ stat[t] # Nil /\ etag[t] # Nil
             /\ m.ent = stat[t].ino /\ m.etag = etag[t]
    BY <1>1, <1>4, <2>2 DEF DataInv, Private, MetaSound, Reads
  <2> QED BY <2>1, <2>2
<1>5. ASSUME NEW k \in Keys \ {key(t)} PROVE MetaSound(k)'
  BY <1>1 DEF DataInv, MetaSound
<1> QED BY <1>2, <1>3, <1>4, <1>5 DEF DataInv

\* A scratch file becomes the object.
LEMMA DataPlace ==
  ASSUME TypeOK, DataInv, NEW t \in Tasks, key(t) \in Keys, scratch[t] # Nil,
         file' = [file EXCEPT ![key(t)] = scratch[t]],
         scratch' = [scratch EXCEPT ![t] = Nil],
         UNCHANGED <<meta, made, stat, etag, seen, req>>
  PROVE  DataInv'
<1>1. /\ file'[key(t)] = scratch[t]
      /\ \A k \in Keys \ {key(t)} : file'[k] = file[k]
      /\ scratch'[t] = Nil /\ \A u \in Tasks \ {t} : scratch'[u] = scratch[u]
  BY DEF TypeOK
<1>2. Bounded'
  BY <1>1 DEF DataInv, Bounded
<1>3. Private'
  BY <1>1 DEF DataInv, Private
<1>4. ASSUME NEW k \in Keys PROVE MetaSound(k)'
  BY <1>1 DEF DataInv, MetaSound
<1>5. ASSUME NEW u \in Tasks PROVE Reads(u)'
  BY <1>1 DEF DataInv, Private, Reads, key
<1> QED BY <1>2, <1>3, <1>4, <1>5 DEF DataInv
-----------------------------------------------------------------------------
(***************************************************************************)
(* The kinds of steps in a request.                                        *)
(***************************************************************************)

\* The others have read what they had read.
Apart(t) ==
  \A u \in Tasks \ {t} :
    stat'[u] = stat[u] /\ etag'[u] = etag[u] /\ seen'[u] = seen[u]

LEMMA ControlOthers ==
  ASSUME ControlInv, NEW t \in Tasks, Apart(t), NEW u \in Tasks \ {t},
         pc'[u] = pc[u], req'[u] = req[u], resp'[u] = resp[u]
  PROVE  Control(u)'
BY DEF Apart, ControlInv, Control, Unread, op

\* A request that answers, with the ETag of the body when it has one.
LEMMA ControlAnswer ==
  ASSUME TypeInv, ControlInv, NEW t \in Tasks, NEW r \in Response,
         pc[t] # "idle", answer(t, r), Apart(t), UNCHANGED req,
         op(t) = "GetObject" /\ r.code = "OK" => r.etag = r.body
  PROVE  ControlInv'
<1>1. /\ pc'[t] \in {"unlock", "discard", "done"}
      /\ \A u \in Tasks \ {t} : pc'[u] = pc[u]
  BY AnswerType
<1>2. /\ resp'[t] = r /\ r # Nil
      /\ \A u \in Tasks \ {t} : resp'[u] = resp[u]
  BY StoreAssumption DEF answer, TypeInv, TypeOK
<1>3. Control(t)'
  BY <1>1, <1>2 DEF Control, Unread, op
<1> QED BY <1>1, <1>2, <1>3, ControlOthers DEF ControlInv

LEMMA ControlFinish ==
  ASSUME TypeInv, ControlInv, NEW t \in Tasks, NEW c \in Codes,
         pc[t] # "idle", finish(t, c), Apart(t), UNCHANGED req
  PROVE  ControlInv'
<1>1. reply(c) \in Response /\ reply(c).etag = reply(c).body
  BY ReplyType DEF reply
<1> QED BY <1>1, ControlAnswer DEF finish

\* A request that goes on, with the ETag it needs.
LEMMA ControlGo ==
  ASSUME TypeInv, ControlInv, NEW t \in Tasks, NEW p \in PC,
         pc[t] # "idle", go(t, p), Apart(t), UNCHANGED <<req, resp>>,
         p \in {"idle", "upload", "stat"} \/ (p = "lock" /\ op(t) \in Tagging)
           => stat'[t] = Nil /\ etag'[t] = Nil /\ seen'[t] = Nil /\ resp[t] = Nil,
         p = "md5" => seen'[t] = Nil,
         p \in {"lock", "guard", "store", "serve", "unlock"} /\ op(t) \in Reading
           => etag'[t] # Nil,
         p \in {"discard", "done"} => resp[t] # Nil
  PROVE  ControlInv'
<1>1. pc'[t] = p /\ \A u \in Tasks \ {t} : pc'[u] = pc[u]
  BY GoType
<1>2. Control(t)'
  BY <1>1 DEF ControlInv, Control, Unread, op
<1> QED BY <1>1, <1>2, ControlOthers DEF ControlInv
-----------------------------------------------------------------------------
(***************************************************************************)
(* The steps of ObjectStore.                                               *)
(***************************************************************************)
EntityInv == DataInv /\ ControlInv

\* Without copies, a request reads the object it names.
LEMMA ReadsOwnKey ==
  ASSUME NoCopy, TypeInv, NEW t \in Tasks, pc[t] # "idle"
  PROVE  /\ op(t) # "CopyObject" /\ read_key(t) = key(t) /\ key(t) \in Keys
         /\ op(t) \in Ops /\ req[t] \in Request
BY KeyType DEF NoCopy, op, key, read_key

LEMMA EntityInit == Init => EntityInv
<1> SUFFICES ASSUME Init PROVE EntityInv
  OBVIOUS
<1>1. \A k \in Keys : file[k] # Nil => file[k].ino \in 1..Found
  BY DEF Init
<1>2. Bounded
  BY <1>1, StoreAssumption DEF Init, Bounded
<1>3. Private /\ (\A k \in Keys : MetaSound(k)) /\ (\A t \in Tasks : Reads(t))
  BY DEF Init, Private, MetaSound, Reads
<1>4. ControlInv
  BY DEF Init, ControlInv, Control
<1> QED BY <1>2, <1>3, <1>4 DEF EntityInv, DataInv

LEMMA EntityStart ==
  ASSUME TypeInv, EntityInv, NEW t \in Tasks, Start(t) PROVE EntityInv'
<1>1. PICK r \in Reqs, p \in {"upload", "lock", "stat"} :
        /\ req' = [req EXCEPT ![t] = r] /\ go(t, p)
        /\ p = "lock" => r.op \in Tagging
  <2>1. PICK r \in Reqs : /\ req' = [req EXCEPT ![t] = r]
                          /\ go(t, CASE r.op = "PutObject" -> "upload"
                                     [] r.op \in Tagging -> "lock"
                                     [] OTHER -> "stat")
    BY DEF Start
  <2>2. CASE r.op = "PutObject"
    BY <2>1, <2>2
  <2>3. CASE r.op # "PutObject" /\ r.op \in Tagging
    BY <2>1, <2>3
  <2>4. CASE r.op # "PutObject" /\ r.op \notin Tagging
    BY <2>1, <2>4
  <2> QED BY <2>2, <2>3, <2>4
<1>2. /\ req'[t] = r /\ \A u \in Tasks \ {t} : req'[u] = req[u]
      /\ pc'[t] = p /\ \A u \in Tasks \ {t} : pc'[u] = pc[u]
  BY <1>1 DEF TypeInv, TypeOK, go
<1>3. /\ pc[t] = "idle"
      /\ UNCHANGED <<file, meta, made, stat, etag, seen, scratch, resp>>
  BY DEF Start, reading
<1>4. stat[t] = Nil /\ etag[t] = Nil /\ seen[t] = Nil /\ resp[t] = Nil
  BY <1>3 DEF EntityInv, ControlInv, Control, Unread
<1>5. Control(t)'
  BY <1>1, <1>2, <1>3, <1>4 DEF Control, op, Tagging, Reading
<1>6. \A u \in Tasks \ {t} : Control(u)'
  BY <1>2, <1>3, ControlOthers DEF EntityInv, Apart
<1>7. Bounded' /\ Private' /\ \A k \in Keys : MetaSound(k)'
  BY <1>3 DEF EntityInv, DataInv, Bounded, Private, MetaSound
<1>8. Reads(t)'
  BY <1>3, <1>4 DEF Reads
<1>9. \A u \in Tasks \ {t} : Reads(u)'
  BY <1>2, <1>3 DEF EntityInv, DataInv, Reads, key
<1> QED BY <1>5, <1>6, <1>7, <1>8, <1>9 DEF EntityInv, DataInv, ControlInv

\* The steps before exclusion.
LEMMA EntityPrepare ==
  ASSUME NoCopy, TypeInv, EntityInv, NEW t \in Tasks, Prepare(t) PROVE EntityInv'
<1>0. pc[t] # "idle" /\ TypeOK /\ DataInv /\ ControlInv
  BY DEF Prepare, Upload_scratch, Upload_fault, Fetch_object_status,
         Fetch_object_metainfo, Calculate_csum2, Copy_scratch, Copy_scratch_fault,
         TypeInv, EntityInv
<1>1. /\ op(t) # "CopyObject" /\ read_key(t) = key(t) /\ key(t) \in Keys
      /\ op(t) \in Ops /\ req[t] \in Request
  BY <1>0, ReadsOwnKey
<1>2. CASE Upload_scratch(t) \/ Upload_fault(t)
  <2>1. /\ op(t) = "PutObject" /\ req[t].data \in Data
        /\ pc[t] = "upload" /\ UNCHANGED <<file, meta, stat, etag, seen, req>>
        /\ made' = made + 1
        /\ scratch' = [scratch EXCEPT ![t] = [ino |-> made + 1, data |-> req[t].data]]
    <3>1. pc[t] = "upload"
      BY <1>2 DEF Upload_scratch, Upload_fault
    <3>2. op(t) = "PutObject" /\ req[t] \in Reqs
      BY <3>1 DEF TypeInv, Ready
    <3>3. req[t].data \in Data
      BY <1>1, <3>2, StoreAssumption DEF op, Request, Opt
    <3> QED BY <1>2, <3>1, <3>2, <3>3 DEF Upload_scratch, Upload_fault, reading
  <2>2. DataInv'
    BY <1>0, <2>1, DataNew
  <2>3. Apart(t)
    BY <2>1 DEF Apart
  <2>4. CASE Upload_scratch(t)
    <3>1. (go(t, "stat") \/ go(t, "lock")) /\ UNCHANGED resp
      BY <2>4 DEF Upload_scratch
    <3>2. stat[t] = Nil /\ etag[t] = Nil /\ seen[t] = Nil /\ resp[t] = Nil
      BY <1>0, <2>1 DEF ControlInv, Control, Unread
    <3>3. op(t) \notin Tagging /\ op(t) \notin Reading
      BY <2>1 DEF Tagging, Reading
    <3>4. ControlInv'
      BY <1>0, <2>1, <2>3, <3>1, <3>2, <3>3, ControlGo DEF PC
    <3> QED BY <2>2, <3>4 DEF EntityInv
  <2>5. CASE Upload_fault(t)
    <3>1. /\ resp'[t] = reply("BadDigest") /\ \A u \in Tasks \ {t} : resp'[u] = resp[u]
          /\ pc'[t] = "discard" /\ \A u \in Tasks \ {t} : pc'[u] = pc[u]
      BY <1>0, <2>5 DEF Upload_fault, go, TypeOK
    <3>2. reply("BadDigest") # Nil
      BY ReplyType, StoreAssumption DEF Codes
    <3>3. Control(t)'
      BY <2>1, <3>1, <3>2 DEF Control, Unread, op
    <3>4. ControlInv'
      BY <1>0, <2>1, <2>3, <3>1, <3>3, ControlOthers DEF ControlInv
    <3> QED BY <2>2, <3>4 DEF EntityInv
  <2> QED BY <1>2, <2>4, <2>5
<1>3. CASE Fetch_object_status(t)
  <2>1. /\ pc[t] = "stat" /\ stat' = [stat EXCEPT ![t] = file[key(t)]]
        /\ UNCHANGED <<file, meta, made, req, etag, seen, scratch>>
        /\ finish(t, "NoSuchKey") \/ (go(t, "meta") /\ UNCHANGED resp)
    BY <1>1, <1>3 DEF Fetch_object_status
  <2>2. etag[t] = Nil /\ seen[t] = Nil
    BY <1>0, <2>1 DEF ControlInv, Control, Unread
  <2>3. DataInv'
    BY <1>0, <1>1, <2>1, <2>2, DataStatus
  <2>4. Apart(t)
    BY <1>0, <2>1 DEF Apart, TypeOK
  <2>5. CASE finish(t, "NoSuchKey")
    BY <1>0, <2>1, <2>3, <2>4, <2>5, ControlFinish DEF EntityInv, Codes
  <2>6. CASE go(t, "meta") /\ UNCHANGED resp
    BY <1>0, <2>1, <2>3, <2>4, <2>6, ControlGo DEF EntityInv, PC
  <2> QED BY <2>1, <2>5, <2>6
<1>4. CASE Fetch_object_metainfo(t)
  <2> DEFINE m == fetch_object_metainfo(key(t), stat[t])
  <2>1. /\ seen' = [seen EXCEPT ![t] = m]
        /\ etag' = [etag EXCEPT ![t] = IF m = Nil THEN Nil ELSE m.etag]
        /\ UNCHANGED <<file, meta, made, req, stat, scratch>>
    BY <1>1, <1>4 DEF Fetch_object_metainfo
  <2>2. \/ finish(t, "OK")
        \/ UNCHANGED resp /\ go(t, "serve") /\ op(t) = "GetObjectTagging"
        \/ UNCHANGED resp /\ go(t, "store") /\ op(t) = "DeleteObjectTagging"
        \/ UNCHANGED resp /\ go(t, "md5") /\ m = Nil
        \/ UNCHANGED resp /\ go(t, after_etag(t, m)) /\ m # Nil
    <3>1. CASE op(t) = "GetObjectTagging"
      BY <1>4, <3>1 DEF Fetch_object_metainfo
    <3>2. CASE op(t) = "DeleteObjectTagging"
      BY <1>4, <3>2 DEF Fetch_object_metainfo
    <3>3. CASE op(t) \notin {"GetObjectTagging", "DeleteObjectTagging"}
      <4>1. go(t, IF m = Nil THEN "md5" ELSE after_etag(t, m)) /\ UNCHANGED resp
        BY <1>1, <1>4, <3>3 DEF Fetch_object_metainfo
      <4> QED BY <4>1
    <3> QED BY <3>1, <3>2, <3>3
  <2>3. /\ after_etag(t, m) \in {"link", "lock", "store", "serve"}
        /\ op(t) \in Tagging => after_etag(t, m) # "lock"
    BY DEF after_etag, Tagging, Reading
  <2> HIDE DEF m
  <2>4. DataInv' /\ (m # Nil => etag'[t] # Nil)
    BY <1>0, <1>1, <2>1, DataMetainfo DEF m
  <2>5. Apart(t)
    BY <1>0, <2>1 DEF Apart, TypeOK
  <2>6. CASE finish(t, "OK")
    BY <1>0, <2>1, <2>4, <2>5, <2>6, ControlFinish DEF EntityInv, Codes
  <2>7. CASE UNCHANGED resp /\ go(t, "serve") /\ op(t) = "GetObjectTagging"
    BY <1>0, <2>1, <2>4, <2>5, <2>7, ControlGo DEF EntityInv, PC, Reading
  <2>8. CASE UNCHANGED resp /\ go(t, "store") /\ op(t) = "DeleteObjectTagging"
    BY <1>0, <2>1, <2>4, <2>5, <2>8, ControlGo DEF EntityInv, PC, Reading
  <2>9. CASE UNCHANGED resp /\ go(t, "md5") /\ m = Nil
    <3>1. seen'[t] = Nil
      BY <1>0, <2>1, <2>9 DEF TypeOK
    <3> QED BY <1>0, <2>1, <2>4, <2>5, <2>9, <3>1, ControlGo DEF EntityInv, PC
  <2>10. CASE UNCHANGED resp /\ go(t, after_etag(t, m)) /\ m # Nil
    BY <1>0, <2>1, <2>3, <2>4, <2>5, <2>10, ControlGo DEF EntityInv, PC
  <2> QED BY <2>2, <2>6, <2>7, <2>8, <2>9, <2>10
<1>5. CASE Calculate_csum2(t)
  <2> DEFINE f == file[key(t)]
  <2>1. UNCHANGED <<file, meta, made, req, stat, seen, scratch>> /\ pc[t] = "md5"
    BY <1>5 DEF Calculate_csum2
  <2>2. \/ /\ etag' = [etag EXCEPT ![t] = IF f = Nil THEN Nil ELSE f.data]
           /\ go(t, after_etag(t, Nil)) /\ UNCHANGED resp
           /\ f # Nil \/ op(t) = "PutObject"
        \/ finish(t, "InternalError") /\ UNCHANGED etag
    BY <1>1, <1>5 DEF Calculate_csum2, conditional_put
  <2>3. /\ after_etag(t, Nil) \in {"link", "lock", "store", "serve"}
        /\ op(t) \in Tagging => after_etag(t, Nil) # "lock"
    BY DEF after_etag, Tagging, Reading
  <2>4. CASE finish(t, "InternalError") /\ UNCHANGED etag
    <3>1. DataInv' /\ Apart(t)
      BY <1>0, <2>1, <2>4, DataLess DEF Apart
    <3> QED BY <1>0, <2>1, <2>4, <3>1, ControlFinish DEF EntityInv, Codes
  <2>5. CASE /\ etag' = [etag EXCEPT ![t] = IF f = Nil THEN Nil ELSE f.data]
             /\ go(t, after_etag(t, Nil)) /\ UNCHANGED resp
             /\ f # Nil \/ op(t) = "PutObject"
    <3>1. f # Nil => f.data # Nil
      BY <1>0, <1>1, StoreAssumption DEF TypeOK, Opt, File
    <3>2. op(t) \in Reading => etag'[t] # Nil
      BY <1>0, <2>5, <3>1 DEF TypeOK, Reading
    <3>3. Apart(t)
      BY <1>0, <2>1, <2>5 DEF Apart, TypeOK
    <3>4. DataInv'
      <4>1. seen[t] = Nil
        BY <1>0, <2>1 DEF ControlInv, Control
      <4> QED BY <1>0, <1>1, <2>1, <2>5, <4>1, DataMd5
    <3> QED BY <1>0, <2>1, <2>3, <2>5, <3>2, <3>3, <3>4, ControlGo DEF EntityInv, PC
  <2> QED BY <2>2, <2>4, <2>5
<1>6. CASE Copy_scratch(t) \/ Copy_scratch_fault(t)
  BY <1>1, <1>6 DEF Copy_scratch, Copy_scratch_fault, TypeInv, Ready
<1> QED BY <1>2, <1>3, <1>4, <1>5, <1>6 DEF Prepare

\* Entering exclusion, or not.
LEMMA EntityLock ==
  ASSUME NoCopy, TypeInv, EntityInv, NEW t \in Tasks,
         Serialize_access(t) \/ Access_timeout(t)
  PROVE  EntityInv'
<1>0. /\ pc[t] = "lock" /\ DataInv /\ ControlInv
      /\ UNCHANGED <<file, meta, made, req, stat, etag, seen, scratch>>
  BY DEF Serialize_access, Access_timeout, EntityInv, reading
<1>1. DataInv' /\ Apart(t)
  BY <1>0, DataLess DEF Apart
<1>2. CASE Serialize_access(t)
  <2> DEFINE p == CASE op(t) \in Tagging -> "stat"
                    [] op(t) = "CopyObject" -> to_place(t)
                    [] op(t) = "PutObject" /\ ~ conditional_put(t) -> to_place(t)
                    [] OTHER -> "guard"
  <2>1. p \in {"guard", "store", "place"} \/ (p = "stat" /\ op(t) \in Tagging)
    BY DEF to_place
  <2>2. go(t, p) /\ UNCHANGED resp
    BY <1>2 DEF Serialize_access
  <2> HIDE DEF p
  <2>3. op(t) \in Tagging
          => stat[t] = Nil /\ etag[t] = Nil /\ seen[t] = Nil /\ resp[t] = Nil
    BY <1>0 DEF ControlInv, Control, Unread
  <2>4. op(t) \in Reading => etag[t] # Nil
    BY <1>0 DEF ControlInv, Control
  <2>5. p \in PC /\ p \notin {"idle", "upload", "lock", "md5", "unlock", "discard", "done"}
    BY <2>1 DEF PC
  <2>6. ControlInv'
    BY <1>0, <1>1, <2>1, <2>2, <2>3, <2>4, <2>5, ControlGo
  <2> QED BY <1>1, <2>6 DEF EntityInv
<1>3. CASE Access_timeout(t)
  <2>1. finish(t, "RequestTimeout")
    BY <1>3 DEF Access_timeout
  <2> QED BY <1>0, <1>1, <2>1, ControlFinish DEF EntityInv, Codes
<1> QED BY <1>2, <1>3

\* Nothing is demanded of a PutObject that has an answer.
LEMMA ControlWriting ==
  ASSUME TypeInv, ControlInv, NEW t \in Tasks, op(t) \in Writing,
         UNCHANGED <<req, stat, etag, seen>>, NEW r \in Response,
         resp' = [resp EXCEPT ![t] = r], NEW p \in {"unlock", "undo"}, go(t, p)
  PROVE  ControlInv'
<1>1. pc'[t] = p /\ \A u \in Tasks \ {t} : pc'[u] = pc[u]
  BY GoType DEF PC
<1>2. resp'[t] = r /\ r # Nil /\ \A u \in Tasks \ {t} : resp'[u] = resp[u]
  BY StoreAssumption DEF TypeInv, TypeOK
<1>3. op(t)' \in Writing
  BY DEF op
<1>4. Control(t)'
  BY <1>1, <1>2, <1>3 DEF Control, Unread, Writing, Reading
<1>5. Apart(t)
  BY DEF Apart
<1> QED BY <1>1, <1>2, <1>4, <1>5, ControlOthers DEF ControlInv

\* What is stored in the metainfo file fits the scratch file, or what the
\* request has read.
LEMMA StoredFits ==
  ASSUME NoCopy, TypeInv, EntityInv, NEW t \in Tasks, pc[t] = "store",
         NEW m, m = metainfo_to_store(t)
  PROVE  \/ /\ scratch[t] # Nil
            /\ m.ent = scratch[t].ino /\ m.etag = scratch[t].data
         \/ /\ stat[t] # Nil /\ etag[t] # Nil
            /\ m.ent = stat[t].ino /\ m.etag = etag[t]
<1>1. Ready(t) /\ Reads(t) /\ seen[t] \in Opt(Meta_info) /\ op(t) # "CopyObject"
  BY ReadsOwnKey DEF TypeInv, TypeOK, EntityInv, DataInv
<1>2. /\ etag_metainfo(t).ent = stat[t].ino
      /\ etag_metainfo(t).etag = etag[t]
      /\ [etag_metainfo(t) EXCEPT !.tags = req[t].tags].ent = stat[t].ino
      /\ [etag_metainfo(t) EXCEPT !.tags = req[t].tags].etag = etag[t]
  BY DEF etag_metainfo
<1>3. \A x \in Meta_info : \A v :
        [x EXCEPT !.tags = v].ent = x.ent /\ [x EXCEPT !.tags = v].etag = x.etag
  BY DEF Meta_info
<1>4. CASE op(t) \in Writing
  <2>1. /\ op(t) = "PutObject" /\ scratch[t] # Nil /\ new_metainfo(t) # Nil
        /\ m = new_metainfo(t)
    BY <1>1, <1>4 DEF Ready, Writing, Reading, metainfo_to_store
  <2>2. m = make_metainfo(scratch[t], req[t].tags, req[t].hdrs) /\ m # Nil
    BY <2>1 DEF new_metainfo
  <2>3. m.ent = scratch[t].ino /\ m.etag = scratch[t].data
    BY <2>2 DEF make_metainfo
  <2> QED BY <2>1, <2>3
<1>5. CASE op(t) \in Reading
  <2>1. m = etag_metainfo(t)
    BY <1>5 DEF metainfo_to_store, Writing, Reading
  <2> QED BY <1>1, <1>2, <1>5, <2>1 DEF Ready
<1>6. CASE op(t) = "PutObjectTagging"
  <2>1. m = [(IF seen[t] = Nil THEN etag_metainfo(t) ELSE seen[t])
               EXCEPT !.tags = req[t].tags]
    BY <1>6 DEF metainfo_to_store, Writing, Reading
  <2>2. CASE seen[t] = Nil
    BY <1>1, <1>2, <1>6, <2>1, <2>2 DEF Ready
  <2>3. CASE seen[t] # Nil
    <3>1. seen[t] \in Meta_info /\ m = [seen[t] EXCEPT !.tags = req[t].tags]
      BY <1>1, <2>1, <2>3 DEF Opt
    <3> QED BY <1>1, <1>3, <2>3, <3>1 DEF Reads
  <2> QED BY <2>2, <2>3
<1>7. CASE op(t) = "DeleteObjectTagging"
  <2>1. m = [seen[t] EXCEPT !.tags = Nil] /\ seen[t] # Nil
    BY <1>1, <1>7 DEF metainfo_to_store, Writing, Reading, Ready
  <2>2. seen[t] \in Meta_info
    BY <1>1, <2>1 DEF Opt
  <2> QED BY <1>1, <1>3, <2>1, <2>2 DEF Reads
<1> QED BY <1>1, <1>4, <1>5, <1>6, <1>7 DEF Ready, Tagging

\* The steps in exclusion.
LEMMA EntityModify ==
  ASSUME NoCopy, TypeInv, EntityInv, NEW t \in Tasks, Modify(t) PROVE EntityInv'
<1>0. pc[t] # "idle" /\ TypeOK /\ DataInv /\ ControlInv
  BY DEF Modify, Store_metainfo_serialized, Recheck_target, Recheck_panic,
         Store_object_metainfo, Store_fault, Place_remove_same, Place_scratch_file,
         Place_fault, Place_undo, Delete_metainfo, Delete_object, Delete_fault,
         TypeInv, EntityInv
<1>1. op(t) # "CopyObject" /\ key(t) \in Keys
  BY <1>0, ReadsOwnKey
<1>2. ASSUME UNCHANGED <<req, stat, etag, seen>>, \E c \in Codes : finish(t, c)
      PROVE  ControlInv'
  <2>1. Apart(t)
    BY <1>2 DEF Apart
  <2> QED BY <1>0, <1>2, <2>1, ControlFinish
<1>3. ASSUME UNCHANGED <<req, stat, etag, seen, resp>>,
             \E p \in {"store", "place", "rename", "unmeta", "remove", "unlock"} :
               go(t, p) /\ (p \in {"store", "unlock"} /\ op(t) \in Reading
                              => etag[t] # Nil)
      PROVE  ControlInv'
  <2>1. Apart(t)
    BY <1>3 DEF Apart
  <2> QED BY <1>0, <1>3, <2>1, ControlGo DEF PC
<1>4. CASE Store_metainfo_serialized(t)
  <2>1. /\ UNCHANGED <<file, meta, made, scratch, req, stat, etag, seen>>
        /\ \/ \E c \in Codes : finish(t, c)
           \/ go(t, "store") /\ UNCHANGED resp
    BY <1>4 DEF Store_metainfo_serialized, reading, Codes
  <2>2. op(t) \in Reading => etag[t] # Nil
    BY <1>0, <1>4 DEF Store_metainfo_serialized, ControlInv, Control
  <2>3. DataInv'
    BY <1>0, <2>1, DataLess
  <2> QED BY <1>2, <1>3, <2>1, <2>2, <2>3 DEF EntityInv
<1>5. CASE Recheck_target(t)
  <2> DEFINE c == check_conditions(etag[t],
                    IF op(t) = "DeleteObject" THEN "delete" ELSE "write", req[t].cond)
             p == IF op(t) = "DeleteObject" THEN "unmeta" ELSE to_place(t)
  <2>1. /\ UNCHANGED <<file, meta, made, scratch, req, stat, etag, seen>>
        /\ op(t) \in {"PutObject", "DeleteObject"}
        /\ \/ finish(t, "InternalError") \/ finish(t, c)
           \/ go(t, p) /\ UNCHANGED resp
    BY <1>5 DEF Recheck_target, reading
  <2>2. c \in Codes /\ "InternalError" \in Codes
    BY ConditionCodes DEF Codes
  <2>3. p \in {"unmeta", "place", "store"} /\ op(t) \notin Reading
    BY <2>1 DEF to_place, Reading
  <2> HIDE DEF c, p
  <2>4. DataInv'
    BY <1>0, <2>1, DataLess
  <2> QED BY <1>2, <1>3, <2>1, <2>2, <2>3, <2>4 DEF EntityInv
<1>6. CASE Recheck_panic(t) \/ Store_fault(t) \/ Delete_fault(t)
  <2>1. /\ UNCHANGED <<file, meta, made, scratch, req, stat, etag, seen>>
        /\ \E c \in Codes : finish(t, c)
    BY <1>6 DEF Recheck_panic, Store_fault, Delete_fault, reading, Codes
  <2>2. DataInv'
    BY <1>0, <2>1, DataLess
  <2> QED BY <1>2, <2>1, <2>2 DEF EntityInv
<1>7. CASE Store_object_metainfo(t)
  <2>1. /\ UNCHANGED <<file, made, scratch, req, stat, etag, seen>>
        /\ pc[t] = "store"
        /\ meta' = [meta EXCEPT ![key(t)] = metainfo_to_store(t)]
    BY <1>7 DEF Store_object_metainfo, reading
  <2>2. DataInv'
    BY <1>0, <1>1, <2>1, StoredFits, DataStore
  <2>3. CASE op(t) \in Writing
    <3>1. go(t, "place") /\ UNCHANGED resp
      BY <1>7, <2>3 DEF Store_object_metainfo, Writing, Reading
    <3> QED BY <1>3, <2>1, <2>2, <3>1 DEF EntityInv
  <2>4. CASE op(t) \in Reading
    <3>1. go(t, "unlock") /\ UNCHANGED resp
      BY <1>7, <2>4 DEF Store_object_metainfo, Writing, Reading
    <3>2. etag[t] # Nil
      BY <1>0, <2>1, <2>4 DEF ControlInv, Control
    <3> QED BY <1>3, <2>1, <2>2, <3>1, <3>2 DEF EntityInv
  <2>5. CASE op(t) \notin Writing \cup Reading
    <3>1. finish(t, "OK")
      BY <1>7, <2>5 DEF Store_object_metainfo
    <3> QED BY <1>2, <2>1, <2>2, <3>1 DEF EntityInv, Codes
  <2> QED BY <2>3, <2>4, <2>5
<1>8. CASE Place_remove_same(t)
  BY <1>1, <1>8 DEF Place_remove_same, same_file
<1>9. CASE Place_scratch_file(t)
  <2>1. /\ file' = [file EXCEPT ![key(t)] = scratch[t]]
        /\ scratch' = [scratch EXCEPT ![t] = Nil]
        /\ resp' = [resp EXCEPT ![t] = [reply("OK") EXCEPT !.etag = scratch[t].data]]
        /\ go(t, "unlock") /\ pc[t] \in {"place", "rename"}
        /\ UNCHANGED <<meta, made, req, stat, etag, seen>>
    BY <1>9 DEF Place_scratch_file, reading
  <2>2. op(t) \in Writing /\ scratch[t] # Nil
    BY <1>1, <2>1 DEF TypeInv, Ready, Writing
  <2>3. [reply("OK") EXCEPT !.etag = scratch[t].data] \in Response
    <3>1. scratch[t].data \in Data
      BY <1>0, <2>2 DEF TypeOK, Opt, File
    <3> QED BY <3>1 DEF reply, Response, Codes, Opt
  <2>4. DataInv'
    BY <1>0, <1>1, <2>1, <2>2, DataPlace
  <2>5. ControlInv'
    BY <1>0, <2>1, <2>2, <2>3, ControlWriting
  <2> QED BY <2>4, <2>5 DEF EntityInv
<1>10. CASE Place_fault(t)
  <2>1. /\ UNCHANGED <<file, meta, made, scratch, req, stat, etag, seen>>
        /\ resp' = [resp EXCEPT ![t] = reply("InternalError")]
        /\ (go(t, "unlock") \/ go(t, "undo")) /\ pc[t] \in {"place", "rename"}
    BY <1>10 DEF Place_fault, reading
  <2>2. op(t) \in Writing
    BY <2>1 DEF TypeInv, Ready
  <2>3. reply("InternalError") \in Response
    BY ReplyType DEF Codes
  <2>4. DataInv'
    BY <1>0, <2>1, DataLess
  <2>5. ControlInv'
    BY <1>0, <2>1, <2>2, <2>3, ControlWriting
  <2> QED BY <2>4, <2>5 DEF EntityInv
<1>11. CASE Place_undo(t) \/ Delete_metainfo(t)
  <2>1. /\ UNCHANGED <<file, made, scratch, req, stat, etag, seen, resp>>
        /\ meta' = [meta EXCEPT ![key(t)] = Nil]
        /\ go(t, "remove") \/ (go(t, "unlock") /\ pc[t] = "undo")
    BY <1>11 DEF Place_undo, Delete_metainfo, reading
  <2>2. pc[t] = "undo" => op(t) \notin Reading
    BY DEF TypeInv, Ready, Writing, Reading
  <2>3. \A k \in Keys : meta'[k] \in {meta[k], Nil}
    BY <1>0, <2>1 DEF TypeOK
  <2>4. DataInv'
    BY <1>0, <2>1, <2>3, DataLess
  <2> QED BY <1>3, <2>1, <2>2, <2>4 DEF EntityInv
<1>12. CASE Delete_object(t)
  <2>1. /\ UNCHANGED <<meta, made, scratch, req, stat, etag, seen>>
        /\ file' = [file EXCEPT ![key(t)] = Nil]
        /\ finish(t, "OK")
    BY <1>12 DEF Delete_object, reading
  <2>2. \A k \in Keys : file'[k] \in {file[k], Nil}
    BY <1>0, <2>1 DEF TypeOK
  <2>3. DataInv'
    BY <1>0, <2>1, <2>2, DataLess
  <2> QED BY <1>2, <2>1, <2>3 DEF EntityInv, Codes
<1> QED BY <1>4, <1>5, <1>6, <1>7, <1>8, <1>9, <1>10, <1>11, <1>12 DEF Modify

\* The response of GetObject: the file it opens has the entity-key of the
\* status, so that the ETag is that of the data.
LEMMA ServedFits ==
  ASSUME NoCopy, TypeInv, EntityInv, NEW t \in Tasks, pc[t] = "serve",
         op(t) = "GetObject", file[key(t)] # Nil, ~ changed(file[key(t)], stat[t])
  PROVE  etag[t] = file[key(t)].data
<1>1. stat[t] # Nil /\ file[key(t)].ino = stat[t].ino
  BY DEF changed
<1>2. etag[t] # Nil
  BY DEF EntityInv, ControlInv, Control, Reading
<1> QED BY <1>1, <1>2 DEF EntityInv, DataInv, Reads

\* The steps after exclusion.
LEMMA EntityEnd ==
  ASSUME NoCopy, TypeInv, EntityInv, NEW t \in Tasks, End(t) PROVE EntityInv'
<1>0. /\ pc[t] \in {"unlock", "discard", "serve"} /\ TypeOK /\ DataInv /\ ControlInv
      /\ UNCHANGED <<file, meta, made, req, stat, etag, seen>>
      /\ \A u \in Tasks : scratch'[u] \in {scratch[u], Nil}
  BY DEF End, Release_access, Discard_scratch_file, Serve, Get_object,
         Head_object, Get_object_tagging, Get_object_attributes, reading,
         TypeInv, TypeOK, EntityInv
<1>1. DataInv' /\ Apart(t) /\ key(t) \in Keys
  BY <1>0, DataLess, ReadsOwnKey DEF Apart
<1>2. CASE Release_access(t)
  <2>1. /\ UNCHANGED resp /\ pc[t] = "unlock"
        /\ \/ go(t, "serve") /\ resp[t] = Nil
           \/ (go(t, "discard") \/ go(t, "done")) /\ resp[t] # Nil
    <3>1. CASE resp[t] = Nil
      BY <1>2, <3>1 DEF Release_access
    <3>2. CASE resp[t] # Nil /\ scratch[t] # Nil
      BY <1>2, <3>2 DEF Release_access
    <3>3. CASE resp[t] # Nil /\ scratch[t] = Nil
      BY <1>2, <3>3 DEF Release_access
    <3> QED BY <3>1, <3>2, <3>3
  <2>2. resp[t] = Nil /\ op(t) \in Reading => etag[t] # Nil
    BY <1>0, <2>1 DEF ControlInv, Control
  <2>3. ControlInv'
    BY <1>0, <1>1, <2>1, <2>2, ControlGo DEF PC
  <2> QED BY <1>1, <2>3 DEF EntityInv
<1>3. CASE Discard_scratch_file(t)
  <2>1. UNCHANGED resp /\ go(t, "done") /\ pc[t] = "discard"
    BY <1>3 DEF Discard_scratch_file
  <2>2. resp[t] # Nil
    BY <1>0, <2>1 DEF ControlInv, Control
  <2>3. ControlInv'
    BY <1>0, <1>1, <2>1, <2>2, ControlGo DEF PC
  <2> QED BY <1>1, <2>3 DEF EntityInv
<1>4. CASE Serve(t)
  <2>1. ASSUME NEW b \in Opt(Data), answer(t, served(t, b)),
               op(t) = "GetObject" => etag[t] = b
        PROVE  ControlInv'
    <3>1. served(t, b) \in Response
      BY <1>0 DEF served, Response, Codes, TypeOK
    <3>2. served(t, b).etag = etag[t] /\ served(t, b).body = b
      BY DEF served
    <3> QED BY <1>0, <1>1, <2>1, <3>1, <3>2, ControlAnswer
  <2>2. ASSUME \E c \in Codes : finish(t, c) PROVE ControlInv'
    BY <1>0, <1>1, <2>2, ControlFinish
  <2>3. check_conditions(etag[t], "read", req[t].cond) \in Codes
    BY ConditionCodes DEF Codes
  <2>4. CASE Get_object(t)
    <3>1. /\ op(t) = "GetObject" /\ pc[t] = "serve"
          /\ \/ \E c \in Codes : finish(t, c)
             \/ /\ file[key(t)] # Nil /\ ~ changed(file[key(t)], stat[t])
                /\ answer(t, served(t, file[key(t)].data))
      BY <2>3, <2>4 DEF Get_object, Codes
    <3>2. file[key(t)] # Nil => file[key(t)].data \in Opt(Data)
      BY <1>0, <1>1 DEF TypeOK, Opt, File
    <3> QED BY <1>1, <2>1, <2>2, <3>1, <3>2, ServedFits DEF EntityInv
  <2>5. CASE Head_object(t)
    <3>1. op(t) # "GetObject" /\ (answer(t, served(t, Nil)) \/ \E c \in Codes : finish(t, c))
      BY <2>3, <2>5 DEF Head_object
    <3> QED BY <1>1, <2>1, <2>2, <3>1 DEF EntityInv, Opt
  <2>6. CASE Get_object_tagging(t) \/ Get_object_attributes(t)
    <3>1. op(t) # "GetObject" /\ answer(t, served(t, Nil))
      BY <2>6 DEF Get_object_tagging, Get_object_attributes
    <3> QED BY <1>1, <2>1, <3>1 DEF EntityInv, Opt
  <2> QED BY <1>4, <2>4, <2>5, <2>6 DEF Serve
<1> QED BY <1>2, <1>3, <1>4 DEF End

LEMMA EntityStep ==
  ASSUME NoCopy, TypeInv, EntityInv, [Next]_vars PROVE EntityInv'
<1>1. CASE Crash
  <2>1. /\ UNCHANGED <<file, meta, made, req, stat, etag, seen, scratch, resp>>
        /\ \A t \in Tasks : pc'[t] = pc[t] \/ (pc'[t] = "dead" /\ pc[t] # "idle")
    BY <1>1 DEF Crash, Running, reading
  <2>2. DataInv'
    BY <2>1, DataLess DEF EntityInv
  <2>3. ASSUME NEW t \in Tasks PROVE Control(t)'
    BY <2>1 DEF EntityInv, ControlInv, Control, Unread, op
  <2> QED BY <2>2, <2>3 DEF EntityInv, ControlInv
<1>2. CASE UNCHANGED vars
  <2>1. UNCHANGED <<file, meta, made, req, stat, etag, seen, scratch, resp, pc>>
    BY <1>2 DEF vars
  <2>2. DataInv'
    BY <2>1, DataLess DEF EntityInv
  <2>3. ControlInv'
    BY <2>1 DEF EntityInv, ControlInv, Control, Unread, op
  <2> QED BY <2>2, <2>3 DEF EntityInv
<1> QED BY <1>1, <1>2, EntityStart, EntityLock, EntityPrepare, EntityModify, EntityEnd
        DEF Next, Ended, Step

LEMMA EntityAlways == NoCopy => (Spec => []EntityInv)
<1> SUFFICES ASSUME NoCopy PROVE Spec => []EntityInv
  OBVIOUS
<1>1. TypeInv /\ EntityInv /\ [Next]_vars => EntityInv'
  BY EntityStep
<1> QED BY <1>1, EntityInit, TypeInit, TypeStep, PTL DEF Spec

\* Whatever requests run at the same time, fail or are killed, metainfo that
\* fetch_object_metainfo accepts has the ETag of the object: readers
\* calculate the MD5 and store it in different steps, and an update between
\* them makes the stored entity-key one that no file has any more.
THEOREM ETagsSound == NoCopy => (Spec => []ETagSound)
<1>1. EntityInv => ETagSound
  BY DEF EntityInv, DataInv, MetaSound, ETagSound, valid, fetch_object_metainfo
<1> QED BY <1>1, EntityAlways, PTL

\* A GetObject that succeeds returns the ETag of the data it sends, although
\* it reads status, metainfo, contents and data without exclusion: the
\* comparison of entity-keys in make_file_stream is enough.
THEOREM GetsConsistent == NoCopy => (Spec => []GetConsistent)
<1>1. EntityInv => GetConsistent
  BY DEF EntityInv, ControlInv, Control, GetConsistent
<1> QED BY <1>1, EntityAlways, PTL
-----------------------------------------------------------------------------
(***************************************************************************)
(* The two files of an object as one: what the request in exclusion on an  *)
(* object knows of it, until it has replaced or removed it.                *)
(***************************************************************************)

\* A request asks and is answered once, and has a scratch file only for a
\* PutObject.  A reader that enters exclusion has an ETag to save.
Asked(t) ==
  /\ pc[t] = "idle" => req[t] = Nil /\ scratch[t] = Nil
  /\ pc[t] \notin {"unlock", "undo", "discard", "done", "dead"} => resp[t] = Nil
  /\ pc[t] # "rename"
  /\ pc[t] \in {"unmeta", "remove"} => op(t) = "DeleteObject"
  /\ pc[t] \in {"lock", "guard", "store"} /\ op(t) \in Reading
       => stat[t].data \in LargeData

\* A scratch file has the data of its request, and metainfo for it is there
\* only if the request has prepared some.
Fresh(t) ==
  scratch[t] # Nil =>
    /\ op(t) = "PutObject" /\ scratch[t].data = req[t].data
    /\ \A k \in Keys :
         meta[k] # Nil /\ meta[k].ent = scratch[t].ino => new_metainfo(t) # Nil

\* A request that finds the object it has read again has its ETag.
Judged(t) ==
  pc[t] \in {"lock", "guard"} /\ (op(t) = "DeleteObject" \/ conditional_put(t))
    => (stat[t] # Nil /\ file[key(t)] # Nil /\ file[key(t)].ino = stat[t].ino
          => etag[t] # Nil)

\* Past the recheck, the conditions hold on the object.
Granted(t) ==
  /\ pc[t] \in {"store", "place"} /\ op(t) = "PutObject"
       => AtomicObjects!Holds(req[t].cond, file[key(t)])
  /\ pc[t] \in {"unmeta", "remove"}
       => file[key(t)] # Nil /\ AtomicObjects!Holds(req[t].cond, file[key(t)])

\* The tagging operations have read the object as it is.
Tagged(t) ==
  op(t) \in Tagging =>
    /\ pc[t] \in {"meta", "md5", "store"} => stat[t] # Nil /\ stat[t] = file[key(t)]
    /\ pc[t] \in {"md5", "store"} => seen[t] = valid(key(t))

\* The metainfo before, in and after the window of an update.
Windowed(t) ==
  /\ pc[t] \in {"guard", "store", "unmeta"} /\ op(t) \in {"PutObject", "DeleteObject"}
       => prior[t] = valid(key(t))
  /\ pc[t] = "place" /\ new_metainfo(t) # Nil => meta[key(t)] = new_metainfo(t)
  /\ pc[t] = "undo" => valid(key(t)) = Nil
  /\ pc[t] = "remove" => meta[key(t)] = Nil

\* All of this is stable, since the request is in exclusion.
Held(t) ==
  InExclusion(t) =>
    holder[key(t)] = t /\ Granted(t) /\ Tagged(t) /\ Windowed(t)

UpdateInv == \A t \in Tasks : Asked(t) /\ Fresh(t) /\ Judged(t) /\ Held(t)

\* All that is known of a state.
StoreInv == TypeInv /\ NeatInv /\ EntityInv /\ UpdateInv

\* The others do not take part in the step of a request.
Other(u) == Same(u) /\ resp'[u] = resp[u] /\ prior'[u] = prior[u]
Others(t) == \A u \in Tasks \ {t} : Other(u)

\* Only the holder of exclusion touches an object.
Outside(t) ==
  \A k \in Keys : holder[k] # t =>
    file'[k] = file[k] /\ meta'[k] = meta[k] /\ holder'[k] \in {holder[k], t}

LEMMA NewMetainfoSame ==
  ASSUME NEW u, scratch'[u] = scratch[u], req'[u] = req[u], seen'[u] = seen[u]
  PROVE  new_metainfo(u)' = new_metainfo(u)
BY DEF new_metainfo, make_metainfo, by_directive, op

LEMMA ValidSame ==
  ASSUME NEW k, file'[k] = file[k], meta'[k] = meta[k]
  PROVE  valid(k)' = valid(k)
BY DEF valid, fetch_object_metainfo

LEMMA AskedOthers ==
  ASSUME UpdateInv, NEW t \in Tasks, Others(t), NEW u \in Tasks \ {t}
  PROVE  Asked(u)'
BY DEF UpdateInv, Others, Other, Same, Asked, op

\* A request in exclusion keeps what it knows.
LEMMA HeldOthers ==
  ASSUME TypeInv, UpdateInv, NEW t \in Tasks, Others(t), Outside(t),
         \A k \in Keys : holder[k] \notin {t, Nil} => holder'[k] = holder[k],
         NEW u \in Tasks \ {t}
  PROVE  Held(u)'
<1> SUFFICES ASSUME InExclusion(u)' PROVE Held(u)'
  BY DEF Held
<1>1. /\ Same(u) /\ prior'[u] = prior[u] /\ InExclusion(u)
      /\ op(u)' = op(u) /\ key(u)' = key(u)
  BY DEF Others, Other, Same, InExclusion, op, key
<1>2. pc[u] # "idle" /\ key(u) \in Keys
  BY <1>1, KeyType DEF InExclusion
<1>3. holder[key(u)] = u /\ Granted(u) /\ Tagged(u) /\ Windowed(u)
  BY <1>1 DEF UpdateInv, Held
<1>4. u # t /\ u # Nil
  BY StoreAssumption
<1>5. /\ holder'[key(u)] = u
      /\ file'[key(u)] = file[key(u)] /\ meta'[key(u)] = meta[key(u)]
  BY <1>2, <1>3, <1>4 DEF Outside
<1>6. valid(key(u))' = valid(key(u)) /\ new_metainfo(u)' = new_metainfo(u)
  <2>1. valid(key(u))' = fetch_object_metainfo(key(u), file[key(u)])
    BY <1>1, <1>5 DEF valid, fetch_object_metainfo
  <2> QED BY <1>1, <2>1, NewMetainfoSame DEF valid, Same
<1>7. Granted(u)'
  BY <1>1, <1>3, <1>5 DEF Granted, Same, AtomicObjects!Holds
<1>8. Tagged(u)'
  BY <1>1, <1>3, <1>5, <1>6 DEF Tagged, Same
<1>9. Windowed(u)'
  BY <1>1, <1>3, <1>5, <1>6 DEF Windowed, Same
<1> QED BY <1>1, <1>5, <1>7, <1>8, <1>9 DEF Held

\* An object that has been replaced does not come back.
LEMMA JudgedOthers ==
  ASSUME NoCopy, TypeInv, EntityInv, UpdateInv, NEW t \in Tasks, Others(t),
         \A k \in Keys : file'[k] \in {file[k], Nil, scratch[t]},
         NEW u \in Tasks \ {t}
  PROVE  Judged(u)'
<1> SUFFICES ASSUME pc'[u] \in {"lock", "guard"},
                    op(u)' = "DeleteObject" \/ conditional_put(u)', stat'[u] # Nil,
                    file'[key(u)'] # Nil, file'[key(u)'].ino = stat'[u].ino
             PROVE  etag'[u] # Nil
  BY DEF Judged
<1>1. /\ Same(u) /\ key(u)' = key(u) /\ pc[u] \in {"lock", "guard"}
      /\ op(u) = "DeleteObject" \/ conditional_put(u)
  BY DEF Others, Other, Same, op, key, conditional_put
<1>2. key(u) \in Keys
  BY <1>1, KeyType
<1>3. file'[key(u)] = file[key(u)]
  BY <1>1, <1>2 DEF EntityInv, DataInv, Private, Same
<1> QED BY <1>1, <1>3 DEF UpdateInv, Judged, Same

\* Metainfo and scratch files that disappear.
LEMMA FreshLess ==
  ASSUME UpdateInv, UNCHANGED req,
         \A k \in Keys : meta'[k] \in {meta[k], Nil},
         \A u \in Tasks : scratch'[u] \in {scratch[u], Nil},
         NEW u \in Tasks
  PROVE  Fresh(u)'
<1> SUFFICES ASSUME scratch'[u] # Nil PROVE Fresh(u)'
  BY DEF Fresh
<1>1. Fresh(u) /\ scratch'[u] = scratch[u] /\ op(u)' = op(u) /\ op(u) = "PutObject"
  BY DEF UpdateInv, Fresh, op
<1>2. new_metainfo(u)' = new_metainfo(u)
  BY <1>1 DEF new_metainfo, make_metainfo
<1> QED BY <1>1, <1>2 DEF Fresh

\* A new scratch file has no metainfo yet.
LEMMA FreshNew ==
  ASSUME TypeInv, EntityInv, UpdateInv, NEW t \in Tasks,
         op(t) = "PutObject", UNCHANGED <<req, meta>>,
         scratch' = [scratch EXCEPT ![t] = [ino |-> made + 1, data |-> req[t].data]],
         NEW u \in Tasks
  PROVE  Fresh(u)'
<1>1. CASE u = t
  <2>1. /\ scratch'[t].ino = made + 1 /\ scratch'[t].data = req'[t].data
        /\ op(t)' = "PutObject" /\ made \in Nat
    BY DEF op, TypeInv, TypeOK
  <2>2. \A k \in Keys : meta'[k] # Nil => meta'[k].ent \in Nat /\ meta'[k].ent <= made
    BY DEF TypeInv, TypeOK, Opt, Meta_info, EntityInv, DataInv, Bounded
  <2> QED BY <1>1, <2>1, <2>2 DEF Fresh
<1>2. CASE u # t
  <2>1. scratch'[u] = scratch[u] /\ op(u)' = op(u) /\ Fresh(u)
    BY <1>2 DEF TypeInv, TypeOK, op, UpdateInv
  <2>2. op(u) = "PutObject" => new_metainfo(u)' = new_metainfo(u)
    BY <2>1 DEF new_metainfo, make_metainfo
  <2> QED BY <2>1, <2>2 DEF Fresh
<1> QED BY <1>1, <1>2

\* Metainfo is stored for the scratch file that it has been prepared for, or
\* for a file that is no scratch file.
LEMMA FreshStore ==
  ASSUME NoCopy, TypeInv, EntityInv, UpdateInv, NEW t \in Tasks, pc[t] = "store",
         meta' = [meta EXCEPT ![key(t)] = metainfo_to_store(t)],
         UNCHANGED <<req, scratch, stat>>, NEW u \in Tasks
  PROVE  Fresh(u)'
<1> DEFINE m == metainfo_to_store(t)
<1> SUFFICES ASSUME scratch[u] # Nil PROVE Fresh(u)'
  BY DEF Fresh
<1>1. op(u)' = op(u) /\ Fresh(u) /\ op(u) = "PutObject"
  BY DEF UpdateInv, Fresh, op
<1>2. new_metainfo(u)' = new_metainfo(u)
  BY <1>1 DEF new_metainfo, make_metainfo
<1>3. \/ scratch[t] # Nil /\ m.ent = scratch[t].ino
      \/ stat[t] # Nil /\ m.ent = stat[t].ino
  BY StoredFits
<1>4. m.ent = scratch[u].ino => u = t /\ op(t) = "PutObject"
  BY <1>1, <1>3 DEF EntityInv, DataInv, Private
<1>5. op(t) = "PutObject" => new_metainfo(t) # Nil
  BY DEF TypeInv, Ready, Writing
<1>6. \A k \in Keys : meta'[k] \in {meta[k], m}
  BY DEF TypeInv, TypeOK
<1> HIDE DEF m
<1> QED BY <1>1, <1>2, <1>4, <1>5, <1>6 DEF Fresh

\* A request that answers gives back what it has.
LEMMA UpdateAnswer ==
  ASSUME TypeInv, NEW t \in Tasks, NEW r \in Response, pc[t] # "idle",
         answer(t, r), UNCHANGED <<req, holder>>
  PROVE  Asked(t)' /\ Judged(t)' /\ Held(t)'
<1>1. /\ pc'[t] \in {"unlock", "discard", "done"}
      /\ pc'[t] = "unlock" => holder[key(t)] = t
  BY DEF answer, go, TypeInv, TypeOK
<1>2. Asked(t)' /\ Judged(t)'
  BY <1>1 DEF Asked, Judged
<1>3. Held(t)'
  BY <1>1 DEF Held, InExclusion, Granted, Tagged, Windowed, key
<1> QED BY <1>2, <1>3

LEMMA UpdateFinish ==
  ASSUME TypeInv, NEW t \in Tasks, NEW c \in Codes, pc[t] # "idle",
         finish(t, c), UNCHANGED <<req, holder>>
  PROVE  Asked(t)' /\ Judged(t)' /\ Held(t)'
BY UpdateAnswer, ReplyType DEF finish

\* A request that goes on outside of exclusion.
LEMMA UpdateCalm ==
  ASSUME NEW t \in Tasks, pc'[t] \in {"discard", "done", "serve"},
         pc'[t] = "serve" => resp'[t] = Nil
  PROVE  Asked(t)' /\ Judged(t)' /\ Held(t)'
BY DEF Asked, Judged, Held, InExclusion

\* One request takes a step.
LEMMA UpdateRest ==
  ASSUME NoCopy, StoreInv, NEW t \in Tasks, Others(t), Outside(t),
         \A k \in Keys : holder[k] \notin {t, Nil} => holder'[k] = holder[k],
         \A k \in Keys : file'[k] \in {file[k], Nil, scratch[t]},
         Asked(t)', Judged(t)', Held(t)', \A u \in Tasks : Fresh(u)'
  PROVE  UpdateInv'
<1>1. ASSUME NEW u \in Tasks \ {t} PROVE Asked(u)' /\ Judged(u)' /\ Held(u)'
  BY <1>1, AskedOthers, HeldOthers, JudgedOthers DEF StoreInv
<1> QED BY <1>1 DEF UpdateInv

LEMMA UpdateInit == Init => UpdateInv
<1> SUFFICES ASSUME Init, NEW t \in Tasks
             PROVE  Asked(t) /\ Fresh(t) /\ Judged(t) /\ Held(t)
  BY DEF UpdateInv
<1>1. pc[t] = "idle" /\ req[t] = Nil /\ scratch[t] = Nil /\ resp[t] = Nil
  BY DEF Init
<1> QED BY <1>1 DEF Asked, Fresh, Judged, Held, InExclusion

LEMMA UpdateStart ==
  ASSUME NoCopy, StoreInv, NEW t \in Tasks, Start(t) PROVE UpdateInv'
<1>1. PICK r \in Reqs : /\ req' = [req EXCEPT ![t] = r]
                        /\ go(t, CASE r.op = "PutObject" -> "upload"
                                   [] r.op \in Tagging -> "lock"
                                   [] OTHER -> "stat")
  BY DEF Start
<1>2. /\ pc'[t] \in {"upload", "lock", "stat"}
      /\ pc'[t] = "stat" => r.op \notin Tagging
      /\ pc'[t] = "lock" => r.op \in Tagging
  <2>1. CASE r.op = "PutObject"
    BY <1>1, <2>1 DEF StoreInv, TypeInv, TypeOK, go
  <2>2. CASE r.op # "PutObject" /\ r.op \in Tagging
    BY <1>1, <2>2 DEF StoreInv, TypeInv, TypeOK, go
  <2>3. CASE r.op # "PutObject" /\ r.op \notin Tagging
    BY <1>1, <2>3 DEF StoreInv, TypeInv, TypeOK, go
  <2> QED BY <2>1, <2>2, <2>3
<1>3. /\ UNCHANGED <<file, meta, holder, stat, etag, seen, scratch, resp, prior>>
      /\ pc[t] = "idle" /\ scratch[t] = Nil /\ resp[t] = Nil
  BY DEF Start, reading, StoreInv, UpdateInv, Asked
<1>4. op(t)' = r.op
  BY <1>1 DEF op, StoreInv, TypeInv, TypeOK
<1>5. Others(t)
  BY <1>1, <1>3 DEF Others, Other, Same, go, StoreInv, TypeInv, TypeOK
<1>6. Outside(t)
  BY <1>3 DEF Outside
<1>7. Asked(t)' /\ Judged(t)' /\ Held(t)'
  BY <1>2, <1>3, <1>4
     DEF Asked, Judged, Held, InExclusion, Tagging, Reading, conditional_put
<1>8. ASSUME NEW u \in Tasks PROVE Fresh(u)'
  <2>1. CASE u = t
    BY <1>3, <2>1 DEF Fresh
  <2>2. CASE u # t
    <3>1. Same(u) /\ op(u)' = op(u) /\ Fresh(u)
      BY <1>5, <2>2 DEF Others, Other, Same, op, StoreInv, UpdateInv
    <3>2. new_metainfo(u)' = new_metainfo(u)
      BY <3>1, NewMetainfoSame DEF Same
    <3> QED BY <1>3, <3>1, <3>2 DEF Fresh, Same
  <2> QED BY <2>1, <2>2
<1> QED BY <1>3, <1>5, <1>6, <1>7, <1>8, UpdateRest

\* The steps that read the object and prepare a scratch file.
LEMMA UpdatePrepare ==
  ASSUME NoCopy, StoreInv, NEW t \in Tasks, Prepare(t) PROVE UpdateInv'
<1> USE DEF StoreInv
<1>0. pc[t] # "idle" /\ TypeOK /\ Ready(t) /\ Asked(t) /\ Held(t)
  BY DEF Prepare, Upload_scratch, Upload_fault, Fetch_object_status,
         Fetch_object_metainfo, Calculate_csum2, Copy_scratch, Copy_scratch_fault,
         TypeInv, UpdateInv
<1>1. /\ op(t) # "CopyObject" /\ read_key(t) = key(t) /\ key(t) \in Keys
      /\ op(t) \in Ops
  BY <1>0, ReadsOwnKey
<1>2. UNCHANGED <<file, meta, holder, req, prior>>
  BY DEF Prepare, Upload_scratch, Upload_fault, Fetch_object_status,
         Fetch_object_metainfo, Calculate_csum2, Copy_scratch, Copy_scratch_fault,
         reading
<1>3. op(t)' = op(t) /\ key(t)' = key(t) /\ (conditional_put(t)' <=> conditional_put(t))
  BY <1>2 DEF op, key, conditional_put
<1>4. Outside(t)
  BY <1>2 DEF Outside
<1>5. Others(t)
  BY <1>0, <1>2 DEF Prepare, Upload_scratch, Upload_fault, Fetch_object_status,
         Fetch_object_metainfo, Calculate_csum2, Copy_scratch, Copy_scratch_fault,
         Others, Other, Same, reading, finish, answer, go, TypeOK
<1>6. SUFFICES Asked(t)' /\ Judged(t)' /\ Held(t)' /\ \A u \in Tasks : Fresh(u)'
  BY <1>2, <1>4, <1>5, UpdateRest
<1>7. ASSUME UNCHANGED scratch, NEW u \in Tasks PROVE Fresh(u)'
  BY <1>2, <1>7, FreshLess
<1>8. ASSUME NEW c \in Codes, finish(t, c) PROVE Asked(t)' /\ Judged(t)' /\ Held(t)'
  BY <1>0, <1>2, <1>8, UpdateFinish
<1>9. CASE Upload_scratch(t) \/ Upload_fault(t)
  <2>1. /\ pc[t] = "upload" /\ op(t) = "PutObject" /\ resp[t] = Nil
        /\ scratch' = [scratch EXCEPT ![t] = [ino |-> made + 1, data |-> req[t].data]]
    BY <1>0, <1>9 DEF Upload_scratch, Upload_fault, Ready, Asked
  <2>2. \A u \in Tasks : Fresh(u)'
    BY <1>2, <2>1, FreshNew
  <2>3. CASE Upload_scratch(t)
    <3>1. /\ resp'[t] = Nil /\ pc'[t] \in {"stat", "lock"}
          /\ pc'[t] = "lock" => ~ conditional_put(t)
      BY <1>0, <2>1, <2>3 DEF Upload_scratch, go, TypeOK
    <3>2. Asked(t)'
      BY <1>3, <2>1, <3>1 DEF Asked, Reading
    <3>3. Judged(t)'
      BY <1>3, <2>1, <3>1 DEF Judged
    <3>4. Held(t)'
      BY <1>3, <2>1, <3>1 DEF Held, InExclusion, Tagging
    <3> QED BY <2>2, <3>2, <3>3, <3>4
  <2>4. CASE Upload_fault(t)
    <3>1. pc'[t] = "discard"
      BY <1>0, <2>4 DEF Upload_fault, go, TypeOK
    <3> QED BY <2>2, <3>1, UpdateCalm
  <2> QED BY <1>9, <2>3, <2>4
<1>10. CASE Fetch_object_status(t)
  <2>1. /\ pc[t] = "stat" /\ resp[t] = Nil /\ UNCHANGED scratch
        /\ stat'[t] = file[key(t)]
        /\ \/ finish(t, "NoSuchKey")
           \/ /\ go(t, "meta") /\ UNCHANGED resp
              /\ file[key(t)] # Nil \/ op(t) = "PutObject"
    BY <1>0, <1>1, <1>10 DEF Fetch_object_status, Asked, TypeOK, conditional_put
  <2>2. CASE finish(t, "NoSuchKey")
    BY <1>7, <1>8, <2>1, <2>2 DEF Codes
  <2>3. CASE /\ go(t, "meta") /\ UNCHANGED resp
             /\ file[key(t)] # Nil \/ op(t) = "PutObject"
    <3>1. pc'[t] = "meta" /\ resp'[t] = Nil
      BY <1>0, <2>1, <2>3 DEF go, TypeOK
    <3>2. Asked(t)' /\ Judged(t)'
      BY <3>1 DEF Asked, Judged
    <3>3. ASSUME op(t) \in Tagging PROVE Held(t)'
      <4>1. holder[key(t)] = t
        BY <1>0, <2>1, <3>3 DEF Held, InExclusion
      <4>2. Tagged(t)'
        BY <1>2, <1>3, <2>1, <2>3, <3>1, <3>3 DEF Tagged, Tagging
      <4> QED BY <1>2, <1>3, <3>1, <4>1, <4>2 DEF Held, Granted, Windowed
    <3>4. ASSUME op(t) \notin Tagging PROVE Held(t)'
      BY <1>3, <3>1, <3>4 DEF Held, InExclusion
    <3> QED BY <1>7, <2>1, <3>2, <3>3, <3>4
  <2> QED BY <2>1, <2>2, <2>3
<1>11. CASE Fetch_object_metainfo(t)
  <2> DEFINE m == fetch_object_metainfo(key(t), stat[t])
  <2>1. /\ pc[t] = "meta" /\ resp[t] = Nil /\ UNCHANGED <<scratch, stat>>
        /\ seen'[t] = m /\ etag'[t] = IF m = Nil THEN Nil ELSE m.etag
    BY <1>0, <1>1, <1>11 DEF Fetch_object_metainfo, Asked, TypeOK
  <2>2. m # Nil => m.etag # Nil
    <3>1. m # Nil => m \in Meta_info
      BY <1>0, <1>1, FetchType DEF Opt
    <3> QED BY <3>1, StoreAssumption DEF Meta_info
  <2>3. ASSUME op(t) \in Tagging, pc'[t] \in {"md5", "store"} PROVE Held(t)'
    <3>1. holder[key(t)] = t /\ stat[t] # Nil /\ stat[t] = file[key(t)]
      BY <1>0, <2>1, <2>3 DEF Held, InExclusion, Tagged
    <3>2. valid(key(t))' = m
      BY <1>2, <1>3, <3>1 DEF valid, fetch_object_metainfo
    <3>3. Tagged(t)'
      BY <1>2, <1>3, <2>1, <3>1, <3>2 DEF Tagged
    <3> QED BY <1>2, <1>3, <2>3, <3>1, <3>3 DEF Held, Granted, Windowed, Tagging
  <2>4. CASE finish(t, "OK")
    BY <1>7, <1>8, <2>1, <2>4 DEF Codes
  <2>5. CASE op(t) = "GetObjectTagging"
    <3>1. pc'[t] = "serve" /\ UNCHANGED resp
      BY <1>0, <1>11, <2>5 DEF Fetch_object_metainfo, go, TypeOK
    <3> QED BY <1>7, <2>1, <3>1, UpdateCalm
  <2>6. CASE op(t) = "DeleteObjectTagging" /\ ~ finish(t, "OK")
    <3>1. pc'[t] = "store" /\ UNCHANGED resp
      BY <1>0, <1>11, <2>6 DEF Fetch_object_metainfo, go, TypeOK
    <3>2. Asked(t)' /\ Judged(t)'
      BY <1>3, <2>1, <2>6, <3>1 DEF Asked, Judged, Reading
    <3> QED BY <1>7, <2>1, <2>3, <2>6, <3>1, <3>2 DEF Tagging
  <2>7. CASE op(t) \notin {"GetObjectTagging", "DeleteObjectTagging"}
    <3>1. go(t, IF m = Nil THEN "md5" ELSE after_etag(t, m)) /\ UNCHANGED resp
      BY <1>1, <1>11, <2>7 DEF Fetch_object_metainfo
    <3>2. pc'[t] = IF m = Nil THEN "md5" ELSE after_etag(t, m)
      BY <1>0, <3>1 DEF go, TypeOK
    <3>3. CASE m = Nil
      <4>1. Asked(t)' /\ Judged(t)'
        BY <2>1, <3>1, <3>2, <3>3 DEF Asked, Judged
      <4>2. op(t) \notin Tagging => Held(t)'
        BY <1>3, <3>2, <3>3 DEF Held, InExclusion
      <4> QED BY <1>7, <2>1, <2>3, <3>2, <3>3, <4>1, <4>2
    <3>4. CASE m # Nil
      <4>1. /\ op(t) \in {"PutObject", "DeleteObject"} => pc'[t] = "lock"
            /\ op(t) = "PutObjectTagging" => pc'[t] = "store"
            /\ op(t) \notin {"PutObject", "DeleteObject", "PutObjectTagging"}
                 => pc'[t] = "serve"
        BY <1>1, <2>7, <3>2, <3>4 DEF after_etag, Reading
      <4>2. CASE op(t) \in {"PutObject", "DeleteObject"}
        BY <1>3, <1>7, <2>1, <2>2, <3>1, <3>4, <4>1, <4>2
           DEF Asked, Judged, Held, InExclusion, Reading
      <4>3. CASE op(t) = "PutObjectTagging"
        <5>1. Asked(t)' /\ Judged(t)'
          BY <1>3, <2>1, <3>1, <4>1, <4>3 DEF Asked, Judged, Reading
        <5> QED BY <1>7, <2>1, <2>3, <4>1, <4>3, <5>1 DEF Tagging
      <4>4. CASE op(t) \notin {"PutObject", "DeleteObject", "PutObjectTagging"}
        BY <1>7, <2>1, <3>1, <4>1, <4>4, UpdateCalm
      <4> QED BY <4>2, <4>3, <4>4
    <3> QED BY <3>3, <3>4
  <2> QED BY <2>4, <2>5, <2>6, <2>7
<1>12. CASE Calculate_csum2(t)
  <2>1. /\ pc[t] = "md5" /\ resp[t] = Nil /\ UNCHANGED <<scratch, stat, seen>>
        /\ \/ finish(t, "InternalError")
           \/ /\ etag'[t] = IF file[key(t)] = Nil THEN Nil ELSE file[key(t)].data
              /\ go(t, after_etag(t, Nil)) /\ UNCHANGED resp
    BY <1>0, <1>1, <1>12 DEF Calculate_csum2, Asked, TypeOK
  <2>2. CASE finish(t, "InternalError")
    BY <1>7, <1>8, <2>1, <2>2 DEF Codes
  <2>3. CASE /\ etag'[t] = IF file[key(t)] = Nil THEN Nil ELSE file[key(t)].data
             /\ go(t, after_etag(t, Nil)) /\ UNCHANGED resp
    <3>1. /\ op(t) \in {"PutObject", "DeleteObject"} => pc'[t] = "lock"
          /\ op(t) = "PutObjectTagging" => pc'[t] = "store"
          /\ op(t) \in Reading =>
               pc'[t] = IF stat[t].data \in LargeData THEN "lock" ELSE "serve"
          /\ op(t) \notin {"PutObject", "DeleteObject", "PutObjectTagging"} \cup Reading
               => pc'[t] = "serve"
      <4>1. pc'[t] = after_etag(t, Nil)
        BY <1>0, <2>3 DEF go, TypeOK
      <4> QED BY <1>1, <4>1 DEF after_etag, Reading
    <3>2. file[key(t)] # Nil => file[key(t)].data # Nil
      BY <1>0, <1>1, StoreAssumption DEF TypeOK, Opt, File
    <3>3. CASE op(t) \in {"PutObject", "DeleteObject"}
      <4>1. Judged(t)'
        BY <1>2, <1>3, <2>1, <2>3, <3>2 DEF Judged
      <4>2. Asked(t)' /\ Held(t)'
        BY <1>3, <2>1, <2>3, <3>1, <3>3 DEF Asked, Held, InExclusion, Reading
      <4> QED BY <1>7, <2>1, <4>1, <4>2
    <3>4. CASE op(t) = "PutObjectTagging"
      <4>1. /\ holder[key(t)] = t /\ stat[t] # Nil /\ stat[t] = file[key(t)]
            /\ seen[t] = valid(key(t))
        BY <1>0, <2>1, <3>4 DEF Held, InExclusion, Tagged, Tagging
      <4>2. valid(key(t))' = valid(key(t))
        BY <1>2, <1>3 DEF valid, fetch_object_metainfo
      <4>3. Tagged(t)'
        BY <1>2, <1>3, <2>1, <4>1, <4>2 DEF Tagged
      <4>4. Held(t)'
        BY <1>2, <1>3, <3>1, <3>4, <4>1, <4>3 DEF Held, Granted, Windowed
      <4>5. Asked(t)' /\ Judged(t)'
        BY <1>3, <2>1, <2>3, <3>1, <3>4 DEF Asked, Judged, Reading
      <4> QED BY <1>7, <2>1, <4>4, <4>5
    <3>5. CASE op(t) \in Reading
      <4>1. Asked(t)'
        BY <1>3, <2>1, <2>3, <3>1, <3>5 DEF Asked
      <4>2. Judged(t)' /\ Held(t)'
        BY <1>3, <3>1, <3>5 DEF Judged, Held, InExclusion, conditional_put, Reading
      <4> QED BY <1>7, <2>1, <4>1, <4>2
    <3>6. CASE op(t) \notin {"PutObject", "DeleteObject", "PutObjectTagging"} \cup Reading
      BY <1>7, <2>1, <2>3, <3>1, <3>6, UpdateCalm
    <3> QED BY <3>3, <3>4, <3>5, <3>6
  <2> QED BY <2>1, <2>2, <2>3
<1>13. CASE Copy_scratch(t) \/ Copy_scratch_fault(t)
  BY <1>0, <1>1, <1>13 DEF Copy_scratch, Copy_scratch_fault, Ready
<1> QED BY <1>9, <1>10, <1>11, <1>12, <1>13 DEF Prepare

\* Entering exclusion, or not.
LEMMA UpdateLock ==
  ASSUME NoCopy, StoreInv, NEW t \in Tasks, Serialize_access(t) \/ Access_timeout(t)
  PROVE  UpdateInv'
<1> USE DEF StoreInv
<1>0. /\ pc[t] = "lock" /\ TypeOK /\ Asked(t) /\ Judged(t)
      /\ UNCHANGED <<file, meta, req, stat, etag, seen, scratch>>
  BY DEF Serialize_access, Access_timeout, reading, TypeInv, UpdateInv
<1>1. op(t) # "CopyObject" /\ key(t) \in Keys /\ op(t) \in Ops
  BY <1>0, ReadsOwnKey
<1>2. op(t)' = op(t) /\ key(t)' = key(t) /\ (conditional_put(t)' <=> conditional_put(t))
  BY <1>0 DEF op, key, conditional_put
<1>3. \A u \in Tasks : Fresh(u)'
  BY <1>0, FreshLess
<1>4. CASE Serialize_access(t)
  <2> DEFINE p == CASE op(t) \in Tagging -> "stat"
                    [] op(t) = "CopyObject" -> to_place(t)
                    [] op(t) = "PutObject" /\ ~ conditional_put(t) -> to_place(t)
                    [] OTHER -> "guard"
  <2>1. \/ p = "stat" /\ op(t) \in Tagging
        \/ p = to_place(t) /\ op(t) = "PutObject" /\ ~ conditional_put(t)
        \/ p = "guard" /\ op(t) \notin Tagging
    BY <1>1
  <2>2. /\ holder[key(t)] = Nil /\ holder' = [holder EXCEPT ![key(t)] = t]
        /\ prior' = [prior EXCEPT ![t] = fetch_object_metainfo(key(t), file[key(t)])]
        /\ go(t, p) /\ UNCHANGED resp
    BY <1>4 DEF Serialize_access
  <2> HIDE DEF p
  <2>3. pc'[t] = p /\ resp'[t] = Nil /\ holder'[key(t)] = t
        /\ prior'[t] = valid(key(t))
    BY <1>0, <1>1, <2>2 DEF go, Asked, TypeOK, valid
  <2>4. Others(t)
    BY <1>0, <2>2 DEF Others, Other, Same, go, TypeOK
  <2>5. Outside(t) /\ \A k \in Keys : holder[k] \notin {t, Nil} => holder'[k] = holder[k]
    BY <1>0, <1>1, <2>2 DEF Outside, TypeOK
  <2>6. valid(key(t))' = valid(key(t)) /\ new_metainfo(t)' = new_metainfo(t)
    BY <1>0, <1>2, NewMetainfoSame DEF valid, fetch_object_metainfo
  <2>7. CASE p = "stat" /\ op(t) \in Tagging
    BY <1>0, <1>2, <1>3, <2>3, <2>4, <2>5, <2>7, UpdateRest
       DEF Asked, Judged, Held, Granted, Tagged, Windowed
  <2>8. CASE p = to_place(t) /\ op(t) = "PutObject" /\ ~ conditional_put(t)
    <3>1. p \in {"store", "place"} /\ (p = "place" => new_metainfo(t) = Nil)
      BY <2>8 DEF to_place
    <3>2. AtomicObjects!Holds(req[t].cond, file[key(t)])'
      BY <1>0, <2>8 DEF conditional_put, NoCond, AtomicObjects!Holds
    <3>3. Granted(t)'
      BY <1>2, <2>3, <3>1, <3>2 DEF Granted
    <3>4. Windowed(t)' /\ Tagged(t)'
      BY <1>2, <2>3, <2>6, <2>8, <3>1 DEF Windowed, Tagged, Tagging
    <3>5. Asked(t)' /\ Judged(t)'
      BY <1>2, <2>3, <2>8, <3>1 DEF Asked, Judged, Reading
    <3>6. Held(t)'
      BY <1>2, <2>3, <3>3, <3>4 DEF Held
    <3> QED BY <1>0, <1>3, <2>4, <2>5, <3>5, <3>6, UpdateRest
  <2>9. CASE p = "guard" /\ op(t) \notin Tagging
    <3>1. Windowed(t)' /\ Tagged(t)' /\ Granted(t)'
      BY <1>2, <2>3, <2>6, <2>9 DEF Windowed, Tagged, Granted
    <3>2. Asked(t)' /\ Judged(t)'
      BY <1>0, <1>2, <2>3, <2>9 DEF Asked, Judged
    <3>3. Held(t)'
      BY <1>2, <2>3, <3>1 DEF Held
    <3> QED BY <1>0, <1>3, <2>4, <2>5, <3>2, <3>3, UpdateRest
  <2> QED BY <2>1, <2>7, <2>8, <2>9
<1>5. CASE Access_timeout(t)
  <2>1. finish(t, "RequestTimeout") /\ UNCHANGED <<holder, prior>>
    BY <1>5 DEF Access_timeout
  <2>2. Others(t) /\ Outside(t)
    BY <1>0, <2>1 DEF Others, Other, Same, Outside, finish, answer, go, TypeOK
  <2>3. Asked(t)' /\ Judged(t)' /\ Held(t)'
    BY <1>0, <2>1, UpdateFinish DEF Codes
  <2> QED BY <1>0, <1>3, <2>1, <2>2, <2>3, UpdateRest
<1> QED BY <1>4, <1>5

\* Conditions that are checked on the ETag of an object hold on the object.
LEMMA ConditionsHold ==
  ASSUME NEW f, f # Nil, f.data # Nil, NEW mode, NEW c,
         check_conditions(f.data, mode, c) = "OK"
  PROVE  AtomicObjects!Holds(c, f)
<1>1. CASE c = NoCond
  BY <1>1 DEF NoCond, AtomicObjects!Holds
<1>2. CASE c # NoCond
  <2>1. ~ (c.some # Nil /\ c.some \notin {"*", f.data})
    BY <1>2 DEF check_conditions
  <2>2. ~ (c.none # Nil /\ c.none \in {"*", f.data})
    BY <1>2, <2>1 DEF check_conditions
  <2> QED BY <2>1, <2>2 DEF AtomicObjects!Holds
<1> QED BY <1>1, <1>2

\* The recheck in exclusion: the object is the one that was read, and its
\* ETag is the one that the conditions were checked on.
LEMMA RecheckHolds ==
  ASSUME NoCopy, StoreInv, NEW t \in Tasks, pc[t] = "guard",
         op(t) = "DeleteObject" \/ conditional_put(t),
         ~ (stat[t] = Nil /\ file[key(t)] = Nil), ~ changed(file[key(t)], stat[t]),
         NEW mode, check_conditions(etag[t], mode, req[t].cond) = "OK"
  PROVE  file[key(t)] # Nil /\ AtomicObjects!Holds(req[t].cond, file[key(t)])
<1>1. stat[t] # Nil /\ file[key(t)] # Nil /\ file[key(t)].ino = stat[t].ino
  BY DEF changed
<1>2. etag[t] # Nil
  BY <1>1 DEF StoreInv, UpdateInv, Judged
<1>3. etag[t] = file[key(t)].data
  BY <1>1, <1>2 DEF StoreInv, EntityInv, DataInv, Reads
<1> QED BY <1>1, <1>2, <1>3, ConditionsHold

\* The steps in exclusion.
LEMMA UpdateModify ==
  ASSUME NoCopy, StoreInv, NEW t \in Tasks, Modify(t) PROVE UpdateInv'
<1> USE DEF StoreInv
<1>0. /\ pc[t] # "idle" /\ InExclusion(t) /\ TypeOK /\ Ready(t) /\ Asked(t)
      /\ UNCHANGED <<holder, req, stat, etag, seen, prior>>
  BY DEF Modify, Store_metainfo_serialized, Recheck_target, Recheck_panic,
         Store_object_metainfo, Store_fault, Place_remove_same, Place_scratch_file,
         Place_fault, Place_undo, Delete_metainfo, Delete_object, Delete_fault,
         reading, InExclusion, TypeInv, UpdateInv
<1>1. op(t) # "CopyObject" /\ key(t) \in Keys /\ op(t) \in Ops
  BY <1>0, ReadsOwnKey
<1>2. holder[key(t)] = t /\ Granted(t) /\ Tagged(t) /\ Windowed(t)
  BY <1>0 DEF UpdateInv, Held
<1>3. op(t)' = op(t) /\ key(t)' = key(t) /\ (conditional_put(t)' <=> conditional_put(t))
  BY <1>0 DEF op, key, conditional_put
<1>4. Others(t)
  BY <1>0 DEF Modify, Store_metainfo_serialized, Recheck_target, Recheck_panic,
         Store_object_metainfo, Store_fault, Place_remove_same, Place_scratch_file,
         Place_fault, Place_undo, Delete_metainfo, Delete_object, Delete_fault,
         Others, Other, Same, finish, answer, go, TypeOK
<1>5. Outside(t)
  BY <1>0, <1>1, <1>2 DEF Modify, Store_metainfo_serialized, Recheck_target,
         Recheck_panic, Store_object_metainfo, Store_fault, Place_remove_same,
         Place_scratch_file, Place_fault, Place_undo, Delete_metainfo, Delete_object,
         Delete_fault, Outside, TypeOK
<1>6. \A k \in Keys : file'[k] \in {file[k], Nil, scratch[t]}
  BY <1>0 DEF Modify, Store_metainfo_serialized, Recheck_target,
         Recheck_panic, Store_object_metainfo, Store_fault, Place_remove_same,
         Place_scratch_file, Place_fault, Place_undo, Delete_metainfo, Delete_object,
         Delete_fault, TypeOK
<1>7. SUFFICES Asked(t)' /\ Judged(t)' /\ Held(t)' /\ \A u \in Tasks : Fresh(u)'
  BY <1>0, <1>4, <1>5, <1>6, UpdateRest
<1>8. ASSUME \A k \in Keys : meta'[k] \in {meta[k], Nil},
             \A u \in Tasks : scratch'[u] \in {scratch[u], Nil},
             NEW u \in Tasks
      PROVE  Fresh(u)'
  BY <1>0, <1>8, FreshLess
<1>9. ASSUME NEW c \in Codes, finish(t, c) PROVE Asked(t)' /\ Judged(t)' /\ Held(t)'
  BY <1>0, <1>9, UpdateFinish
<1>10. ASSUME pc'[t] = "unlock" PROVE Asked(t)' /\ Judged(t)' /\ Held(t)'
  BY <1>0, <1>2, <1>3, <1>10 DEF Asked, Judged, Held, Granted, Tagged, Windowed
<1>11. CASE Store_metainfo_serialized(t)
  <2>1. /\ op(t) \in Reading /\ pc[t] = "guard" /\ UNCHANGED <<file, meta, scratch>>
        /\ \/ \E c \in Codes : finish(t, c)
           \/ go(t, "store") /\ UNCHANGED resp
    BY <1>11 DEF Store_metainfo_serialized, Codes
  <2>2. CASE go(t, "store") /\ UNCHANGED resp
    <3>1. pc'[t] = "store" /\ resp'[t] = Nil
      BY <1>0, <2>1, <2>2 DEF go, Asked, TypeOK
    <3>2. Asked(t)' /\ Judged(t)'
      BY <1>0, <1>3, <2>1, <3>1 DEF Asked, Judged
    <3>3. Held(t)'
      BY <1>0, <1>2, <1>3, <2>1, <3>1 DEF Held, Granted, Tagged, Windowed, Reading, Tagging
    <3> QED BY <1>8, <2>1, <3>2, <3>3
  <2> QED BY <1>8, <1>9, <2>1, <2>2
<1>12. CASE Recheck_target(t)
  <2> DEFINE mode == IF op(t) = "DeleteObject" THEN "delete" ELSE "write"
             c == check_conditions(etag[t], mode, req[t].cond)
             p == IF op(t) = "DeleteObject" THEN "unmeta" ELSE to_place(t)
  <2>1. /\ pc[t] = "guard" /\ op(t) \in {"PutObject", "DeleteObject"}
        /\ ~ (stat[t] = Nil /\ file[key(t)] = Nil)
        /\ UNCHANGED <<file, meta, scratch>>
        /\ \/ finish(t, "InternalError") \/ finish(t, c)
           \/ /\ ~ changed(file[key(t)], stat[t]) /\ c = "OK"
              /\ go(t, p) /\ UNCHANGED resp
    BY <1>12 DEF Recheck_target
  <2>2. c \in Codes /\ "InternalError" \in Codes
    BY ConditionCodes DEF Codes
  <2>3. CASE /\ ~ changed(file[key(t)], stat[t]) /\ c = "OK"
             /\ go(t, p) /\ UNCHANGED resp
    <3>1. pc'[t] = p /\ resp'[t] = Nil
      BY <1>0, <2>1, <2>3 DEF go, Asked, TypeOK
    <3>2. /\ op(t) = "DeleteObject" => p = "unmeta" /\ file[key(t)] # Nil
          /\ op(t) = "PutObject" => p \in {"store", "place"}
          /\ p = "place" => new_metainfo(t) = Nil
          /\ AtomicObjects!Holds(req[t].cond, file[key(t)])
      <4>1. /\ op(t) = "DeleteObject" => p = "unmeta"
            /\ op(t) = "PutObject" => p \in {"store", "place"}
            /\ p = "place" => new_metainfo(t) = Nil
        BY DEF to_place
      <4>2. CASE op(t) = "DeleteObject" \/ conditional_put(t)
        BY <2>1, <2>3, <4>1, <4>2, RecheckHolds
      <4>3. CASE ~ (op(t) = "DeleteObject" \/ conditional_put(t))
        BY <2>1, <4>1, <4>3 DEF conditional_put, NoCond, AtomicObjects!Holds
      <4> QED BY <4>2, <4>3
    <3> HIDE DEF p, c
    <3>3. valid(key(t))' = valid(key(t)) /\ new_metainfo(t)' = new_metainfo(t)
      BY <1>0, <1>3, <2>1, NewMetainfoSame DEF valid, fetch_object_metainfo
    <3>4. AtomicObjects!Holds(req[t].cond, file[key(t)])'
      BY <1>0, <1>3, <2>1, <3>2 DEF AtomicObjects!Holds
    <3>5. Granted(t)'
      BY <1>3, <2>1, <3>1, <3>2, <3>4 DEF Granted
    <3>6. Windowed(t)' /\ Tagged(t)'
      BY <1>0, <1>2, <1>3, <2>1, <3>1, <3>2, <3>3 DEF Windowed, Tagged, Tagging
    <3>7. Asked(t)' /\ Judged(t)'
      BY <1>3, <2>1, <3>1, <3>2 DEF Asked, Judged, Reading
    <3>8. Held(t)'
      BY <1>0, <1>2, <1>3, <3>5, <3>6 DEF Held
    <3> QED BY <1>8, <2>1, <3>7, <3>8
  <2> HIDE DEF c
  <2> QED BY <1>8, <1>9, <2>1, <2>2, <2>3
<1>13. CASE Recheck_panic(t) \/ Store_fault(t) \/ Delete_fault(t)
  <2>1. UNCHANGED <<meta, scratch>> /\ \E c \in Codes : finish(t, c)
    BY <1>13 DEF Recheck_panic, Store_fault, Delete_fault, Codes
  <2> QED BY <1>8, <1>9, <2>1
<1>14. CASE Store_object_metainfo(t)
  <2>1. /\ pc[t] = "store" /\ UNCHANGED <<file, scratch>>
        /\ meta' = [meta EXCEPT ![key(t)] = metainfo_to_store(t)]
    BY <1>14 DEF Store_object_metainfo
  <2>2. \A u \in Tasks : Fresh(u)'
    BY <1>0, <2>1, FreshStore
  <2>3. CASE op(t) \in Writing
    <3>1. pc'[t] = "place" /\ resp'[t] = Nil /\ op(t) = "PutObject"
          /\ meta'[key(t)] = new_metainfo(t)
      BY <1>0, <1>1, <1>14, <2>1, <2>3
         DEF Store_object_metainfo, metainfo_to_store, go, Asked, Writing, Reading, TypeOK
    <3>2. new_metainfo(t)' = new_metainfo(t)
      BY <1>0, <2>1, NewMetainfoSame
    <3>3. AtomicObjects!Holds(req[t].cond, file[key(t)])'
      <4>1. AtomicObjects!Holds(req[t].cond, file[key(t)])
        BY <1>2, <2>1, <3>1 DEF Granted
      <4> QED BY <1>0, <1>3, <2>1, <4>1 DEF AtomicObjects!Holds
    <3>4. Granted(t)'
      BY <1>3, <3>1, <3>3 DEF Granted
    <3>5. Windowed(t)' /\ Tagged(t)'
      BY <1>3, <3>1, <3>2 DEF Windowed, Tagged, Tagging
    <3>6. Asked(t)' /\ Judged(t)'
      BY <3>1 DEF Asked, Judged
    <3>7. Held(t)'
      BY <1>0, <1>2, <1>3, <3>4, <3>5 DEF Held
    <3> QED BY <2>2, <3>6, <3>7
  <2>4. CASE op(t) \in Reading
    <3>1. pc'[t] = "unlock"
      BY <1>0, <1>14, <2>4 DEF Store_object_metainfo, go, Writing, Reading, TypeOK
    <3> QED BY <1>10, <2>2, <3>1
  <2>5. CASE op(t) \notin Writing \cup Reading
    <3>1. finish(t, "OK")
      BY <1>14, <2>5 DEF Store_object_metainfo
    <3> QED BY <1>9, <2>2, <3>1 DEF Codes
  <2> QED BY <2>3, <2>4, <2>5
<1>15. CASE Place_remove_same(t)
  BY <1>1, <1>15 DEF Place_remove_same, same_file
<1>16. CASE Place_scratch_file(t)
  <2>1. pc'[t] = "unlock" /\ UNCHANGED meta /\ \A u \in Tasks : scratch'[u] \in {scratch[u], Nil}
    BY <1>0, <1>16 DEF Place_scratch_file, go, TypeOK
  <2> QED BY <1>8, <1>10, <2>1
<1>17. CASE Place_fault(t)
  <2>1. /\ pc[t] = "place" /\ UNCHANGED <<file, meta, scratch>>
        /\ pc'[t] = IF new_metainfo(t) = Nil THEN "unlock" ELSE "undo"
    BY <1>0, <1>17 DEF Place_fault, go, Asked, TypeOK
  <2>2. \A u \in Tasks : Fresh(u)'
    BY <1>8, <2>1
  <2>3. CASE new_metainfo(t) # Nil
    <3>1. op(t) = "PutObject" /\ scratch[t] # Nil
      BY <1>0, <1>1, <2>1 DEF Ready, Writing
    <3>2. meta[key(t)].ent = scratch[t].ino
      BY <1>2, <2>1, <2>3, <3>1 DEF Windowed, new_metainfo, make_metainfo
    <3>3. valid(key(t)) = Nil
      BY <1>1, <3>1, <3>2 DEF valid, fetch_object_metainfo, EntityInv, DataInv, Private
    <3>4. valid(key(t))' = Nil
      BY <1>3, <2>1, <3>3 DEF valid, fetch_object_metainfo
    <3>5. Asked(t)' /\ Judged(t)'
      BY <2>1, <2>3 DEF Asked, Judged
    <3>6. Held(t)'
      BY <1>0, <1>2, <1>3, <2>1, <2>3, <3>4 DEF Held, Granted, Tagged, Windowed
    <3> QED BY <2>2, <3>5, <3>6
  <2> QED BY <1>10, <2>1, <2>2, <2>3
<1>18. CASE Place_undo(t)
  <2>1. pc'[t] = "unlock" /\ UNCHANGED scratch /\ \A k \in Keys : meta'[k] \in {meta[k], Nil}
    BY <1>0, <1>18 DEF Place_undo, go, TypeOK
  <2> QED BY <1>8, <1>10, <2>1
<1>19. CASE Delete_metainfo(t)
  <2>1. /\ pc[t] = "unmeta" /\ pc'[t] = "remove" /\ UNCHANGED <<file, scratch, resp>>
        /\ meta'[key(t)] = Nil /\ \A k \in Keys : meta'[k] \in {meta[k], Nil}
    BY <1>0, <1>1, <1>19 DEF Delete_metainfo, go, TypeOK
  <2>2. AtomicObjects!Holds(req[t].cond, file[key(t)])' /\ file'[key(t)] # Nil
    <3>1. AtomicObjects!Holds(req[t].cond, file[key(t)]) /\ file[key(t)] # Nil
      BY <1>2, <2>1 DEF Granted
    <3> QED BY <1>0, <1>3, <2>1, <3>1 DEF AtomicObjects!Holds
  <2>3. Granted(t)'
    BY <1>3, <2>1, <2>2 DEF Granted
  <2>4. Windowed(t)' /\ Tagged(t)'
    BY <1>3, <2>1 DEF Windowed, Tagged
  <2>5. Asked(t)' /\ Judged(t)'
    BY <1>0, <1>3, <2>1 DEF Asked, Judged
  <2>6. Held(t)'
    BY <1>0, <1>2, <1>3, <2>3, <2>4 DEF Held
  <2> QED BY <1>8, <2>1, <2>5, <2>6
<1>20. CASE Delete_object(t)
  <2>1. UNCHANGED <<meta, scratch>> /\ finish(t, "OK")
    BY <1>20 DEF Delete_object
  <2> QED BY <1>8, <1>9, <2>1 DEF Codes
<1> QED BY <1>11, <1>12, <1>13, <1>14, <1>15, <1>16, <1>17, <1>18, <1>19, <1>20
        DEF Modify

\* The steps after exclusion.
LEMMA UpdateEnd ==
  ASSUME NoCopy, StoreInv, NEW t \in Tasks, End(t) PROVE UpdateInv'
<1> USE DEF StoreInv
<1>0. /\ pc[t] \in {"unlock", "discard", "serve"} /\ TypeOK /\ Asked(t) /\ Held(t)
      /\ UNCHANGED <<file, meta, req, stat, etag, seen, prior>>
      /\ \A u \in Tasks : scratch'[u] \in {scratch[u], Nil}
  BY DEF End, Release_access, Discard_scratch_file, Serve, Get_object,
         Head_object, Get_object_tagging, Get_object_attributes, reading,
         TypeInv, TypeOK, UpdateInv
<1>1. \A u \in Tasks : Fresh(u)'
  BY <1>0, FreshLess
<1>2. key(t) \in Keys
  BY <1>0, KeyType
<1>3. CASE Release_access(t)
  <2>1. /\ holder' = [holder EXCEPT ![key(t)] = Nil] /\ UNCHANGED <<resp, scratch>>
        /\ pc[t] = "unlock" /\ holder[key(t)] = t
    BY <1>0, <1>3 DEF Release_access, Held, InExclusion
  <2>2. Others(t) /\ Outside(t)
    BY <1>0, <1>2, <1>3, <2>1 DEF Release_access, Others, Other, Same, Outside, go, TypeOK
  <2>3. \A k \in Keys : holder[k] \notin {t, Nil} => holder'[k] = holder[k]
    BY <1>0, <2>1 DEF TypeOK
  <2>4. pc'[t] \in {"serve", "discard", "done"} /\ (pc'[t] = "serve" => resp[t] = Nil)
    <3>1. CASE resp[t] = Nil
      BY <1>0, <1>3, <3>1 DEF Release_access, go, TypeOK
    <3>2. CASE resp[t] # Nil /\ scratch[t] # Nil
      BY <1>0, <1>3, <3>2 DEF Release_access, go, TypeOK
    <3>3. CASE resp[t] # Nil /\ scratch[t] = Nil
      BY <1>0, <1>3, <3>3 DEF Release_access, go, TypeOK
    <3> QED BY <3>1, <3>2, <3>3
  <2> QED BY <1>0, <1>1, <2>1, <2>2, <2>3, <2>4, UpdateCalm, UpdateRest
<1>4. CASE Discard_scratch_file(t)
  <2>1. pc'[t] = "done" /\ UNCHANGED <<holder, resp>>
    BY <1>0, <1>4 DEF Discard_scratch_file, go, TypeOK
  <2>2. Others(t) /\ Outside(t)
    BY <1>0, <1>4 DEF Discard_scratch_file, Others, Other, Same, Outside, go, TypeOK
  <2> QED BY <1>0, <1>1, <2>1, <2>2, UpdateCalm, UpdateRest
<1>5. CASE Serve(t)
  <2>1. UNCHANGED <<holder, scratch>> /\ pc[t] = "serve"
    BY <1>5 DEF Serve, Get_object, Head_object, Get_object_tagging,
                Get_object_attributes
  <2>2. \E r \in Response : answer(t, r)
    <3>1. \A b \in Opt(Data) : served(t, b) \in Response
      BY <1>0 DEF served, Response, Codes, TypeOK
    <3>2. Nil \in Opt(Data) /\ (file[key(t)] # Nil => file[key(t)].data \in Opt(Data))
      BY <1>0, <1>2 DEF TypeOK, Opt, File
    <3>3. \A c \in Codes : finish(t, c) => \E r \in Response : answer(t, r)
      BY ReplyType DEF finish
    <3>4. check_conditions(etag[t], "read", req[t].cond) \in Codes
      BY ConditionCodes DEF Codes
    <3>5. CASE Get_object(t)
      BY <3>1, <3>2, <3>3, <3>4, <3>5 DEF Get_object, Codes
    <3>6. CASE Head_object(t)
      BY <3>1, <3>2, <3>3, <3>4, <3>6 DEF Head_object
    <3>7. CASE Get_object_tagging(t) \/ Get_object_attributes(t)
      BY <3>1, <3>2, <3>7 DEF Get_object_tagging, Get_object_attributes
    <3> QED BY <1>5, <3>5, <3>6, <3>7 DEF Serve
  <2>3. Others(t) /\ Outside(t)
    BY <1>0, <2>1, <2>2 DEF Others, Other, Same, Outside, answer, go, TypeOK
  <2>4. Asked(t)' /\ Judged(t)' /\ Held(t)'
    BY <1>0, <2>1, <2>2, UpdateAnswer
  <2> QED BY <1>0, <1>1, <2>1, <2>3, <2>4, UpdateRest
<1> QED BY <1>3, <1>4, <1>5 DEF End

LEMMA UpdateStep ==
  ASSUME NoCopy, StoreInv, [Next]_vars PROVE UpdateInv'
<1>1. CASE Crash
  <2>1. /\ UNCHANGED <<req, meta, scratch, resp>>
        /\ \A t \in Tasks : pc'[t] = "dead" \/ (pc'[t] = pc[t] /\ pc[t] \in {"idle", "done", "dead"})
    BY <1>1 DEF Crash, Running
  <2>2. ASSUME NEW t \in Tasks PROVE Asked(t)' /\ Judged(t)' /\ Held(t)'
    BY <2>1 DEF Asked, Judged, Held, InExclusion, StoreInv, UpdateInv
  <2> QED BY <2>1, <2>2, FreshLess DEF UpdateInv, StoreInv
<1>2. CASE UNCHANGED vars
  <2>1. UNCHANGED <<file, meta, holder, pc, req, stat, etag, seen, scratch, resp, prior>>
    BY <1>2 DEF vars
  <2>2. ASSUME NEW t \in Tasks PROVE new_metainfo(t)' = new_metainfo(t)
    BY <2>1, NewMetainfoSame
  <2>3. ASSUME NEW t \in Tasks PROVE Asked(t)' /\ Fresh(t)' /\ Judged(t)'
    BY <2>1, <2>2 DEF StoreInv, UpdateInv, Asked, Fresh, Judged, op, key, conditional_put
  <2>4. ASSUME NEW t \in Tasks PROVE Held(t)'
    <3>1. Held(t) /\ op(t)' = op(t) /\ key(t)' = key(t)
      BY <2>1 DEF StoreInv, UpdateInv, op, key
    <3>2. valid(key(t))' = valid(key(t))
      BY <2>1, <3>1 DEF valid, fetch_object_metainfo
    <3> QED BY <2>1, <2>2, <3>1, <3>2
            DEF Held, InExclusion, Granted, Tagged, Windowed, AtomicObjects!Holds
  <2> QED BY <2>3, <2>4 DEF UpdateInv
<1> QED BY <1>1, <1>2, UpdateStart, UpdateLock, UpdatePrepare, UpdateModify, UpdateEnd
        DEF Next, Ended, Step

LEMMA StoreAlways == NoCopy => (Spec => []StoreInv)
<1> SUFFICES ASSUME NoCopy PROVE Spec => []StoreInv
  OBVIOUS
<1>1. LinksClean
  BY DEF LinksClean
<1>2. Init => StoreInv
  BY TypeInit, EntityInit, UpdateInit, StoreAssumption
     DEF StoreInv, NeatInv, Neat, Init
<1>3. StoreInv /\ [Next]_vars => StoreInv'
  BY <1>1, TypeStep, NeatStep, EntityStep, UpdateStep DEF StoreInv
<1> QED BY <1>2, <1>3, PTL DEF Spec
-----------------------------------------------------------------------------
(***************************************************************************)
(* The refinement of Objects.                                              *)
(***************************************************************************)

\* An update of the object is half-way: its metainfo is replaced or removed.
opened(k) == holder[k] # Nil /\ in_window(holder[k])

\* The metainfo that the object is seen with.
shown(k) == IF opened(k) THEN prior[holder[k]] ELSE valid(k)

acknowledged == {t \in Tasks : resp[t] # Nil /\ resp[t].code = "OK"}

LEMMA ViewShown ==
  ASSUME NEW k
  PROVE  view(k) = IF file[k] = Nil THEN Nil
                   ELSE [data |-> file[k].data,
                         tags |-> IF shown(k) = Nil THEN Nil ELSE shown(k).tags,
                         hdrs |-> IF shown(k) = Nil THEN Nil ELSE shown(k).hdrs]
BY DEF view, shown, opened

\* An object is seen as before when its file and its metainfo are.
LEMMA ViewSame ==
  ASSUME NEW k, file'[k] = file[k], shown(k)' = shown(k)
  PROVE  view(k)' = view(k)
BY DEF view, shown, opened

\* Nothing happens to an object that another request is in exclusion on.
LEMMA ViewOthers ==
  ASSUME TypeInv, NEW t \in Tasks, Others(t), NEW k \in Keys, holder[k] # t,
         file'[k] = file[k], meta'[k] = meta[k], holder'[k] = holder[k]
  PROVE  view(k)' = view(k)
<1>1. valid(k)' = valid(k)
  BY ValidSame
<1>2. CASE holder[k] = Nil
  BY <1>1, <1>2, ViewSame DEF shown, opened
<1>3. CASE holder[k] # Nil
  <2>1. PICK u \in Tasks \ {t} : holder[k] = u
    BY <1>3 DEF TypeInv, TypeOK, Opt
  <2>2. Same(u) /\ prior'[u] = prior[u]
    BY DEF Others, Other
  <2>3. in_window(u)' <=> in_window(u)
    BY <2>2, NewMetainfoSame DEF in_window, Same
  <2>4. in_window(holder[k])' <=> in_window(u)'
    BY <2>1 DEF in_window, new_metainfo, make_metainfo, by_directive, op
  <2>5. shown(k)' = IF in_window(u) THEN prior[u] ELSE valid(k)
    BY <1>1, <1>3, <2>1, <2>2, <2>3, <2>4 DEF shown, opened
  <2>6. shown(k) = IF in_window(u) THEN prior[u] ELSE valid(k)
    BY <1>3, <2>1 DEF shown, opened
  <2> QED BY <2>5, <2>6, ViewSame
<1> QED BY <1>2, <1>3

\* The object of the request in exclusion.
LEMMA ShownOwn ==
  ASSUME NEW t \in Tasks, NEW k, holder[k] = t
  PROVE  shown(k) = IF in_window(t) THEN prior[t] ELSE valid(k)
BY StoreAssumption DEF shown, opened

LEMMA ShownFree ==
  ASSUME NEW k, holder[k] = Nil PROVE shown(k) = valid(k)
BY DEF shown, opened

\* A request does nothing to the objects, and is not half-way in an update.
LEMMA ViewQuiet ==
  ASSUME TypeInv, NEW t \in Tasks, Others(t), UNCHANGED <<file, meta>>,
         ~ in_window(t), ~ in_window(t)',
         \A k \in Keys : \/ holder'[k] = holder[k]
                         \/ holder[k] \in {Nil, t} /\ holder'[k] \in {Nil, t},
         NEW k \in Keys
  PROVE  view(k)' = view(k)
<1>1. CASE holder[k] \notin {Nil, t}
  BY <1>1, ViewOthers
<1>2. CASE holder[k] \in {Nil, t}
  <2>1. shown(k) = valid(k)
    BY <1>2, ShownOwn, ShownFree
  <2>2. holder'[k] \in {Nil, t}
    BY <1>2
  <2>3. shown(k)' = valid(k)'
    BY <2>2, StoreAssumption DEF shown, opened, in_window, new_metainfo,
       make_metainfo, by_directive, op
  <2> QED BY <2>1, <2>3, ValidSame, ViewSame
<1> QED BY <1>1, <1>2

\* A step that no client sees.
LEMMA Stutters ==
  ASSUME UNCHANGED req, acknowledged' = acknowledged,
         \A k \in Keys : view(k)' = view(k)
  PROVE  UNCHANGED AtomicObjects!vars
BY DEF AtomicObjects!vars, acknowledged

\* Answers other than success are not seen.
LEMMA NotAcknowledged ==
  ASSUME TypeInv, NEW t \in Tasks, resp[t] = Nil, NEW r, r.code # "OK",
         resp' = [resp EXCEPT ![t] = r]
  PROVE  acknowledged' = acknowledged
BY DEF acknowledged, TypeInv, TypeOK

LEMMA Failed ==
  ASSUME TypeInv, NEW t \in Tasks, resp[t] = Nil, NEW c, c # "OK", finish(t, c)
  PROVE  acknowledged' = acknowledged
<1>1. reply(c).code # "OK" /\ resp' = [resp EXCEPT ![t] = reply(c)]
  BY DEF reply, finish, answer
<1> QED BY <1>1, NotAcknowledged

\* Success is acknowledged once.
LEMMA Acknowledged ==
  ASSUME TypeInv, NEW t \in Tasks, pc[t] # "idle", resp[t] = Nil,
         NEW r \in Response, r.code = "OK", resp' = [resp EXCEPT ![t] = r],
         UNCHANGED req,
         \/ AtomicObjects!PutObject(req[t])
         \/ AtomicObjects!DeleteObject(req[t])
         \/ AtomicObjects!PutObjectTagging(req[t])
         \/ AtomicObjects!DeleteObjectTagging(req[t])
         \/ AtomicObjects!Read(req[t])
  PROVE  AtomicObjects!Next
<1>1. req[t] # Nil
  <2>1. req[t] \in Request
    BY KeyType
  <2> QED BY <2>1, StoreAssumption
<1>2. t \notin acknowledged /\ acknowledged' = acknowledged \cup {t}
  BY StoreAssumption DEF acknowledged, TypeInv, TypeOK
<1>3. AtomicObjects!Acknowledge(t)
  BY <1>1, <1>2 DEF AtomicObjects!Acknowledge, acknowledged
<1> QED BY <1>3 DEF AtomicObjects!Next

\* One object changes.
LEMMA ObjectChanges ==
  ASSUME NEW k \in Keys, NEW v, view(k)' = v,
         \A j \in Keys \ {k} : view(j)' = view(j)
  PROVE  [j \in Keys |-> view(j)]' = [[j \in Keys |-> view(j)] EXCEPT ![k] = v]
OBVIOUS

\* An object exists for the clients when its file does.
LEMMA ViewType ==
  ASSUME TypeInv, NEW k \in Keys
  PROVE  IF file[k] = Nil THEN view(k) = Nil ELSE view(k) \in Object /\ view(k) # Nil
<1>1. shown(k) \in Opt(Meta_info)
  <2>1. valid(k) \in Opt(Meta_info)
    BY FetchType DEF valid, TypeInv
  <2>2. holder[k] # Nil => prior[holder[k]] \in Opt(Meta_info)
    BY DEF TypeInv, TypeOK, Opt
  <2> QED BY <2>1, <2>2 DEF shown, opened
<1>2. shown(k) # Nil => shown(k).tags \in Opt(Labels) /\ shown(k).hdrs \in Opt(Labels)
  BY <1>1 DEF Opt, Meta_info
<1>3. file[k] # Nil => file[k].data \in Data
  BY DEF TypeInv, TypeOK, Opt, File
<1>4. Nil \in Opt(Labels)
  BY DEF Opt
<1>5. file[k] # Nil => view(k) \in Object
  BY <1>2, <1>3, <1>4, ViewShown DEF Object
<1> QED BY <1>5, StoreAssumption DEF view

\* The metainfo has neither tags nor headers.
Bare(m) == m = Nil \/ (m.tags = Nil /\ m.hdrs = Nil)

\* Some objects lose their tags and headers.
LEMMA Loses ==
  ASSUME TypeInv, UNCHANGED <<req, file>>, acknowledged' = acknowledged,
         NEW S \in SUBSET {k \in Keys : file[k] # Nil},
         \A k \in Keys \ S : view(k)' = view(k),
         \A k \in S : Bare(shown(k))'
  PROVE  AtomicObjects!Lose
<1> DEFINE obj == [k \in Keys |-> view(k)]
<1>1. S \in SUBSET {k \in Keys : obj[k] # Nil}
  BY ViewType
<1>2. ASSUME NEW k \in S PROVE view(k)' = [data |-> view(k).data, tags |-> Nil, hdrs |-> Nil]
  <2>1. view(k) = [data |-> file[k].data,
                   tags |-> IF shown(k) = Nil THEN Nil ELSE shown(k).tags,
                   hdrs |-> IF shown(k) = Nil THEN Nil ELSE shown(k).hdrs]
    BY ViewShown
  <2>2. view(k)' = [data |-> file[k].data, tags |-> Nil, hdrs |-> Nil]
    BY DEF view, shown, opened, Bare
  <2> QED BY <2>1, <2>2
<1>3. [k \in Keys |-> view(k)'] =
        [k \in Keys |-> IF k \in S THEN [data |-> obj[k].data, tags |-> Nil, hdrs |-> Nil]
                        ELSE obj[k]]
  BY <1>2
<1>4. \E R \in SUBSET {k \in Keys : obj[k] # Nil} :
        obj' = [k \in Keys |-> IF k \in R THEN [data |-> obj[k].data, tags |-> Nil, hdrs |-> Nil]
                               ELSE obj[k]]
  BY <1>1, <1>3
<1> QED BY <1>4 DEF AtomicObjects!Lose, acknowledged

\* A request arrives.
LEMMA RefineStart ==
  ASSUME StoreInv, NEW t \in Tasks, Start(t) PROVE AtomicObjects!Next
<1> USE DEF StoreInv
<1>1. PICK r \in Reqs : req' = [req EXCEPT ![t] = r]
  BY DEF Start
<1>2. /\ UNCHANGED <<file, meta, holder, stat, etag, seen, scratch, resp, prior>>
      /\ pc[t] = "idle" /\ req[t] = Nil
      /\ pc'[t] \in {"upload", "lock", "stat"} /\ \A u \in Tasks \ {t} : pc'[u] = pc[u]
  <2>1. PICK q \in Reqs : go(t, CASE q.op = "PutObject" -> "upload"
                                  [] q.op \in Tagging -> "lock"
                                  [] OTHER -> "stat")
    BY DEF Start
  <2>2. (CASE q.op = "PutObject" -> "upload"
           [] q.op \in Tagging -> "lock"
           [] OTHER -> "stat") \in {"upload", "lock", "stat"}
    BY DEF Tagging
  <2>3. /\ UNCHANGED <<file, meta, holder, stat, etag, seen, scratch, resp, prior>>
        /\ pc[t] = "idle" /\ req[t] = Nil
    BY DEF Start, reading, UpdateInv, Asked
  <2> QED BY <2>1, <2>2, <2>3 DEF go, TypeInv, TypeOK
<1>3. Others(t)
  BY <1>1, <1>2 DEF Others, Other, Same, TypeInv, TypeOK
<1>4. ~ in_window(t) /\ ~ in_window(t)'
  BY <1>2 DEF in_window
<1>5. \A k \in Keys : view(k)' = view(k)
  BY <1>2, <1>3, <1>4, ViewQuiet
<1>6. AtomicObjects!Ask(t, r)
  BY <1>1, <1>2, <1>5 DEF AtomicObjects!Ask
<1> QED BY <1>6 DEF AtomicObjects!Next

\* A request that goes on without touching the objects.
LEMMA RefineQuiet ==
  ASSUME TypeInv, NEW t \in Tasks, Others(t), UNCHANGED <<file, meta, holder, req, resp>>,
         pc[t] \notin {"place", "remove"}, pc'[t] \notin {"place", "remove"}
  PROVE  UNCHANGED AtomicObjects!vars
<1>1. ~ in_window(t) /\ ~ in_window(t)'
  BY DEF in_window
<1>2. \A k \in Keys : view(k)' = view(k)
  BY <1>1, ViewQuiet
<1> QED BY <1>2, Stutters DEF acknowledged

\* A request that fails without having touched its object.
LEMMA RefineFail ==
  ASSUME TypeInv, NEW t \in Tasks, Others(t), UNCHANGED <<file, meta, holder, req>>,
         pc[t] \notin {"idle", "remove"}, ~ in_window(t), resp[t] = Nil,
         NEW c \in Codes \ {"OK"}, finish(t, c)
  PROVE  UNCHANGED AtomicObjects!vars
<1>1. ~ in_window(t)'
  BY FinishType DEF in_window
<1>2. \A k \in Keys : view(k)' = view(k)
  BY <1>1, ViewQuiet
<1>3. acknowledged' = acknowledged
  BY Failed
<1> QED BY <1>2, <1>3, Stutters

\* The tags that DeleteObjectTagging finds missing are missing.
LEMMA RefineUntagged ==
  ASSUME StoreInv, NEW t \in Tasks, Others(t), UNCHANGED <<file, meta, holder, req>>,
         pc[t] = "meta", op(t) = "DeleteObjectTagging", finish(t, "OK"),
         NEW m, m = fetch_object_metainfo(key(t), stat[t]), m = Nil \/ m.tags = Nil
  PROVE  AtomicObjects!Next
<1> USE DEF StoreInv
<1>1. key(t) \in Keys /\ resp[t] = Nil /\ reply("OK") \in Response
      /\ reply("OK").code = "OK" /\ resp' = [resp EXCEPT ![t] = reply("OK")]
  BY KeyType, ReplyType DEF UpdateInv, Asked, Codes, reply, finish, answer
<1>2. holder[key(t)] = t /\ stat[t] # Nil /\ stat[t] = file[key(t)]
  BY DEF UpdateInv, Held, InExclusion, Tagged, Tagging
<1>3. ~ in_window(t) /\ ~ in_window(t)'
  BY FinishType DEF in_window, Codes
<1>4. \A k \in Keys : view(k)' = view(k)
  BY <1>3, ViewQuiet
<1>5. shown(key(t)) = m
  BY <1>1, <1>2, <1>3, ShownOwn DEF valid
<1>6. view(key(t)) # Nil /\ view(key(t)) \in Object /\ view(key(t)).tags = Nil
  BY <1>1, <1>2, <1>5, ViewShown, ViewType
<1>7. view(key(t)) = [view(key(t)) EXCEPT !.tags = Nil]
  BY <1>6 DEF Object
<1> DEFINE obj == [k \in Keys |-> view(k)]
<1>8. obj[key(t)] = view(key(t))
  BY <1>1
<1>9. obj' = [obj EXCEPT ![key(t)].tags = Nil]
  <2>1. obj' = [obj EXCEPT ![key(t)] = [view(key(t)) EXCEPT !.tags = Nil]]
    BY <1>1, <1>4, <1>7, ObjectChanges
  <2> HIDE DEF obj
  <2> QED BY <1>8, <2>1
<1>10. AtomicObjects!DeleteObjectTagging(req[t])
  BY <1>6, <1>8, <1>9 DEF AtomicObjects!DeleteObjectTagging, op, key
<1> QED BY <1>1, <1>10, Acknowledged

\* The steps that read the object and prepare a scratch file.
LEMMA RefinePrepare ==
  ASSUME NoCopy, StoreInv, NEW t \in Tasks, Prepare(t)
  PROVE  UNCHANGED AtomicObjects!vars \/ AtomicObjects!Next
<1> USE DEF StoreInv
<1>0. /\ pc[t] \in {"upload", "stat", "meta", "md5", "link"}
      /\ TypeOK /\ Ready(t) /\ resp[t] = Nil
      /\ UNCHANGED <<file, meta, holder, req, prior>>
  BY DEF Prepare, Upload_scratch, Upload_fault, Fetch_object_status,
         Fetch_object_metainfo, Calculate_csum2, Copy_scratch, Copy_scratch_fault,
         reading, TypeInv, UpdateInv, Asked
<1>1. op(t) # "CopyObject" /\ read_key(t) = key(t) /\ op(t) \in Ops
  BY <1>0, ReadsOwnKey
<1>2. Others(t)
  BY <1>0 DEF Prepare, Upload_scratch, Upload_fault, Fetch_object_status,
         Fetch_object_metainfo, Calculate_csum2, Copy_scratch, Copy_scratch_fault,
         Others, Other, Same, reading, finish, answer, go, TypeOK
<1>3. ~ in_window(t)
  BY <1>0 DEF in_window
<1>4. ASSUME \E c \in Codes \ {"OK"} : finish(t, c) PROVE UNCHANGED AtomicObjects!vars
  BY <1>0, <1>2, <1>3, <1>4, RefineFail
<1>5. ASSUME \E p \in {"stat", "lock", "meta", "md5", "store", "serve"} : go(t, p),
             UNCHANGED resp
      PROVE  UNCHANGED AtomicObjects!vars
  <2>1. pc'[t] \notin {"place", "remove"}
    BY <1>0, <1>5 DEF go, TypeOK
  <2> QED BY <1>0, <1>2, <1>5, <2>1, RefineQuiet
<1>6. CASE Upload_scratch(t) \/ Fetch_object_status(t)
  BY <1>4, <1>5, <1>6 DEF Upload_scratch, Fetch_object_status, Codes
<1>7. CASE Upload_fault(t)
  <2>1. resp' = [resp EXCEPT ![t] = reply("BadDigest")] /\ reply("BadDigest").code # "OK"
    BY <1>7 DEF Upload_fault, reply
  <2>2. pc'[t] = "discard"
    BY <1>0, <1>7 DEF Upload_fault, go, TypeOK
  <2>3. ~ in_window(t)'
    BY <2>2 DEF in_window
  <2>4. \A k \in Keys : view(k)' = view(k)
    BY <1>0, <1>2, <1>3, <2>3, ViewQuiet
  <2>5. acknowledged' = acknowledged
    BY <1>0, <2>1, NotAcknowledged
  <2> QED BY <1>0, <2>4, <2>5, Stutters
<1>8. CASE Fetch_object_metainfo(t)
  <2> DEFINE m == fetch_object_metainfo(key(t), stat[t])
  <2>1. CASE op(t) = "GetObjectTagging"
    BY <1>5, <1>8, <2>1 DEF Fetch_object_metainfo
  <2>2. CASE op(t) = "DeleteObjectTagging"
    <3>1. \/ go(t, "store") /\ UNCHANGED resp
          \/ finish(t, "OK") /\ (m = Nil \/ m.tags = Nil)
      BY <1>1, <1>8, <2>2 DEF Fetch_object_metainfo
    <3>2. pc[t] = "meta"
      BY <1>8 DEF Fetch_object_metainfo
    <3> QED BY <1>0, <1>2, <1>5, <2>2, <3>1, <3>2, RefineUntagged
  <2>3. CASE op(t) \notin {"GetObjectTagging", "DeleteObjectTagging"}
    <3>1. go(t, IF m = Nil THEN "md5" ELSE after_etag(t, m)) /\ UNCHANGED resp
      BY <1>1, <1>8, <2>3 DEF Fetch_object_metainfo
    <3>2. after_etag(t, m) \in {"lock", "store", "serve"}
      BY <1>1 DEF after_etag
    <3> HIDE DEF m
    <3> QED BY <1>5, <3>1, <3>2
  <2> QED BY <2>1, <2>2, <2>3
<1>9. CASE Calculate_csum2(t)
  <2>1. \/ finish(t, "InternalError")
        \/ go(t, after_etag(t, Nil)) /\ UNCHANGED resp
    BY <1>9 DEF Calculate_csum2
  <2>2. after_etag(t, Nil) \in {"lock", "store", "serve"}
    BY <1>1 DEF after_etag
  <2> QED BY <1>4, <1>5, <2>1, <2>2 DEF Codes
<1>10. CASE Copy_scratch(t) \/ Copy_scratch_fault(t)
  BY <1>0, <1>1, <1>10 DEF Copy_scratch, Copy_scratch_fault, Ready
<1> QED BY <1>6, <1>7, <1>8, <1>9, <1>10 DEF Prepare

\* Entering exclusion, or not.
LEMMA RefineLock ==
  ASSUME NoCopy, StoreInv, NEW t \in Tasks, Serialize_access(t) \/ Access_timeout(t)
  PROVE  UNCHANGED AtomicObjects!vars
<1> USE DEF StoreInv
<1>0. /\ pc[t] = "lock" /\ TypeOK /\ resp[t] = Nil
      /\ UNCHANGED <<file, meta, req, stat, etag, seen, scratch>>
  BY DEF Serialize_access, Access_timeout, reading, TypeInv, UpdateInv, Asked
<1>1. op(t) # "CopyObject" /\ key(t) \in Keys /\ ~ in_window(t)
  BY <1>0, ReadsOwnKey DEF in_window
<1>2. CASE Serialize_access(t)
  <2> DEFINE p == CASE op(t) \in Tagging -> "stat"
                    [] op(t) = "CopyObject" -> to_place(t)
                    [] op(t) = "PutObject" /\ ~ conditional_put(t) -> to_place(t)
                    [] OTHER -> "guard"
  <2>1. p \in {"stat", "guard", "store"} \/ (p = "place" /\ new_metainfo(t) = Nil)
    BY DEF to_place
  <2>2. /\ holder[key(t)] = Nil /\ holder' = [holder EXCEPT ![key(t)] = t]
        /\ go(t, p) /\ UNCHANGED resp
        /\ \A u \in Tasks \ {t} : prior'[u] = prior[u]
    BY <1>0, <1>2 DEF Serialize_access, TypeOK
  <2> HIDE DEF p
  <2>3. pc'[t] = p /\ Others(t)
    BY <1>0, <2>2 DEF Others, Other, Same, go, TypeOK
  <2>4. new_metainfo(t)' = new_metainfo(t)
    BY <1>0, NewMetainfoSame
  <2>5. ~ in_window(t)'
    BY <2>1, <2>3, <2>4 DEF in_window
  <2>6. \A k \in Keys : \/ holder'[k] = holder[k]
                        \/ holder[k] \in {Nil, t} /\ holder'[k] \in {Nil, t}
    BY <1>0, <1>1, <2>2 DEF TypeOK
  <2>7. \A k \in Keys : view(k)' = view(k)
    BY <1>0, <1>1, <2>3, <2>5, <2>6, ViewQuiet
  <2> QED BY <1>0, <2>2, <2>7, Stutters DEF acknowledged
<1>3. CASE Access_timeout(t)
  <2>1. finish(t, "RequestTimeout") /\ UNCHANGED <<holder, prior>>
    BY <1>3 DEF Access_timeout
  <2>2. Others(t)
    BY <1>0, <2>1 DEF Others, Other, Same, finish, answer, go, TypeOK
  <2> QED BY <1>0, <1>1, <2>1, <2>2, RefineFail DEF Codes
<1> QED BY <1>2, <1>3

\* The answers of readers, and the steps that clean up.
LEMMA RefineEnd ==
  ASSUME NoCopy, StoreInv, NEW t \in Tasks, End(t)
  PROVE  UNCHANGED AtomicObjects!vars \/ AtomicObjects!Next
<1> USE DEF StoreInv
<1>0. /\ pc[t] \in {"unlock", "discard", "serve"} /\ TypeOK
      /\ UNCHANGED <<file, meta, req, stat, etag, seen, prior>>
      /\ key(t) \in Keys /\ ~ in_window(t)
  <2>1. pc[t] \in {"unlock", "discard", "serve"} /\ TypeOK
        /\ UNCHANGED <<file, meta, req, stat, etag, seen, prior>>
    BY DEF End, Release_access, Discard_scratch_file, Serve, Get_object,
           Head_object, Get_object_tagging, Get_object_attributes, reading, TypeInv
  <2> QED BY <2>1, KeyType DEF in_window
<1>1. CASE Release_access(t)
  <2>1. /\ holder' = [holder EXCEPT ![key(t)] = Nil] /\ UNCHANGED <<resp, scratch>>
        /\ pc[t] = "unlock" /\ holder[key(t)] = t
    BY <1>0, <1>1 DEF Release_access, UpdateInv, Held, InExclusion
  <2>2. Others(t) /\ pc'[t] \in {"serve", "discard", "done"}
    <3>1. CASE resp[t] = Nil
      BY <1>0, <1>1, <2>1, <3>1 DEF Release_access, Others, Other, Same, go, TypeOK
    <3>2. CASE resp[t] # Nil /\ scratch[t] # Nil
      BY <1>0, <1>1, <2>1, <3>2 DEF Release_access, Others, Other, Same, go, TypeOK
    <3>3. CASE resp[t] # Nil /\ scratch[t] = Nil
      BY <1>0, <1>1, <2>1, <3>3 DEF Release_access, Others, Other, Same, go, TypeOK
    <3> QED BY <3>1, <3>2, <3>3
  <2>3. ~ in_window(t)'
    BY <2>2 DEF in_window
  <2>4. \A k \in Keys : \/ holder'[k] = holder[k]
                        \/ holder[k] \in {Nil, t} /\ holder'[k] \in {Nil, t}
    BY <1>0, <2>1 DEF TypeOK
  <2>5. \A k \in Keys : view(k)' = view(k)
    BY <1>0, <2>2, <2>3, <2>4, ViewQuiet
  <2> QED BY <1>0, <2>1, <2>5, Stutters DEF acknowledged
<1>2. CASE Discard_scratch_file(t)
  <2>1. pc'[t] = "done" /\ UNCHANGED <<holder, resp>> /\ pc[t] = "discard"
    BY <1>0, <1>2 DEF Discard_scratch_file, go, TypeOK
  <2>2. Others(t)
    BY <1>0, <1>2 DEF Discard_scratch_file, Others, Other, Same, go, TypeOK
  <2> QED BY <1>0, <2>1, <2>2, RefineQuiet
<1>3. CASE Serve(t)
  <2>1. /\ UNCHANGED <<holder, scratch>> /\ pc[t] = "serve" /\ resp[t] = Nil
        /\ op(t) \in {"GetObject", "HeadObject", "GetObjectTagging", "GetObjectAttributes"}
    BY <1>3 DEF Serve, Get_object, Head_object, Get_object_tagging,
                Get_object_attributes, UpdateInv, Asked
  <2>2. \/ \E c \in Codes \ {"OK"} : finish(t, c)
        \/ \E b \in Opt(Data) : answer(t, served(t, b))
    <3>1. Nil \in Opt(Data) /\ (file[key(t)] # Nil => file[key(t)].data \in Opt(Data))
      BY <1>0 DEF TypeOK, Opt, File
    <3>2. check_conditions(etag[t], "read", req[t].cond) \in Codes
      BY ConditionCodes DEF Codes
    <3>3. CASE Get_object(t)
      BY <3>1, <3>2, <3>3 DEF Get_object, Codes
    <3>4. CASE Head_object(t)
      BY <3>1, <3>2, <3>4 DEF Head_object
    <3>5. CASE Get_object_tagging(t) \/ Get_object_attributes(t)
      BY <3>1, <3>5 DEF Get_object_tagging, Get_object_attributes
    <3> QED BY <1>3, <3>3, <3>4, <3>5 DEF Serve
  <2>3. Others(t)
    BY <1>0, <2>1, <2>2 DEF Others, Other, Same, finish, answer, go, TypeOK
  <2>4. CASE \E c \in Codes \ {"OK"} : finish(t, c)
    BY <1>0, <2>1, <2>3, <2>4, RefineFail
  <2>5. CASE \E b \in Opt(Data) : answer(t, served(t, b))
    <3>1. PICK b \in Opt(Data) : answer(t, served(t, b))
      BY <2>5
    <3>2. served(t, b) \in Response /\ served(t, b).code = "OK"
      BY <1>0 DEF served, Response, Codes, TypeOK
    <3>3. ~ in_window(t)' /\ resp' = [resp EXCEPT ![t] = served(t, b)]
      BY <1>0, <3>1, <3>2, AnswerType DEF in_window, answer
    <3>4. \A k \in Keys : view(k)' = view(k)
      BY <1>0, <2>1, <2>3, <3>3, ViewQuiet
    <3>5. AtomicObjects!Read(req[t])
      BY <2>1, <3>4 DEF AtomicObjects!Read, op
    <3> QED BY <1>0, <2>1, <3>2, <3>3, <3>5, Acknowledged
  <2> QED BY <2>2, <2>4, <2>5
<1> QED BY <1>1, <1>2, <1>3 DEF End

\* The object of the request in exclusion, after a step.
LEMMA ShownNext ==
  ASSUME NEW t \in Tasks, NEW k, holder'[k] = t
  PROVE  shown(k)' = IF in_window(t)' THEN prior'[t] ELSE valid(k)'
BY StoreAssumption DEF shown, opened, in_window, new_metainfo, make_metainfo,
   by_directive, op

\* A request in exclusion on its object leaves the others alone.
LEMMA ViewElse ==
  ASSUME StoreInv, NEW t \in Tasks, Others(t), Outside(t), UNCHANGED holder,
         NEW k \in Keys, k # key(t)
  PROVE  view(k)' = view(k)
<1>1. holder[k] # t
  BY DEF StoreInv, NeatInv, Neat
<1> QED BY <1>1, ViewOthers DEF Outside, StoreInv

\* An update enters the window between its two files: nobody sees it.
LEMMA RefineOpen ==
  ASSUME StoreInv, NEW t \in Tasks, Others(t), Outside(t), key(t) \in Keys,
         holder[key(t)] = t, UNCHANGED <<holder, file, req, resp, prior>>,
         ~ in_window(t), in_window(t)', prior[t] = valid(key(t))
  PROVE  UNCHANGED AtomicObjects!vars
<1>1. shown(key(t)) = valid(key(t))
  BY ShownOwn
<1>2. PICK k \in Keys : k = key(t)
  OBVIOUS
<1>3. view(k)' = view(k)
  <2>1. shown(k)' = prior'[t]
    BY <1>2, ShownNext
  <2> QED BY <1>1, <1>2, <2>1, ViewSame
<1>4. \A j \in Keys : view(j)' = view(j)
  BY <1>2, <1>3, ViewElse
<1> QED BY <1>4, Stutters DEF acknowledged

\* The object of a request loses its tags and headers.
LEMMA RefineLoss ==
  ASSUME StoreInv, NEW t \in Tasks, Others(t), Outside(t),
         NEW k \in Keys, k = key(t), holder[k] = t, file[k] # Nil,
         UNCHANGED <<holder, file, req>>, acknowledged' = acknowledged,
         ~ in_window(t)', Bare(valid(k)')
  PROVE  AtomicObjects!Lose
<1>1. \A j \in Keys \ {k} : view(j)' = view(j)
  BY ViewElse
<1>2. Bare(shown(k)')
  BY ShownNext
<1>3. \A j \in {k} : Bare(shown(j))'
  BY <1>2 DEF Bare
<1>4. {k} \in SUBSET {j \in Keys : file[j] # Nil}
  OBVIOUS
<1> QED BY <1>1, <1>3, <1>4, Loses DEF StoreInv

\* The tagging operations change the tags and nothing else.
LEMMA RefineTagging ==
  ASSUME NoCopy, StoreInv, NEW t \in Tasks, Others(t), Outside(t),
         op(t) \in Tagging, Store_object_metainfo(t)
  PROVE  AtomicObjects!Next
<1> USE DEF StoreInv
<1>0. /\ pc[t] = "store" /\ UNCHANGED <<file, holder, req, prior>> /\ TypeOK
      /\ meta' = [meta EXCEPT ![key(t)] = metainfo_to_store(t)]
      /\ finish(t, "OK") /\ resp[t] = Nil
  BY DEF Store_object_metainfo, Tagging, Writing, Reading, UpdateInv, Asked, TypeInv
<1>1. PICK k \in Keys : k = key(t)
  BY <1>0, KeyType
<1>2. PICK m \in Meta_info : m = metainfo_to_store(t)
  BY <1>0, StoredType
<1>3. /\ holder[k] = t /\ stat[t] # Nil /\ stat[t] = file[k]
      /\ seen[t] = valid(k) /\ seen[t] \in Opt(Meta_info)
  BY <1>0, <1>1 DEF UpdateInv, Held, InExclusion, Tagged, TypeOK
<1>4. ~ in_window(t) /\ ~ in_window(t)'
  BY <1>0, FinishType DEF in_window, Codes
<1>5. shown(k) = seen[t]
  BY <1>3, <1>4, ShownOwn
<1>6. meta'[k] = m /\ file'[k] = file[k] /\ m # Nil
  BY <1>0, <1>1, <1>2, StoreAssumption DEF TypeOK
<1>7. m.ent = file[k].ino /\ m.hdrs = IF seen[t] = Nil THEN Nil ELSE seen[t].hdrs
  <2>1. seen[t] # Nil => seen[t].ent = file[k].ino
    BY <1>3 DEF valid, fetch_object_metainfo
  <2>2. /\ etag_metainfo(t).ent = file[k].ino /\ etag_metainfo(t).hdrs = Nil
        /\ \A v : [etag_metainfo(t) EXCEPT !.tags = v].ent = file[k].ino
        /\ \A v : [etag_metainfo(t) EXCEPT !.tags = v].hdrs = Nil
    BY <1>3 DEF etag_metainfo
  <2>3. \A x \in Meta_info : \A v :
          [x EXCEPT !.tags = v].ent = x.ent /\ [x EXCEPT !.tags = v].hdrs = x.hdrs
    BY DEF Meta_info
  <2>4. CASE op(t) = "PutObjectTagging"
    <3>1. m = [(IF seen[t] = Nil THEN etag_metainfo(t) ELSE seen[t])
                 EXCEPT !.tags = req[t].tags]
      BY <1>2, <2>4 DEF metainfo_to_store, Writing, Reading
    <3>2. CASE seen[t] = Nil
      BY <2>2, <3>1, <3>2
    <3>3. CASE seen[t] # Nil
      <4>1. seen[t] \in Meta_info /\ m = [seen[t] EXCEPT !.tags = req[t].tags]
        BY <1>3, <3>1, <3>3 DEF Opt
      <4> QED BY <2>1, <2>3, <3>3, <4>1
    <3> QED BY <3>2, <3>3
  <2>5. CASE op(t) = "DeleteObjectTagging"
    <3>1. m = [seen[t] EXCEPT !.tags = Nil] /\ seen[t] # Nil
      BY <1>0, <1>2, <2>5 DEF metainfo_to_store, Writing, Reading, TypeInv, Ready
    <3>2. seen[t] \in Meta_info
      BY <1>3, <3>1 DEF Opt
    <3> QED BY <2>1, <2>3, <3>1, <3>2
  <2> QED BY <2>4, <2>5 DEF Tagging
<1>8. m.tags = IF op(t) = "PutObjectTagging" THEN req[t].tags ELSE Nil
  <2>1. \A v : [etag_metainfo(t) EXCEPT !.tags = v].tags = v
    BY DEF etag_metainfo
  <2>2. \A x \in Meta_info : \A v : [x EXCEPT !.tags = v].tags = v
    BY DEF Meta_info
  <2>3. CASE op(t) = "PutObjectTagging"
    <3>1. m = [(IF seen[t] = Nil THEN etag_metainfo(t) ELSE seen[t])
                 EXCEPT !.tags = req[t].tags]
      BY <1>2, <2>3 DEF metainfo_to_store, Writing, Reading
    <3> QED BY <1>3, <2>1, <2>2, <2>3, <3>1 DEF Opt
  <2>4. CASE op(t) = "DeleteObjectTagging"
    <3>1. m = [seen[t] EXCEPT !.tags = Nil] /\ seen[t] # Nil
      BY <1>0, <1>2, <2>4 DEF metainfo_to_store, Writing, Reading, TypeInv, Ready
    <3> QED BY <1>3, <2>2, <2>4, <3>1 DEF Opt
  <2> QED BY <2>3, <2>4 DEF Tagging
<1>9. shown(k)' = m
  <2>1. valid(k)' = m
    BY <1>3, <1>6, <1>7 DEF valid, fetch_object_metainfo
  <2> QED BY <1>0, <1>3, <1>4, <2>1, ShownNext
<1>10. view(k)' = [view(k) EXCEPT !.tags = m.tags] /\ view(k) # Nil
  <2> DEFINE h == IF seen[t] = Nil THEN Nil ELSE seen[t].hdrs
             g == IF seen[t] = Nil THEN Nil ELSE seen[t].tags
  <2>1. view(k) = [data |-> file[k].data, tags |-> g, hdrs |-> h]
    BY <1>3, <1>5, ViewShown
  <2>2. view(k)' = [data |-> file[k].data, tags |-> m.tags, hdrs |-> h]
    <3>1. view(k)' = [data |-> file'[k].data,
                      tags |-> IF shown(k)' = Nil THEN Nil ELSE shown(k)'.tags,
                      hdrs |-> IF shown(k)' = Nil THEN Nil ELSE shown(k)'.hdrs]
      BY <1>3, <1>6 DEF view, shown, opened
    <3> QED BY <1>6, <1>7, <1>9, <3>1
  <2> HIDE DEF g, h
  <2>3. [[data |-> file[k].data, tags |-> g, hdrs |-> h] EXCEPT !.tags = m.tags]
          = [data |-> file[k].data, tags |-> m.tags, hdrs |-> h]
    OBVIOUS
  <2> QED BY <1>3, <2>1, <2>2, <2>3, ViewType
<1> DEFINE obj == [j \in Keys |-> view(j)]
<1>11. obj' = [obj EXCEPT ![k].tags = m.tags] /\ obj[k] # Nil
  <2>1. \A j \in Keys \ {k} : view(j)' = view(j)
    BY <1>0, <1>1, ViewElse
  <2>2. obj' = [obj EXCEPT ![k] = [view(k) EXCEPT !.tags = m.tags]] /\ obj[k] = view(k)
    BY <1>10, <2>1, ObjectChanges
  <2> HIDE DEF obj
  <2> QED BY <1>10, <2>2
<1>12. \/ AtomicObjects!PutObjectTagging(req[t])
       \/ AtomicObjects!DeleteObjectTagging(req[t])
  BY <1>1, <1>8, <1>11 DEF AtomicObjects!PutObjectTagging,
     AtomicObjects!DeleteObjectTagging, op, key, Tagging
<1>13. /\ reply("OK") \in Response /\ reply("OK").code = "OK"
       /\ resp' = [resp EXCEPT ![t] = reply("OK")]
  BY <1>0, ReplyType DEF Codes, reply, finish, answer
<1> QED BY <1>0, <1>12, <1>13, Acknowledged

\* Conditions on the file are conditions on the object.
LEMMA HoldsInView ==
  ASSUME TypeInv, NEW k \in Keys, NEW c, AtomicObjects!Holds(c, file[k])
  PROVE  AtomicObjects!Holds(c, view(k))
<1>1. file[k] = Nil <=> view(k) = Nil
  BY ViewType
<1>2. file[k] # Nil => view(k).data = file[k].data
  BY ViewShown
<1> QED BY <1>1, <1>2 DEF AtomicObjects!Holds

\* The rename of the scratch file is the one step of a PutObject: the object
\* then has the data, tags and headers of the request, and the conditions
\* held on the object before.
LEMMA RefinePlace ==
  ASSUME NoCopy, StoreInv, NEW t \in Tasks, Others(t), Outside(t),
         Place_scratch_file(t)
  PROVE  AtomicObjects!Next
<1> USE DEF StoreInv
<1>0. /\ pc[t] = "place" /\ UNCHANGED <<meta, holder, req, prior>> /\ TypeOK /\ Ready(t)
      /\ file' = [file EXCEPT ![key(t)] = scratch[t]] /\ resp[t] = Nil
      /\ resp' = [resp EXCEPT ![t] = [reply("OK") EXCEPT !.etag = scratch[t].data]]
      /\ pc'[t] = "unlock"
  BY DEF Place_scratch_file, UpdateInv, Asked, TypeInv, TypeOK, go
<1>1. PICK k \in Keys : k = key(t)
  BY <1>0, KeyType
<1>2. op(t) = "PutObject" /\ scratch[t] # Nil /\ scratch[t] \in File
  BY <1>0, ReadsOwnKey DEF Ready, Writing, TypeOK, Opt
<1>3. /\ holder[k] = t /\ AtomicObjects!Holds(req[t].cond, file[k])
      /\ new_metainfo(t) # Nil => meta[k] = new_metainfo(t)
  BY <1>0, <1>1, <1>2 DEF UpdateInv, Held, InExclusion, Granted, Windowed
<1>4. /\ scratch[t].data = req[t].data
      /\ meta[k] # Nil /\ meta[k].ent = scratch[t].ino => new_metainfo(t) # Nil
  BY <1>2 DEF UpdateInv, Fresh
<1>5. new_metainfo(t) = make_metainfo(scratch[t], req[t].tags, req[t].hdrs)
  BY <1>2 DEF new_metainfo
<1>6. file'[k] = scratch[t] /\ meta'[k] = meta[k] /\ holder'[k] = t
  BY <1>0, <1>1, <1>3 DEF TypeOK
<1>7. shown(k)' = valid(k)'
  BY <1>0, <1>6, ShownNext DEF in_window
<1>8. valid(k)' = new_metainfo(t)
  <2>1. CASE new_metainfo(t) = Nil
    BY <1>2, <1>4, <1>6, <2>1 DEF valid, fetch_object_metainfo
  <2>2. CASE new_metainfo(t) # Nil
    <3>1. new_metainfo(t).ent = scratch[t].ino
      BY <1>5, <2>2 DEF make_metainfo
    <3> QED BY <1>2, <1>3, <1>6, <2>2, <3>1 DEF valid, fetch_object_metainfo
  <2> QED BY <2>1, <2>2
<1>9. /\ (IF new_metainfo(t) = Nil THEN Nil ELSE new_metainfo(t).tags) = req[t].tags
      /\ (IF new_metainfo(t) = Nil THEN Nil ELSE new_metainfo(t).hdrs) = req[t].hdrs
  <2> DEFINE m == [ent |-> scratch[t].ino, etag |-> scratch[t].data,
                   tags |-> req[t].tags, hdrs |-> req[t].hdrs]
  <2>1. m \in Meta_info
    <3>1. req[t].tags \in Opt(Labels) /\ req[t].hdrs \in Opt(Labels)
      BY <1>0, KeyType DEF Request
    <3> QED BY <1>2, <3>1 DEF File, Meta_info
  <2>2. m # Nil /\ m.tags = req[t].tags /\ m.hdrs = req[t].hdrs
    BY <2>1, StoreAssumption
  <2>3. \/ new_metainfo(t) = Nil /\ req[t].tags = Nil /\ req[t].hdrs = Nil
        \/ new_metainfo(t) = m
    BY <1>5 DEF make_metainfo
  <2> HIDE DEF m
  <2> QED BY <2>2, <2>3
<1>10. view(k)' = [data |-> req[t].data, tags |-> req[t].tags, hdrs |-> req[t].hdrs]
  <2>1. view(k)' = [data |-> file'[k].data,
                    tags |-> IF shown(k)' = Nil THEN Nil ELSE shown(k)'.tags,
                    hdrs |-> IF shown(k)' = Nil THEN Nil ELSE shown(k)'.hdrs]
    BY <1>2, <1>6 DEF view, shown, opened
  <2> QED BY <1>4, <1>6, <1>7, <1>8, <1>9, <2>1
<1>11. AtomicObjects!PutObject(req[t])
  <2>1. \A j \in Keys \ {k} : view(j)' = view(j)
    BY <1>0, <1>1, ViewElse
  <2>2. AtomicObjects!Holds(req[t].cond, view(k))
    BY <1>3, HoldsInView
  <2> QED BY <1>1, <1>2, <1>10, <2>1, <2>2, ObjectChanges
          DEF AtomicObjects!PutObject, op, key
<1>12. [reply("OK") EXCEPT !.etag = scratch[t].data] \in Response
       /\ [reply("OK") EXCEPT !.etag = scratch[t].data].code = "OK"
  <2>1. scratch[t].data \in Data
    BY <1>2 DEF File
  <2> QED BY <2>1 DEF reply, Response, Codes, Opt
<1> QED BY <1>0, <1>11, <1>12, Acknowledged

\* The removal of the file is the one step of a DeleteObject.
LEMMA RefineDelete ==
  ASSUME NoCopy, StoreInv, NEW t \in Tasks, Others(t), Outside(t), Delete_object(t)
  PROVE  AtomicObjects!Next
<1> USE DEF StoreInv
<1>0. /\ pc[t] = "remove" /\ UNCHANGED <<meta, holder, req, prior>> /\ TypeOK
      /\ file' = [file EXCEPT ![key(t)] = Nil] /\ resp[t] = Nil /\ finish(t, "OK")
      /\ op(t) = "DeleteObject"
  BY DEF Delete_object, UpdateInv, Asked, TypeInv
<1>1. PICK k \in Keys : k = key(t)
  BY <1>0, KeyType
<1>2. file[k] # Nil /\ AtomicObjects!Holds(req[t].cond, file[k])
  BY <1>0, <1>1 DEF UpdateInv, Held, InExclusion, Granted
<1>3. view(k)' = Nil
  <2>1. file'[k] = Nil
    BY <1>0, <1>1 DEF TypeOK
  <2> QED BY <2>1 DEF view
<1>4. AtomicObjects!DeleteObject(req[t])
  <2>1. \A j \in Keys \ {k} : view(j)' = view(j)
    BY <1>0, <1>1, ViewElse
  <2>2. AtomicObjects!Holds(req[t].cond, view(k)) /\ view(k) # Nil
    BY <1>2, HoldsInView, ViewType
  <2> QED BY <1>0, <1>1, <1>3, <2>1, <2>2, ObjectChanges
          DEF AtomicObjects!DeleteObject, op, key
<1>5. /\ reply("OK") \in Response /\ reply("OK").code = "OK"
      /\ resp' = [resp EXCEPT ![t] = reply("OK")]
  BY <1>0, ReplyType DEF Codes, reply, finish, answer
<1> QED BY <1>0, <1>4, <1>5, Acknowledged

\* The tags and headers of an object may be lost: by a failure or a
\* crash between the two steps of an update, or a reader that saves the ETag
\* of a large object over the metainfo stored since it read.
MayLose ==
  \/ "rename" \in Faults \/ "remove" \in Faults \/ MaxCrashes > 0
  \/ LargeData # {} /\ \E r \in Reqs : r.op \in Reading

\* A reader that saves an ETag leaves no tags and headers.
LEMMA RefineSave ==
  ASSUME NoCopy, StoreInv, NEW t \in Tasks, Others(t), Outside(t), holder[key(t)] = t,
         op(t) \in Reading, Store_object_metainfo(t)
  PROVE  UNCHANGED AtomicObjects!vars \/ (AtomicObjects!Lose /\ MayLose)
<1> USE DEF StoreInv
<1>0. /\ pc[t] = "store" /\ UNCHANGED <<file, holder, req, prior, resp>> /\ TypeOK
      /\ meta' = [meta EXCEPT ![key(t)] = metainfo_to_store(t)] /\ go(t, "unlock")
  BY DEF Store_object_metainfo, Writing, Reading, TypeInv
<1>1. PICK k \in Keys : k = key(t)
  BY <1>0, KeyType
<1>2. ~ in_window(t)'
  BY <1>0 DEF in_window, go, TypeOK
<1>3. acknowledged' = acknowledged
  BY <1>0 DEF acknowledged
<1>4. CASE file[k] = Nil
  <2>1. view(k) = Nil /\ view(k)' = Nil
    BY <1>0, <1>4 DEF view
  <2>2. \A j \in Keys : view(j)' = view(j)
    BY <1>0, <1>1, <2>1, ViewElse
  <2> QED BY <1>0, <1>3, <2>2, Stutters
<1>5. CASE file[k] # Nil
  <2>1. meta'[k] = etag_metainfo(t)
    BY <1>0, <1>1 DEF metainfo_to_store, Reading, Writing, TypeOK
  <2>2. Bare(etag_metainfo(t))
    BY DEF Bare, etag_metainfo
  <2>3. valid(k)' \in {Nil, meta'[k]}
    BY DEF valid, fetch_object_metainfo
  <2>4. Bare(valid(k)')
    BY <2>1, <2>2, <2>3 DEF Bare
  <2>5. AtomicObjects!Lose
    BY <1>0, <1>1, <1>2, <1>3, <1>5, <2>4, RefineLoss
  <2>6. MayLose
    <3>1. stat[t].data \in LargeData /\ req[t] \in Reqs
      BY <1>0, KeyType DEF UpdateInv, Asked
    <3> QED BY <3>1 DEF MayLose, op
  <2> QED BY <2>5, <2>6
<1> QED BY <1>4, <1>5

\* The metainfo of a failed update is of no object.
LEMMA WindowClosed ==
  ASSUME NoCopy, StoreInv, NEW t \in Tasks, in_window(t) PROVE valid(key(t)) = Nil
<1> USE DEF StoreInv
<1>1. Windowed(t) /\ pc[t] \in {"place", "remove"}
  BY DEF in_window, InExclusion, UpdateInv, Held
<1>2. CASE pc[t] = "remove"
  BY <1>1, <1>2 DEF Windowed, valid, fetch_object_metainfo
<1>3. CASE pc[t] = "place" /\ new_metainfo(t) # Nil
  <2>1. op(t) = "PutObject" /\ scratch[t] # Nil /\ key(t) \in Keys
    BY <1>3, ReadsOwnKey DEF TypeInv, Ready, Writing
  <2>2. meta[key(t)].ent = scratch[t].ino
    BY <1>1, <1>3, <2>1 DEF Windowed, new_metainfo, make_metainfo
  <2> QED BY <2>1, <2>2 DEF valid, fetch_object_metainfo, EntityInv, DataInv, Private
<1> QED BY <1>1, <1>2, <1>3 DEF in_window

\* A failure after the metainfo has been replaced or removed.
LEMMA RefineFault ==
  ASSUME NoCopy, StoreInv, NEW t \in Tasks, Others(t), Outside(t), holder[key(t)] = t,
         in_window(t), ~ in_window(t)', UNCHANGED <<file, meta, holder, req>>,
         acknowledged' = acknowledged
  PROVE  UNCHANGED AtomicObjects!vars \/ AtomicObjects!Lose
<1>1. PICK k \in Keys : k = key(t)
  BY KeyType DEF in_window, StoreInv
<1>2. valid(k)' = Nil
  BY <1>1, WindowClosed DEF valid, fetch_object_metainfo
<1>3. CASE file[k] = Nil
  <2>1. view(k) = Nil /\ view(k)' = Nil
    BY <1>3 DEF view
  <2>2. \A j \in Keys : view(j)' = view(j)
    BY <1>1, <2>1, ViewElse
  <2> QED BY <2>2, Stutters
<1>4. CASE file[k] # Nil
  BY <1>1, <1>2, <1>4, RefineLoss DEF Bare
<1> QED BY <1>3, <1>4

\* The steps in exclusion.
LEMMA RefineModify ==
  ASSUME NoCopy, StoreInv, NEW t \in Tasks, Modify(t)
  PROVE  \/ UNCHANGED AtomicObjects!vars
         \/ AtomicObjects!Next
         \/ AtomicObjects!Lose /\ MayLose
<1> USE DEF StoreInv
<1>0. /\ pc[t] # "idle" /\ InExclusion(t) /\ TypeOK /\ Ready(t) /\ Asked(t)
      /\ UNCHANGED <<holder, req, stat, etag, seen, prior>>
  BY DEF Modify, Store_metainfo_serialized, Recheck_target, Recheck_panic,
         Store_object_metainfo, Store_fault, Place_remove_same, Place_scratch_file,
         Place_fault, Place_undo, Delete_metainfo, Delete_object, Delete_fault,
         reading, InExclusion, TypeInv, UpdateInv
<1>1. op(t) # "CopyObject" /\ key(t) \in Keys /\ op(t) \in Ops
  BY <1>0, ReadsOwnKey
<1>2. holder[key(t)] = t /\ Granted(t) /\ Tagged(t) /\ Windowed(t)
  BY <1>0 DEF UpdateInv, Held
<1>3. Others(t)
  BY <1>0 DEF Modify, Store_metainfo_serialized, Recheck_target, Recheck_panic,
         Store_object_metainfo, Store_fault, Place_remove_same, Place_scratch_file,
         Place_fault, Place_undo, Delete_metainfo, Delete_object, Delete_fault,
         Others, Other, Same, finish, answer, go, TypeOK
<1>4. Outside(t)
  BY <1>0, <1>1, <1>2 DEF Modify, Store_metainfo_serialized, Recheck_target,
         Recheck_panic, Store_object_metainfo, Store_fault, Place_remove_same,
         Place_scratch_file, Place_fault, Place_undo, Delete_metainfo, Delete_object,
         Delete_fault, Outside, TypeOK
<1>5. ASSUME NEW c \in Codes \ {"OK"}, finish(t, c), UNCHANGED <<file, meta>>,
             pc[t] \in {"guard", "store"}
      PROVE  UNCHANGED AtomicObjects!vars
  BY <1>0, <1>3, <1>5, RefineFail DEF Asked, in_window
<1>6. CASE Store_metainfo_serialized(t)
  <2>1. /\ pc[t] = "guard" /\ UNCHANGED <<file, meta, scratch>>
        /\ \/ \E c \in Codes \ {"OK"} : finish(t, c)
           \/ go(t, "store") /\ UNCHANGED resp
    BY <1>6 DEF Store_metainfo_serialized, Codes
  <2>2. CASE go(t, "store") /\ UNCHANGED resp
    <3>1. pc'[t] = "store"
      BY <1>0, <2>2 DEF go, TypeOK
    <3> QED BY <1>0, <1>3, <2>1, <2>2, <3>1, RefineQuiet
  <2> QED BY <1>5, <2>1, <2>2
<1>7. CASE Recheck_target(t)
  <2> DEFINE mode == IF op(t) = "DeleteObject" THEN "delete" ELSE "write"
             c == check_conditions(etag[t], mode, req[t].cond)
             p == IF op(t) = "DeleteObject" THEN "unmeta" ELSE to_place(t)
  <2>1. /\ pc[t] = "guard" /\ UNCHANGED <<file, meta, scratch>>
        /\ \/ finish(t, "InternalError")
           \/ c # "OK" /\ finish(t, c)
           \/ go(t, p) /\ UNCHANGED resp
    BY <1>7 DEF Recheck_target
  <2>2. c \in Codes /\ "InternalError" \in Codes \ {"OK"}
    BY ConditionCodes DEF Codes
  <2>3. CASE go(t, p) /\ UNCHANGED resp
    <3>1. p # "remove" /\ (p = "place" => new_metainfo(t) = Nil)
      BY DEF to_place
    <3> HIDE DEF p
    <3>2. pc'[t] = p /\ new_metainfo(t)' = new_metainfo(t)
      BY <1>0, <2>1, <2>3, NewMetainfoSame DEF go, TypeOK
    <3>3. ~ in_window(t) /\ ~ in_window(t)'
      BY <2>1, <3>1, <3>2 DEF in_window
    <3>4. \A k \in Keys : view(k)' = view(k)
      BY <1>0, <1>3, <2>1, <3>3, ViewQuiet
    <3> QED BY <1>0, <2>3, <3>4, Stutters DEF acknowledged
  <2> HIDE DEF c
  <2> QED BY <1>5, <2>1, <2>2, <2>3
<1>8. CASE Recheck_panic(t) \/ Store_fault(t)
  BY <1>5, <1>8 DEF Recheck_panic, Store_fault, Codes
<1>9. CASE Store_object_metainfo(t)
  <2>1. CASE op(t) \in Writing
    <3>1. /\ pc[t] = "store" /\ UNCHANGED <<file, scratch, resp>> /\ pc'[t] = "place"
          /\ op(t) = "PutObject"
      BY <1>0, <1>1, <1>9, <2>1 DEF Store_object_metainfo, Writing, Reading, go, TypeOK
    <3>2. new_metainfo(t)' = new_metainfo(t) /\ new_metainfo(t) # Nil
      BY <1>0, <2>1, <3>1, NewMetainfoSame DEF Ready
    <3>3. ~ in_window(t) /\ in_window(t)' /\ prior[t] = valid(key(t))
      BY <1>2, <3>1, <3>2 DEF in_window, Windowed
    <3> QED BY <1>0, <1>1, <1>2, <1>3, <1>4, <3>1, <3>3, RefineOpen
  <2>2. CASE op(t) \in Reading
    BY <1>2, <1>3, <1>4, <1>9, <2>2, RefineSave
  <2>3. CASE op(t) \in Tagging
    BY <1>3, <1>4, <1>9, <2>3, RefineTagging
  <2> QED BY <1>0, <1>9, <2>1, <2>2, <2>3 DEF Store_object_metainfo, Ready
<1>10. CASE Place_remove_same(t)
  BY <1>1, <1>10 DEF Place_remove_same, same_file
<1>11. CASE Place_scratch_file(t)
  BY <1>3, <1>4, <1>11, RefinePlace
<1>12. CASE Place_fault(t)
  <2>1. /\ pc[t] = "place" /\ UNCHANGED <<file, meta, scratch>> /\ MayLose
        /\ pc'[t] \in {"unlock", "undo"} /\ resp[t] = Nil
        /\ resp' = [resp EXCEPT ![t] = reply("InternalError")]
    BY <1>0, <1>12 DEF Place_fault, go, Asked, TypeOK, MayLose
  <2>2. acknowledged' = acknowledged
    <3>1. reply("InternalError").code # "OK"
      BY DEF reply
    <3> QED BY <2>1, <3>1, NotAcknowledged
  <2>3. ~ in_window(t)'
    BY <2>1 DEF in_window
  <2>4. CASE in_window(t)
    BY <1>0, <1>2, <1>3, <1>4, <2>1, <2>2, <2>3, <2>4, RefineFault
  <2>5. CASE ~ in_window(t)
    <3>1. \A k \in Keys : view(k)' = view(k)
      BY <1>0, <1>3, <2>1, <2>3, <2>5, ViewQuiet
    <3> QED BY <1>0, <2>2, <3>1, Stutters
  <2> QED BY <2>4, <2>5
<1>13. CASE Place_undo(t)
  <2>1. PICK k \in Keys : k = key(t)
    BY <1>1
  <2>2. /\ pc[t] = "undo" /\ pc'[t] = "unlock" /\ UNCHANGED <<file, resp>> /\ meta'[k] = Nil
    BY <1>0, <1>13, <2>1 DEF Place_undo, go, TypeOK
  <2>3. ~ in_window(t) /\ ~ in_window(t)'
    BY <2>2 DEF in_window
  <2>4. valid(k) = Nil /\ valid(k)' = Nil
    BY <1>2, <2>1, <2>2 DEF Windowed, valid, fetch_object_metainfo
  <2>5. shown(k) = Nil /\ shown(k)' = Nil
    BY <1>0, <1>2, <2>1, <2>3, <2>4, ShownOwn, ShownNext
  <2>6. view(k)' = view(k)
    BY <2>2, <2>5, ViewSame
  <2>7. \A j \in Keys : view(j)' = view(j)
    BY <1>0, <1>3, <1>4, <2>1, <2>6, ViewElse
  <2> QED BY <1>0, <2>2, <2>7, Stutters DEF acknowledged
<1>14. CASE Delete_metainfo(t)
  <2>1. pc[t] = "unmeta" /\ pc'[t] = "remove" /\ UNCHANGED <<file, resp>>
    BY <1>0, <1>14 DEF Delete_metainfo, go, TypeOK
  <2>2. ~ in_window(t) /\ in_window(t)' /\ prior[t] = valid(key(t))
    BY <1>0, <1>2, <2>1 DEF in_window, Windowed, Asked
  <2> QED BY <1>0, <1>1, <1>2, <1>3, <1>4, <2>1, <2>2, RefineOpen
<1>15. CASE Delete_object(t)
  BY <1>3, <1>4, <1>15, RefineDelete
<1>16. CASE Delete_fault(t)
  <2>1. /\ pc[t] = "remove" /\ UNCHANGED <<file, meta>> /\ finish(t, "InternalError")
        /\ MayLose /\ resp[t] = Nil
    BY <1>0, <1>16 DEF Delete_fault, MayLose, Asked
  <2>2. acknowledged' = acknowledged
    BY <2>1, Failed
  <2>3. in_window(t) /\ ~ in_window(t)'
    BY <1>0, <2>1, FinishType DEF in_window, Codes
  <2> QED BY <1>0, <1>2, <1>3, <1>4, <2>1, <2>2, <2>3, RefineFault
<1> QED BY <1>6, <1>7, <1>8, <1>9, <1>10, <1>11, <1>12, <1>13, <1>14, <1>15, <1>16
        DEF Modify

\* A crash: the objects whose update is half-way lose their tags and headers.
LEMMA RefineCrash ==
  ASSUME NoCopy, StoreInv, Crash PROVE AtomicObjects!Lose /\ MayLose
<1> USE DEF StoreInv
<1> DEFINE S == {k \in Keys : file[k] # Nil /\ opened(k)}
<1>0. /\ UNCHANGED <<file, meta, req, resp, prior>> /\ TypeOK /\ crashes < MaxCrashes
      /\ \A k \in Keys : holder'[k] = Nil
  BY DEF Crash, TypeInv
<1>1. ASSUME NEW k \in Keys PROVE shown(k)' = valid(k)
  <2>1. shown(k)' = valid(k)'
    BY <1>0 DEF shown, opened
  <2> QED BY <1>0, <2>1, ValidSame
<1>2. ASSUME NEW k \in S PROVE Bare(shown(k))'
  <2>1. PICK t \in Tasks : holder[k] = t /\ in_window(t)
    BY <1>0 DEF opened, TypeOK, Opt
  <2>2. key(t) = k
    BY <2>1 DEF NeatInv, Neat
  <2>3. valid(k) = Nil
    BY <2>1, <2>2, WindowClosed
  <2>4. shown(k)' = Nil
    BY <1>1, <2>3
  <2> QED BY <2>4 DEF Bare
<1>3. ASSUME NEW k \in Keys \ S PROVE view(k)' = view(k)
  <2>1. CASE file[k] = Nil
    BY <1>0, <2>1 DEF view
  <2>2. CASE file[k] # Nil
    <3>1. shown(k) = valid(k)
      BY <2>2 DEF shown
    <3> QED BY <1>0, <1>1, <3>1, ViewSame
  <2> QED BY <2>1, <2>2
<1>4. S \in SUBSET {k \in Keys : file[k] # Nil}
  OBVIOUS
<1>5. acknowledged' = acknowledged
  BY <1>0 DEF acknowledged
<1> HIDE DEF S
<1>6. AtomicObjects!Lose
  BY <1>0, <1>2, <1>3, <1>4, <1>5, Loses
<1>7. MayLose
  BY <1>0, StoreAssumption DEF MayLose, TypeOK
<1> QED BY <1>6, <1>7

LEMMA RefineInit == Init => AtomicObjects!Init
<1> SUFFICES ASSUME Init PROVE AtomicObjects!Init
  OBVIOUS
<1>1. ASSUME NEW k \in Keys, view(k) # Nil PROVE view(k).tags = Nil /\ view(k).hdrs = Nil
  <2>1. shown(k) = Nil
    BY DEF Init, shown, opened, valid, fetch_object_metainfo
  <2> QED BY <1>1, <2>1, ViewShown
<1> QED BY <1>1 DEF AtomicObjects!Init, Init

\* Every step of a request is a step of the objects, or none.
LEMMA RefineStep ==
  ASSUME NoCopy, StoreInv, [Next]_vars
  PROVE  \/ UNCHANGED AtomicObjects!vars
         \/ AtomicObjects!Next
         \/ AtomicObjects!Lose /\ MayLose
<1>1. CASE UNCHANGED vars
  <2>1. UNCHANGED <<file, meta, holder, pc, req, seen, scratch, resp, prior>>
    BY <1>1 DEF vars
  <2>2. \A k \in Keys : view(k)' = view(k)
    BY <2>1 DEF view, valid, fetch_object_metainfo, in_window, new_metainfo,
       make_metainfo, by_directive, op
  <2> QED BY <2>1, <2>2, Stutters DEF acknowledged
<1> QED BY <1>1, RefineCrash, RefineStart, RefineLock, RefinePrepare, RefineModify,
           RefineEnd DEF Next, Ended, Step

\* With any failures and crashes, and without copies, PutObject, DeleteObject
\* and the tagging operations change an object in the one step that makes
\* them succeed, under their conditions; beyond that, objects lose tags and
\* headers and nothing else.
THEOREM LossyObjectsImplemented == NoCopy => (Spec => ImplementsLossyObjects)
<1> SUFFICES ASSUME NoCopy PROVE Spec => ImplementsLossyObjects
  OBVIOUS
<1>1. StoreInv /\ [Next]_vars
        => [AtomicObjects!Next \/ AtomicObjects!Lose]_(AtomicObjects!vars)
  BY RefineStep
<1>2. Spec => []StoreInv
  BY StoreAlways
<1> QED BY <1>1, <1>2, RefineInit, PTL
        DEF Spec, ImplementsLossyObjects, AtomicObjects!LossySpec

\* Without copies, and where nothing can be lost (no crash and no failure of
\* the rename or of the removal of an object, no reader of a large object),
\* the two files of an object act as one atomic object.
THEOREM ObjectsImplemented == NoCopy /\ ~ MayLose => (Spec => ImplementsObjects)
<1> SUFFICES ASSUME NoCopy, ~ MayLose PROVE Spec => ImplementsObjects
  OBVIOUS
<1>1. StoreInv /\ [Next]_vars => [AtomicObjects!Next]_(AtomicObjects!vars)
  BY RefineStep
<1>2. Spec => []StoreInv
  BY StoreAlways
<1> QED BY <1>1, <1>2, RefineInit, PTL
        DEF Spec, ImplementsObjects, AtomicObjects!Spec
=============================================================================
