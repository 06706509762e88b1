-------------------------- MODULE MultipartProofs --------------------------
(***************************************************************************)
(* Proofs about multipart uploads, for any number of requests, parts and   *)
(* upload ids, any failures, and any number of crashes where nothing else  *)
(* is said.                                                                *)
(***************************************************************************)
EXTENDS Multipart, TLAPS

Create == "CreateMultipartUpload"
Abort == "AbortMultipartUpload"
Complete == "CompleteMultipartUpload"

\* The steps in exclusion.
Inner == {"mkdir", "info", "catalog", "source", "recheck", "guard", "place", "rename",
          "uninfo", "rmall", "unlock"}

\* The steps after a response is decided, or the server is killed.
Decided == {"uninfo", "rmall", "unlock", "discard", "done", "dead"}

\* What a request is, by where it is ...
Asking(t) ==
  /\ IF pc[t] = "idle" THEN req[t] = Nil ELSE req[t] \in Reqs
  /\ pc[t] = "check" => op(t) \notin {Create, Abort}
  /\ pc[t] = "upload" => op(t) = "UploadPart"
  /\ pc[t] \in {"stat", "etag", "copy", "source"} => op(t) = "UploadPartCopy"
  /\ pc[t] \in {"verify", "concat", "target", "guard"} => op(t) = Complete
  /\ pc[t] = "list" => op(t) = "ListParts"
  /\ pc[t] = "lock" => op(t) # "ListParts"
  /\ pc[t] \in {"mkdir", "info"} => op(t) = Create
  /\ pc[t] = "catalog" => op(t) \in Uploading \cup {Create}
  /\ pc[t] = "recheck" => op(t) \in Uploading \cup {Abort}
  /\ pc[t] = "place" => op(t) \in Uploading \cup {Complete}
  /\ pc[t] = "rename" => op(t) \in Uploading
  /\ pc[t] \in {"uninfo", "rmall"} => op(t) \in {Create, Abort, Complete}

\* ... what its response is ...
Answering(t) ==
  /\ pc[t] \notin Decided => code[t] = Nil
  /\ pc[t] = "uninfo" =>
       /\ op(t) = Create => code[t] = "InternalError"
       /\ op(t) = Abort => code[t] = Nil
       /\ op(t) = Complete => code[t] = "OK"
  /\ pc[t] = "rmall" => code[t] # Nil

\* ... the scratch file of a part, with data that this part may have ...
PartReady(t) ==
  /\ pc[t] \in {"lock", "source", "recheck", "place", "rename"} /\ op(t) \in Uploading =>
       /\ scratch[t] \in File
       /\ scratch[t].data \in sent(req[t].no)
       /\ op(t) = "UploadPart" => scratch[t].data = req[t].data
       /\ op(t) = "UploadPart" \/ req[t].range => scratch[t].ino = 0
  /\ pc[t] = "catalog" /\ op(t) \in Uploading =>
       /\ seen[t] \in sent(req[t].no)
       /\ op(t) = "UploadPart" => seen[t] = req[t].data

\* ... the scratch file of a completion, as far as it is written, and the list
\* that was compared with the catalog ...
ListReady(t) ==
  /\ pc[t] \in {"verify", "concat", "target", "lock", "guard", "place"} /\ op(t) = Complete =>
       seen[t] \in Ids
  /\ pc[t] \in {"concat", "target", "lock", "guard", "place"} /\ op(t) = Complete =>
       /\ scratch[t] \in [ino : {0}, data : Seq(Data)]
       /\ sorted(req[t].list)
       /\ IF pc[t] = "concat" THEN Len(scratch[t].data) < Len(req[t].list)
          ELSE Len(scratch[t].data) = Len(req[t].list)
       /\ \A i \in 1..Len(req[t].list) : req[t].list[i].etag \in sent(req[t].list[i].no)
       /\ \A i \in 1..Len(scratch[t].data) : scratch[t].data[i] \in sent(req[t].list[i].no)

\* ... and the upload ids of a creation, the new one and the earlier one.
CreateReady(t) ==
  pc[t] \in {"info", "catalog"} /\ op(t) = Create => seen[t] \in Ids /\ stat[t] \in Opt(Ids)

Ready(t) == Asking(t) /\ Answering(t) /\ PartReady(t) /\ ListReady(t) /\ CreateReady(t)

\* Exclusion: a task is the holder while it is at a step in exclusion.
Exclusive(t) == pc[t] \in Inner <=> holder = t

\* What the task in exclusion knows of the directory.
Owner(t) ==
  /\ pc[t] \in {"place", "rename", "catalog"} /\ op(t) \in Uploading => info = req[t].uid
  /\ pc[t] = "catalog" /\ op(t) \in Uploading => part[req[t].no] # Nil
  /\ pc[t] = "uninfo" /\ op(t) = Abort => info = req[t].uid
  /\ pc[t] = "info" => dir /\ info = stat[t]
  /\ pc[t] = "catalog" /\ op(t) = Create => info = seen[t]
  /\ pc[t] = "rmall" => info = Nil

\* The data of part files and of the catalog is data that was sent.
FilesSent ==
  /\ \A n \in Numbers : part[n] # Nil => part[n].data \in sent(n)
  /\ list # Nil => \A n \in Numbers : list[n] # Nil => list[n] \in sent(n)

\* An object was made by a completion of listed parts.
ObjectSent ==
  object # Nil =>
    /\ pc[object.by] # "idle"
    /\ op(object.by) = Complete
    /\ sorted(req[object.by].list)
    /\ Len(object.data) = Len(req[object.by].list)
    /\ \A i \in 1..Len(object.data) :
         /\ object.data[i] \in sent(req[object.by].list[i].no)
         /\ req[object.by].list[i].etag \in sent(req[object.by].list[i].no)

UploadInv ==
  /\ TypeOK
  /\ \A t \in Tasks : Ready(t) /\ Exclusive(t) /\ Owner(t)
  /\ FilesSent
  /\ ObjectSent
  /\ info # Nil => dir

removing == holder # Nil /\ pc[holder] = "rmall"

\* Before a crash the catalog is backed all the time, except in a removal.
CatalogInv == (crashes = 0 /\ ~ removing => backed) /\ CatalogBacked

\* Before a crash a directory without an info file is being made or removed.
DirectoryInv ==
  crashes = 0 /\ dir /\ info = Nil =>
    holder # Nil /\ pc[holder] \in {"info", "uninfo", "rmall"}
-----------------------------------------------------------------------------
\* What a step of another request leaves alone of request u.
Same(u) ==
  /\ pc'[u] = pc[u] /\ req'[u] = req[u] /\ seen'[u] = seen[u]
  /\ stat'[u] = stat[u] /\ scratch'[u] = scratch[u] /\ code'[u] = code[u]

LEMMA SameReady ==
  ASSUME NEW u, Same(u), Ready(u) PROVE Ready(u)'
BY DEF Same, Ready, Asking, Answering, PartReady, ListReady, CreateReady, op

\* Requests have the parameters that their operations need.
LEMMA RequestType ==
  ASSUME NEW t, req[t] \in Reqs
  PROVE  /\ op(t) \in Ops
         /\ req[t].list \in Seq([no : Numbers, etag : Data])
         /\ op(t) # Create => req[t].uid \in Ids
         /\ op(t) \in Uploading => req[t].no \in Numbers
         /\ op(t) = "UploadPart" => req[t].data \in Data
BY MultipartAssumption DEF op, Create, Uploading

LEMMA RequestThere ==
  ASSUME UploadInv, NEW t \in Tasks, pc[t] # "idle" PROVE req[t] \in Reqs
BY DEF UploadInv, Ready, Asking

LEMMA SentData == \A n : sent(n) \subseteq Data
BY DEF sent

\* A request that returns has its response, and is before its deferred calls.
LEMMA FinishType ==
  ASSUME UploadInv, NEW t \in Tasks, NEW c \in Codes, finish(t, c)
  PROVE  /\ code' \in [Tasks -> Opt(Codes)]
         /\ pc' \in [Tasks -> PC]
         /\ pc'[t] \in IF holder = t THEN {"unlock"} ELSE {"discard", "done"}
         /\ code'[t] = c
         /\ \A u \in Tasks \ {t} : pc'[u] = pc[u] /\ code'[u] = code[u]
BY DEF UploadInv, TypeOK, finish, go, Opt, PC

LEMMA FinishReady ==
  ASSUME NEW t \in Tasks, req'[t] \in Reqs, pc'[t] \in {"unlock", "discard", "done", "dead"}
  PROVE  Ready(t)'
BY DEF Ready, Asking, Answering, PartReady, ListReady, CreateReady, Decided, op

LEMMA GoType ==
  ASSUME UploadInv, NEW t \in Tasks, NEW p \in PC, go(t, p)
  PROVE  /\ pc' \in [Tasks -> PC]
         /\ pc'[t] = p
         /\ \A u \in Tasks \ {t} : pc'[u] = pc[u]
BY DEF UploadInv, TypeOK, go

\* A step outside of exclusion that leaves the directory and the object alone
\* keeps the invariant if it keeps the types and leaves its request ready.
LEMMA OutsideInv ==
  ASSUME UploadInv, NEW t \in Tasks, \A u \in Tasks \ {t} : Same(u),
         UNCHANGED <<dir, info, list, part, object, holder>>,
         TypeOK', Ready(t)', pc[t] \notin Inner, pc'[t] \notin Inner, pc'[t] # "idle",
         req'[t] = req[t] \/ pc[t] = "idle"
  PROVE  UploadInv'
<1>1. \A u \in Tasks : Ready(u)'
  BY SameReady DEF UploadInv
<1>2. \A u \in Tasks : Exclusive(u)'
  BY DEF UploadInv, Exclusive, Same
<1>3. \A u \in Tasks \ {t} : Owner(u)'
  BY DEF UploadInv, Owner, Same, op
<1>4. Owner(t)'
  BY DEF Owner, Inner
<1>5. FilesSent'
  BY DEF UploadInv, FilesSent
<1>6. ObjectSent'
  <2> SUFFICES ASSUME object # Nil
               PROVE  ObjectSent'
    BY DEF ObjectSent
  <2>1. object.by \in Tasks
    BY DEF UploadInv, TypeOK, Opt, Object
  <2>2. pc[object.by] # "idle"
    BY DEF UploadInv, ObjectSent
  <2>3. req'[object.by] = req[object.by] /\ pc'[object.by] # "idle"
    BY <2>1, <2>2 DEF Same
  <2> QED BY <2>3 DEF UploadInv, ObjectSent, op
<1> QED BY <1>1, <1>2, <1>3, <1>4, <1>5, <1>6 DEF UploadInv

\* A step in exclusion keeps the invariant if it does so for its request, for
\* the directory and for the object: no other request is in exclusion.
LEMMA InsideInv ==
  ASSUME UploadInv, NEW t \in Tasks, \A u \in Tasks \ {t} : Same(u),
         holder' = holder, req'[t] = req[t], pc[t] \in Inner, pc'[t] \in Inner,
         TypeOK', Ready(t)', Owner(t)', FilesSent', ObjectSent', (info # Nil => dir)'
  PROVE  UploadInv'
<1>1. \A u \in Tasks : Ready(u)'
  BY SameReady DEF UploadInv
<1>2. \A u \in Tasks : Exclusive(u)'
  BY DEF UploadInv, Exclusive, Same
<1>3. \A u \in Tasks \ {t} : Owner(u)'
  <2> TAKE u \in Tasks \ {t}
  <2>1. pc'[u] \notin Inner
    BY DEF UploadInv, Exclusive, Same
  <2> QED BY <2>1 DEF Owner, Inner
<1> QED BY <1>1, <1>2, <1>3 DEF UploadInv

LEMMA UploadInit == Init => UploadInv
<1> SUFFICES ASSUME Init PROVE UploadInv
  OBVIOUS
<1>1. list = Nil \/ (list \in Found /\ list \in [Numbers -> Opt(Data)] /\ info \in Ids)
  BY MultipartAssumption DEF Init, Opt
<1>2. ASSUME NEW n \in Numbers
      PROVE  /\ part[n] \in Opt(Part)
             /\ part[n] # Nil => part[n].data \in sent(n)
  BY <1>1, <1>2, MultipartAssumption DEF Init, Opt, Part, sent
<1>3. part \in [Numbers -> Opt(Part)]
  BY <1>2 DEF Init
<1>4. TypeOK
  BY <1>1, <1>3, MultipartAssumption DEF Init, TypeOK, Opt, File, PC
<1>5. FilesSent
  BY <1>1, <1>2, MultipartAssumption DEF FilesSent, Init, sent, Opt
<1>6. \A t \in Tasks : Ready(t) /\ Exclusive(t) /\ Owner(t)
  BY MultipartAssumption DEF Init, Ready, Asking, Answering, PartReady, ListReady, CreateReady,
       Exclusive, Owner, Inner, Decided
<1> QED BY <1>4, <1>5, <1>6 DEF Init, UploadInv, ObjectSent
-----------------------------------------------------------------------------
\* A request outside of exclusion that returns keeps the invariant.
LEMMA OutsideFinish ==
  ASSUME UploadInv, NEW t \in Tasks, NEW c \in Codes, finish(t, c),
         pc[t] \notin Inner \cup {"idle"},
         UNCHANGED <<dir, info, list, part, object, source, puts, holder, req, seen, scratch,
                     crashes>>,
         stat' \in [Tasks -> Opt(File \cup Object \cup Ids)],
         \A u \in Tasks \ {t} : stat'[u] = stat[u]
  PROVE  UploadInv'
<1>1. holder # t
  BY DEF UploadInv, Exclusive
<1>2. /\ code' \in [Tasks -> Opt(Codes)] /\ pc' \in [Tasks -> PC]
      /\ pc'[t] \in {"discard", "done"}
      /\ \A u \in Tasks \ {t} : pc'[u] = pc[u] /\ code'[u] = code[u]
  BY <1>1, FinishType
<1>3. TypeOK'
  BY <1>2 DEF UploadInv, TypeOK
<1>4. Ready(t)'
  BY <1>2, RequestThere, FinishReady
<1> QED BY <1>2, <1>3, <1>4, OutsideInv DEF Same, Inner

LEMMA StartInv ==
  ASSUME UploadInv, NEW t \in Tasks, Start(t) PROVE UploadInv'
<1>1. PICK r \in Reqs :
        /\ req' = [req EXCEPT ![t] = r]
        /\ go(t, IF r.op \in {Create, Abort} THEN "lock" ELSE "check")
  BY DEF Start, Create, Abort
<1>2. /\ pc[t] = "idle"
      /\ UNCHANGED <<upload, world, holder, seen, stat, scratch, code, crashes>>
  BY DEF Start
<1> DEFINE p == IF r.op \in {Create, Abort} THEN "lock" ELSE "check"
<1>3. p \in {"lock", "check"} /\ p \in PC
  BY DEF PC
<1>4. /\ pc' \in [Tasks -> PC] /\ pc'[t] = p
      /\ \A u \in Tasks \ {t} : pc'[u] = pc[u]
  <2> HIDE DEF p
  <2> QED BY <1>1, <1>3, GoType DEF p
<1>5. req' \in [Tasks -> Opt(Reqs)] /\ req'[t] = r /\ \A u \in Tasks \ {t} : req'[u] = req[u]
  BY <1>1 DEF UploadInv, TypeOK, Opt
<1>6. TypeOK'
  BY <1>2, <1>4, <1>5 DEF UploadInv, TypeOK, upload, world
<1>7. code[t] = Nil
  BY <1>2 DEF UploadInv, Ready, Answering, Decided
<1>8. Ready(t)'
  BY <1>2, <1>4, <1>5, <1>7
     DEF Ready, Asking, Answering, PartReady, ListReady, CreateReady, Decided, op,
         Create, Abort, Complete, Uploading
<1> QED BY <1>2, <1>3, <1>4, <1>5, <1>6, <1>8, OutsideInv DEF Same, Inner, upload, world

\* check_mpul_ongoing before anything is prepared.
LEMMA CheckInv ==
  ASSUME UploadInv, NEW t \in Tasks, Check_mpul_ongoing(t) PROVE UploadInv'
<1>1. /\ pc[t] = "check"
      /\ UNCHANGED <<upload, world, holder, req, stat, scratch, crashes>>
  BY DEF Check_mpul_ongoing
<1>2. CASE ~ mpul_ongoing(t)
  <2>1. finish(t, "NoSuchUpload") /\ UNCHANGED seen
    BY <1>2 DEF Check_mpul_ongoing
  <2> QED BY <1>1, <2>1, OutsideFinish DEF Codes, Inner, upload, world, UploadInv, TypeOK
<1>3. CASE mpul_ongoing(t)
  <2>1. req[t] \in Reqs /\ op(t) \in Ops /\ op(t) \notin {Create, Abort} /\ code[t] = Nil
    BY <1>1, RequestThere, RequestType DEF UploadInv, Ready, Asking, Answering, Decided
  <2> DEFINE p == CASE op(t) = "UploadPart" -> "upload"
                    [] op(t) = "UploadPartCopy" -> "stat"
                    [] op(t) = Complete -> "verify"
                    [] op(t) = "ListParts" -> "list"
  <2>2. /\ p \in {"upload", "stat", "verify", "list"}
        /\ p = "upload" => op(t) = "UploadPart"
        /\ p = "stat" => op(t) = "UploadPartCopy"
        /\ p = "verify" => op(t) = Complete
        /\ p = "list" => op(t) = "ListParts"
    BY <2>1 DEF Ops, Create, Abort, Complete
  <2>3. go(t, p) /\ seen' = [seen EXCEPT ![t] = info] /\ UNCHANGED code
    BY <1>3 DEF Check_mpul_ongoing, Complete
  <2> HIDE DEF p
  <2>4. pc' \in [Tasks -> PC] /\ pc'[t] = p /\ \A u \in Tasks \ {t} : pc'[u] = pc[u]
    BY <2>2, <2>3, GoType DEF PC
  <2>5. info \in Ids
    BY <1>3 DEF mpul_ongoing, UploadInv, TypeOK, Opt
  <2>6. /\ seen' \in [Tasks -> Opt(Ids \cup Data)] /\ seen'[t] = info
        /\ \A u \in Tasks \ {t} : seen'[u] = seen[u]
    BY <2>3, <2>5 DEF UploadInv, TypeOK, Opt
  <2>7. TypeOK'
    BY <1>1, <2>3, <2>4, <2>6 DEF UploadInv, TypeOK, upload, world
  <2>8. Ready(t)'
    BY <1>1, <2>1, <2>2, <2>3, <2>4, <2>5, <2>6
       DEF Ready, Asking, Answering, PartReady, ListReady, CreateReady, op
  <2> QED BY <1>1, <2>2, <2>3, <2>4, <2>6, <2>7, <2>8, OutsideInv DEF Same, Inner, upload, world
<1> QED BY <1>2, <1>3

\* The body of UploadPart becomes its scratch file.
LEMMA UploadScratchInv ==
  ASSUME UploadInv, NEW t \in Tasks, Upload_scratch(t) PROVE UploadInv'
<1> DEFINE f == [ino |-> 0, data |-> req[t].data]
<1>1. /\ pc[t] = "upload" /\ go(t, "lock") /\ scratch' = [scratch EXCEPT ![t] = f]
      /\ UNCHANGED <<upload, world, holder, req, seen, stat, code, crashes>>
  BY DEF Upload_scratch
<1>2. req[t] \in Reqs /\ op(t) = "UploadPart" /\ code[t] = Nil
  BY <1>1, RequestThere DEF UploadInv, Ready, Asking, Answering, Decided
<1>3. req[t].data \in Data /\ req[t].data \in sent(req[t].no)
  BY <1>2, RequestType DEF sent, op
<1>4. f \in File /\ f.data = req[t].data /\ f.ino = 0
  BY <1>3 DEF File
<1> HIDE DEF f
<1>5. pc' \in [Tasks -> PC] /\ pc'[t] = "lock" /\ \A u \in Tasks \ {t} : pc'[u] = pc[u]
  BY <1>1, GoType DEF PC
<1>6. /\ scratch' \in [Tasks -> Opt(Scratch)] /\ scratch'[t] = f
      /\ \A u \in Tasks \ {t} : scratch'[u] = scratch[u]
  BY <1>1, <1>4 DEF UploadInv, TypeOK, Opt, Scratch
<1>7. TypeOK'
  BY <1>1, <1>5, <1>6 DEF UploadInv, TypeOK, upload, world
<1>8. Ready(t)'
  BY <1>1, <1>2, <1>3, <1>4, <1>5, <1>6
     DEF Ready, Asking, Answering, PartReady, ListReady, CreateReady, op, Complete
<1> QED BY <1>1, <1>5, <1>6, <1>7, <1>8, OutsideInv DEF Same, Inner, upload, world

\* UploadPartCopy reads the status and the ETag of its source, and copies it.
LEMMA CopyInv ==
  ASSUME UploadInv, NEW t \in Tasks,
         Fetch_source_status(t) \/ Fetch_source_etag(t) \/ Copy_scratch(t)
  PROVE  UploadInv'
<1>1. /\ pc[t] \in {"stat", "etag", "copy"}
      /\ UNCHANGED <<upload, world, holder, req, seen, crashes>>
  BY DEF Fetch_source_status, Fetch_source_etag, Copy_scratch
<1>2. req[t] \in Reqs /\ op(t) = "UploadPartCopy" /\ code[t] = Nil
  BY <1>1, RequestThere DEF UploadInv, Ready, Asking, Answering, Decided
<1>3. CASE Fetch_source_status(t)
  <2>1. /\ stat' = [stat EXCEPT ![t] = source] /\ UNCHANGED scratch
        /\ IF source = Nil THEN finish(t, "NoSuchKey") ELSE go(t, "etag") /\ UNCHANGED code
    BY <1>3 DEF Fetch_source_status
  <2>2. /\ stat' \in [Tasks -> Opt(File \cup Object \cup Ids)]
        /\ \A u \in Tasks \ {t} : stat'[u] = stat[u]
    BY <2>1 DEF UploadInv, TypeOK, Opt
  <2>3. CASE source = Nil
    BY <1>1, <2>1, <2>2, <2>3, OutsideFinish DEF Codes, Inner, upload, world
  <2>4. CASE source # Nil
    <3>1. pc' \in [Tasks -> PC] /\ pc'[t] = "etag" /\ \A u \in Tasks \ {t} : pc'[u] = pc[u]
      BY <2>1, <2>4, GoType DEF PC
    <3>2. TypeOK'
      BY <1>1, <2>1, <2>2, <2>4, <3>1 DEF UploadInv, TypeOK, upload, world
    <3>3. Ready(t)'
      BY <1>1, <1>2, <2>1, <2>4, <3>1
         DEF Ready, Asking, Answering, PartReady, ListReady, CreateReady, op
    <3> QED BY <1>1, <2>1, <2>2, <2>4, <3>1, <3>2, <3>3, OutsideInv DEF Same, Inner, upload, world
  <2> QED BY <2>3, <2>4
<1>4. CASE Fetch_source_etag(t)
  <2>1. /\ UNCHANGED <<stat, scratch>>
        /\ \/ go(t, "copy") /\ UNCHANGED code
           \/ \E c \in {"InternalError", "PreconditionFailed"} : finish(t, c)
    BY <1>4 DEF Fetch_source_etag
  <2>2. CASE \E c \in {"InternalError", "PreconditionFailed"} : finish(t, c)
    BY <1>1, <2>1, <2>2, OutsideFinish DEF Codes, Inner, upload, world, UploadInv, TypeOK
  <2>3. CASE go(t, "copy") /\ UNCHANGED code
    <3>1. pc' \in [Tasks -> PC] /\ pc'[t] = "copy" /\ \A u \in Tasks \ {t} : pc'[u] = pc[u]
      BY <2>3, GoType DEF PC
    <3>2. TypeOK'
      BY <1>1, <2>1, <2>3, <3>1 DEF UploadInv, TypeOK, upload, world
    <3>3. Ready(t)'
      BY <1>1, <1>2, <2>1, <2>3, <3>1
         DEF Ready, Asking, Answering, PartReady, ListReady, CreateReady, op
    <3> QED BY <1>1, <2>1, <2>3, <3>1, <3>2, <3>3, OutsideInv DEF Same, Inner, upload, world
  <2> QED BY <2>1, <2>2, <2>3
<1>5. CASE Copy_scratch(t)
  <2>1. UNCHANGED stat
    BY <1>5 DEF Copy_scratch
  <2>2. CASE source = Nil
    <3>1. finish(t, "InternalError") /\ UNCHANGED scratch
      BY <1>5, <2>2 DEF Copy_scratch
    <3> QED BY <1>1, <2>1, <3>1, OutsideFinish DEF Codes, Inner, upload, world, UploadInv, TypeOK
  <2>3. CASE source # Nil
    <3> DEFINE f == [ino |-> IF req[t].range THEN 0 ELSE source.ino, data |-> source.data]
    <3>1. scratch' = [scratch EXCEPT ![t] = f] /\ go(t, "lock") /\ UNCHANGED code
      BY <1>5, <2>3 DEF Copy_scratch
    <3>2. source \in File
      BY <2>3 DEF UploadInv, TypeOK, Opt
    <3>3. f \in File /\ f.data = source.data /\ (req[t].range => f.ino = 0)
      BY <3>2 DEF File
    <3>4. f.data \in sent(req[t].no)
      BY <1>2, <3>2, <3>3 DEF sent, op, File
    <3> HIDE DEF f
    <3>5. pc' \in [Tasks -> PC] /\ pc'[t] = "lock" /\ \A u \in Tasks \ {t} : pc'[u] = pc[u]
      BY <3>1, GoType DEF PC
    <3>6. /\ scratch' \in [Tasks -> Opt(Scratch)] /\ scratch'[t] = f
          /\ \A u \in Tasks \ {t} : scratch'[u] = scratch[u]
      BY <3>1, <3>3 DEF UploadInv, TypeOK, Opt, Scratch
    <3>7. TypeOK'
      BY <1>1, <2>1, <3>1, <3>5, <3>6 DEF UploadInv, TypeOK, upload, world
    <3>8. Ready(t)'
      BY <1>1, <1>2, <2>1, <3>1, <3>3, <3>4, <3>5, <3>6
         DEF Ready, Asking, Answering, PartReady, ListReady, CreateReady, op, Complete
    <3> QED BY <1>1, <2>1, <3>1, <3>5, <3>6, <3>7, <3>8, OutsideInv DEF Same, Inner, upload, world
  <2> QED BY <2>2, <2>3
<1> QED BY <1>3, <1>4, <1>5

\* The parts that a request lists.
Item == [no : Numbers, etag : Data]

LEMMA ItemType ==
  ASSUME NEW l \in Seq(Item), NEW i \in 1..Len(l)
  PROVE  l[i].no \in Numbers /\ l[i].etag \in Data
<1>1. l[i] \in Item
  OBVIOUS
<1> QED BY <1>1 DEF Item

\* The checks of a list give a response code, and OK only for a list that is
\* sorted, not empty, and in agreement with the catalog.
LEMMA CheckParts ==
  ASSUME UploadInv, NEW l \in Seq(Item)
  PROVE  /\ check_parts(l, list) \in Codes
         /\ check_parts(l, list) = "OK" =>
              /\ l # <<>> /\ sorted(l)
              /\ \A i \in 1..Len(l) : l[i].etag \in sent(l[i].no)
<1>1. check_parts(l, list) \in Codes
  BY DEF check_parts, Codes
<1>2. ASSUME check_parts(l, list) = "OK"
      PROVE  /\ l # <<>> /\ sorted(l) /\ list # Nil
             /\ \A i \in DOMAIN l : list[l[i].no] = l[i].etag
  BY <1>2 DEF check_parts
<1>3. ASSUME check_parts(l, list) = "OK", NEW i \in 1..Len(l)
      PROVE  l[i].etag \in sent(l[i].no)
  <2>1. list[l[i].no] = l[i].etag /\ l[i].no \in Numbers /\ l[i].etag \in Data /\ list # Nil
    BY <1>2, <1>3, ItemType
  <2>2. list[l[i].no] # Nil
    BY <2>1, MultipartAssumption
  <2> QED BY <2>1, <2>2 DEF UploadInv, FilesSent
<1> QED BY <1>1, <1>2, <1>3

\* CompleteMultipartUpload checks its list, and opens its scratch file.
LEMMA VerifyInv ==
  ASSUME UploadInv, NEW t \in Tasks, Verify_parts(t) PROVE UploadInv'
<1> DEFINE c == check_parts(req[t].list, list)
           l == req[t].list
<1>1. /\ pc[t] = "verify"
      /\ UNCHANGED <<upload, world, holder, req, seen, stat, crashes>>
      /\ IF c = "OK"
         THEN /\ scratch' = [scratch EXCEPT ![t] = [ino |-> 0, data |-> <<>>]]
              /\ go(t, "concat") /\ UNCHANGED code
         ELSE finish(t, c) /\ UNCHANGED scratch
  BY DEF Verify_parts
<1>2. req[t] \in Reqs /\ op(t) = Complete /\ code[t] = Nil /\ seen[t] \in Ids
  BY <1>1, RequestThere DEF UploadInv, Ready, Asking, Answering, ListReady, Decided
<1>3. l \in Seq(Item)
  BY <1>2, RequestType DEF Item
<1>4. /\ c \in Codes
      /\ c = "OK" => /\ l # <<>> /\ sorted(l)
                     /\ \A i \in 1..Len(l) : l[i].etag \in sent(l[i].no)
  BY <1>3, CheckParts
<1> HIDE DEF c
<1>5. CASE c # "OK"
  BY <1>1, <1>4, <1>5, OutsideFinish DEF Inner, upload, world, UploadInv, TypeOK
<1>6. CASE c = "OK"
  <2> DEFINE f == [ino |-> 0, data |-> <<>>]
  <2>1. f \in [ino : {0}, data : Seq(Data)] /\ f.data = <<>>
    OBVIOUS
  <2>2. scratch' = [scratch EXCEPT ![t] = f] /\ go(t, "concat") /\ UNCHANGED code
    BY <1>1, <1>6
  <2> HIDE DEF f
  <2>3. pc' \in [Tasks -> PC] /\ pc'[t] = "concat" /\ \A u \in Tasks \ {t} : pc'[u] = pc[u]
    BY <2>2, GoType DEF PC
  <2>4. /\ scratch' \in [Tasks -> Opt(Scratch)] /\ scratch'[t] = f
        /\ \A u \in Tasks \ {t} : scratch'[u] = scratch[u]
    BY <2>1, <2>2 DEF UploadInv, TypeOK, Opt, Scratch
  <2>5. TypeOK'
    BY <1>1, <2>2, <2>3, <2>4 DEF UploadInv, TypeOK, upload, world
  <2>6. ListReady(t)'
    BY <1>1, <1>2, <1>3, <1>4, <1>6, <2>1, <2>3, <2>4 DEF ListReady, op
  <2>7. Ready(t)'
    BY <1>1, <1>2, <2>2, <2>3, <2>6
       DEF Ready, Asking, Answering, PartReady, CreateReady, op, Uploading, Complete, Create
  <2> QED BY <1>1, <2>2, <2>3, <2>4, <2>5, <2>7, OutsideInv DEF Same, Inner, upload, world
<1> QED BY <1>5, <1>6

\* concat_parts_as_scratch appends the next part, whose data was sent for it.
LEMMA ConcatInv ==
  ASSUME UploadInv, NEW t \in Tasks, Concat_part(t) PROVE UploadInv'
<1> DEFINE d == scratch[t].data
           l == req[t].list
           i == Len(d) + 1
           f == part[l[i].no]
<1>1. /\ pc[t] = "concat"
      /\ UNCHANGED <<upload, world, holder, req, seen, stat, crashes>>
      /\ IF f = Nil THEN finish(t, "InternalError") /\ UNCHANGED scratch
         ELSE /\ scratch' = [scratch EXCEPT ![t].data = Append(@, f.data)]
              /\ go(t, IF i < Len(l) THEN "concat" ELSE IF req[t].fresh THEN "target" ELSE "lock")
              /\ UNCHANGED code
  BY DEF Concat_part
<1>2. req[t] \in Reqs /\ op(t) = Complete /\ code[t] = Nil /\ ListReady(t)
  BY <1>1, RequestThere DEF UploadInv, Ready, Asking, Answering, Decided
<1>3. /\ seen[t] \in Ids /\ scratch[t] \in [ino : {0}, data : Seq(Data)]
      /\ sorted(l) /\ Len(d) < Len(l)
      /\ \A j \in 1..Len(l) : l[j].etag \in sent(l[j].no)
      /\ \A j \in 1..Len(d) : d[j] \in sent(l[j].no)
  BY <1>1, <1>2 DEF ListReady
<1>4. l \in Seq(Item) /\ d \in Seq(Data)
  BY <1>2, <1>3, RequestType DEF Item
<1>5. i \in 1..Len(l) /\ l[i].no \in Numbers
  <2>1. i \in 1..Len(l)
    BY <1>3, <1>4
  <2> QED BY <1>4, <2>1, ItemType
<1>6. CASE f = Nil
  BY <1>1, <1>6, OutsideFinish DEF Codes, Inner, upload, world, UploadInv, TypeOK
<1>7. CASE f # Nil
  <2>1. f \in Part /\ f.data \in sent(l[i].no) /\ f.data \in Data
    BY <1>5, <1>7, SentData DEF UploadInv, TypeOK, FilesSent, Opt
  <2> DEFINE e == Append(d, f.data)
             g == [scratch[t] EXCEPT !.data = e]
             p == IF i < Len(l) THEN "concat" ELSE IF req[t].fresh THEN "target" ELSE "lock"
  <2>2. e \in Seq(Data) /\ Len(e) = i /\ \A j \in 1..Len(e) : e[j] \in sent(l[j].no)
    <3> HIDE DEF d, l, f
    <3> QED BY <1>3, <1>4, <2>1
  <2>3. scratch' = [scratch EXCEPT ![t] = g] /\ go(t, p) /\ UNCHANGED code
    BY <1>1, <1>7
  <2>4. g \in [ino : {0}, data : Seq(Data)] /\ g.data = e
    BY <1>3, <2>2
  <2>5. p \in {"concat", "target", "lock"} /\ (p = "concat" <=> i < Len(l))
    OBVIOUS
  <2> HIDE DEF e, g, p, f
  <2>6. pc' \in [Tasks -> PC] /\ pc'[t] = p /\ \A u \in Tasks \ {t} : pc'[u] = pc[u]
    BY <2>3, <2>5, GoType DEF PC
  <2>7. /\ scratch' \in [Tasks -> Opt(Scratch)] /\ scratch'[t] = g
        /\ \A u \in Tasks \ {t} : scratch'[u] = scratch[u]
    BY <2>3, <2>4 DEF UploadInv, TypeOK, Opt, Scratch
  <2>8. TypeOK'
    BY <1>1, <2>3, <2>6, <2>7 DEF UploadInv, TypeOK, upload, world
  <2>9. ListReady(t)'
    <3>1. IF pc'[t] = "concat" THEN Len(e) < Len(l) ELSE Len(e) = Len(l)
      BY <1>3, <1>4, <1>5, <2>2, <2>5, <2>6
    <3> QED BY <1>1, <1>2, <1>3, <2>2, <2>4, <2>6, <2>7, <3>1 DEF ListReady, op
  <2>10. Ready(t)'
    BY <1>1, <1>2, <2>3, <2>5, <2>6, <2>9
       DEF Ready, Asking, Answering, PartReady, CreateReady, op, Uploading, Complete, Create
  <2> QED BY <1>1, <2>3, <2>5, <2>6, <2>7, <2>8, <2>10, OutsideInv DEF Same, Inner, upload, world
<1> QED BY <1>6, <1>7

\* The other steps before and after exclusion.
LEMMA AroundInv ==
  ASSUME UploadInv, NEW t \in Tasks,
         \/ Upload_fault(t) \/ Fetch_target_status(t) \/ List_parts(t)
         \/ Access_timeout(t) \/ Discard_scratch_file(t)
  PROVE  UploadInv'
<1>1. CASE Upload_fault(t) \/ Access_timeout(t) \/ List_parts(t)
  <2>1. PICK c \in Codes : finish(t, c)
    BY <1>1 DEF Upload_fault, Access_timeout, List_parts, Codes
  <2>2. /\ pc[t] \in {"upload", "lock", "list"}
        /\ UNCHANGED <<upload, world, holder, req, seen, stat, scratch, crashes>>
    BY <1>1 DEF Upload_fault, Access_timeout, List_parts
  <2> QED BY <2>1, <2>2, OutsideFinish DEF Inner, upload, world, UploadInv, TypeOK
<1>2. CASE Fetch_target_status(t)
  <2>1. /\ pc[t] = "target" /\ go(t, "lock") /\ stat' = [stat EXCEPT ![t] = object]
        /\ UNCHANGED <<upload, world, holder, req, seen, scratch, code, crashes>>
    BY <1>2 DEF Fetch_target_status
  <2>2. pc' \in [Tasks -> PC] /\ pc'[t] = "lock" /\ \A u \in Tasks \ {t} : pc'[u] = pc[u]
    BY <2>1, GoType DEF PC
  <2>3. /\ stat' \in [Tasks -> Opt(File \cup Object \cup Ids)]
        /\ \A u \in Tasks \ {t} : stat'[u] = stat[u]
    BY <2>1 DEF UploadInv, TypeOK, Opt
  <2>4. TypeOK'
    BY <2>1, <2>2, <2>3 DEF UploadInv, TypeOK, upload, world
  <2>5. /\ req[t] \in Reqs /\ op(t) = Complete /\ code[t] = Nil /\ ListReady(t)
    BY <2>1, RequestThere DEF UploadInv, Ready, Asking, Answering, Decided
  <2>6. ListReady(t)'
    BY <2>1, <2>2, <2>5 DEF ListReady, op
  <2>7. Ready(t)'
    BY <2>1, <2>2, <2>5, <2>6
       DEF Ready, Asking, Answering, PartReady, CreateReady, op, Uploading, Complete, Create
  <2> QED BY <2>1, <2>2, <2>3, <2>4, <2>7, OutsideInv DEF Same, Inner, upload, world
<1>3. CASE Discard_scratch_file(t)
  <2>1. /\ pc[t] = "discard" /\ go(t, "done") /\ scratch' = [scratch EXCEPT ![t] = Nil]
        /\ UNCHANGED <<upload, world, holder, req, seen, stat, code, crashes>>
    BY <1>3 DEF Discard_scratch_file
  <2>2. pc' \in [Tasks -> PC] /\ pc'[t] = "done" /\ \A u \in Tasks \ {t} : pc'[u] = pc[u]
    BY <2>1, GoType DEF PC
  <2>3. /\ scratch' \in [Tasks -> Opt(Scratch)]
        /\ \A u \in Tasks \ {t} : scratch'[u] = scratch[u]
    BY <2>1 DEF UploadInv, TypeOK, Opt
  <2>4. TypeOK'
    BY <2>1, <2>2, <2>3 DEF UploadInv, TypeOK, upload, world
  <2>5. Ready(t)'
    BY <2>1, <2>2, RequestThere, FinishReady
  <2> QED BY <2>1, <2>2, <2>3, <2>4, <2>5, OutsideInv DEF Same, Inner, upload, world
<1> QED BY <1>1, <1>2, <1>3
-----------------------------------------------------------------------------
\* Object and request are the same.
LEMMA ObjectSame ==
  ASSUME UploadInv, object' = object, req' = req,
         \A u \in Tasks : pc[u] # "idle" => pc'[u] # "idle"
  PROVE  ObjectSent'
<1>1. object # Nil => object.by \in Tasks
  BY DEF UploadInv, TypeOK, Opt, Object
<1> QED BY <1>1 DEF UploadInv, ObjectSent, op

\* A request in exclusion that returns keeps the invariant if the catalog it
\* leaves has data that was sent.
LEMMA InsideFinish ==
  ASSUME UploadInv, NEW t \in Tasks, NEW c \in Codes, finish(t, c),
         pc[t] \in Inner,
         UNCHANGED <<dir, info, part, object, source, puts, holder, req, seen, stat, scratch,
                     crashes>>,
         list' = Nil \/ list' \in [Numbers -> Opt(Data)],
         list' # Nil => \A n \in Numbers : list'[n] # Nil => list'[n] \in sent(n)
  PROVE  UploadInv'
<1>1. holder = t
  BY DEF UploadInv, Exclusive
<1>2. /\ code' \in [Tasks -> Opt(Codes)] /\ pc' \in [Tasks -> PC]
      /\ pc'[t] = "unlock"
      /\ \A u \in Tasks \ {t} : pc'[u] = pc[u] /\ code'[u] = code[u]
  BY <1>1, FinishType
<1>3. TypeOK'
  BY <1>2 DEF UploadInv, TypeOK
<1>4. Ready(t)'
  BY <1>2, RequestThere, FinishReady DEF Inner
<1>5. Owner(t)'
  BY <1>2 DEF Owner
<1>6. FilesSent'
  BY DEF UploadInv, FilesSent
<1>7. ObjectSent'
  BY <1>2, ObjectSame
<1>8. pc'[t] \in Inner /\ \A u \in Tasks \ {t} : Same(u)
  BY <1>2 DEF Same, Inner
<1> QED BY <1>3, <1>4, <1>5, <1>6, <1>7, <1>8, InsideInv DEF UploadInv

\* A request in exclusion that goes on keeps the invariant if it is ready, and
\* knows what it has to about the directory, where it comes to.
LEMMA InsideGo ==
  ASSUME UploadInv, NEW t \in Tasks, NEW p \in Inner, go(t, p), pc[t] \in Inner,
         \A u \in Tasks \ {t} : seen'[u] = seen[u] /\ stat'[u] = stat[u]
                                /\ scratch'[u] = scratch[u] /\ code'[u] = code[u],
         UNCHANGED <<object, source, puts, holder, req, crashes>>,
         dir' \in BOOLEAN, info' \in Opt(Ids), info' # Nil => dir',
         list' = Nil \/ list' \in [Numbers -> Opt(Data)],
         part' \in [Numbers -> Opt(Part)],
         seen' \in [Tasks -> Opt(Ids \cup Data)],
         stat' \in [Tasks -> Opt(File \cup Object \cup Ids)],
         scratch' \in [Tasks -> Opt(Scratch)],
         code' \in [Tasks -> Opt(Codes)],
         FilesSent',
         pc'[t] = p => Ready(t)' /\ Owner(t)'
  PROVE  UploadInv'
<1>1. p \in PC
  BY DEF PC, Inner
<1>2. pc' \in [Tasks -> PC] /\ pc'[t] = p /\ \A u \in Tasks \ {t} : pc'[u] = pc[u]
  BY <1>1, GoType
<1>3. TypeOK'
  BY <1>2 DEF UploadInv, TypeOK
<1>4. ObjectSent'
  BY <1>2, ObjectSame DEF Inner
<1>5. \A u \in Tasks \ {t} : Same(u)
  BY <1>2 DEF Same
<1> QED BY <1>2, <1>3, <1>4, <1>5, InsideInv

\* The tests in exclusion.
LEMMA RecheckInv ==
  ASSUME UploadInv, NEW t \in Tasks,
         Recheck_source(t) \/ Recheck_mpul(t) \/ Recheck_target(t) \/ Place_fault(t) \/ Update_fault(t)
  PROVE  UploadInv'
<1>1. /\ UNCHANGED <<upload, world, holder, req, seen, stat, scratch, crashes>>
      /\ pc[t] \in {"source", "recheck", "guard", "place", "rename", "catalog"}
  BY DEF Recheck_source, Recheck_mpul, Recheck_target, Place_fault, Update_fault, renaming
<1>2. CASE \E c \in Codes : finish(t, c)
  BY <1>1, <1>2, InsideFinish DEF Inner, upload, world, UploadInv, TypeOK, FilesSent
<1>3. CASE ~ \E c \in Codes : finish(t, c)
  <2>1. Recheck_source(t) \/ Recheck_mpul(t)
    BY <1>3 DEF Recheck_target, Place_fault, Update_fault, Codes
  <2>2. /\ UNCHANGED code
        /\ \/ pc[t] = "source" /\ go(t, "recheck")
           \/ pc[t] = "recheck" /\ op(t) \in Uploading /\ go(t, "place") /\ mpul_ongoing(t)
           \/ pc[t] = "recheck" /\ op(t) \notin Uploading /\ go(t, "uninfo") /\ mpul_ongoing(t)
    BY <1>3, <2>1 DEF Recheck_source, Recheck_mpul, Codes
  <2>3. PICK p \in {"recheck", "place", "uninfo"} :
          /\ go(t, p)
          /\ p = "recheck" => pc[t] = "source"
          /\ p = "place" => pc[t] = "recheck" /\ op(t) \in Uploading /\ mpul_ongoing(t)
          /\ p = "uninfo" => pc[t] = "recheck" /\ op(t) \notin Uploading /\ mpul_ongoing(t)
    BY <2>2
  <2>4. Ready(t) /\ req[t] \in Reqs
    BY <1>1, RequestThere DEF UploadInv
  <2>5. ASSUME pc'[t] = p PROVE Ready(t)' /\ Owner(t)'
    <3>1. Asking(t)' /\ Answering(t)'
      BY <1>1, <2>2, <2>3, <2>4, <2>5
         DEF Ready, Asking, Answering, Decided, op, Uploading, Create, Abort, Complete
    <3>2. PartReady(t)' /\ ListReady(t)' /\ CreateReady(t)'
      BY <1>1, <2>3, <2>4, <2>5
         DEF Ready, Asking, PartReady, ListReady, CreateReady, op, Uploading, Complete
    <3>3. Owner(t)'
      BY <1>1, <2>3, <2>5 DEF Owner, mpul_ongoing, op, upload
    <3> QED BY <3>1, <3>2, <3>3 DEF Ready
  <2>6. FilesSent'
    BY <1>1 DEF UploadInv, FilesSent, upload
  <2> QED BY <1>1, <2>2, <2>3, <2>5, <2>6, InsideGo DEF Inner, UploadInv, TypeOK, upload, world
<1> QED BY <1>2, <1>3

\* CreateMultipartUpload: the directory, the info file, the catalog, and what
\* happens when one of the files cannot be stored.
LEMMA CreateInv ==
  ASSUME UploadInv, NEW t \in Tasks,
         \/ Create_mpul_directory(t) \/ Store_mpul_info(t) \/ Create_fault(t)
         \/ Store_mpul_catalog(t)
  PROVE  UploadInv'
<1>1. /\ UNCHANGED <<part, world, holder, req, scratch, crashes>>
      /\ pc[t] \in {"mkdir", "info", "catalog"}
  BY DEF Create_mpul_directory, Store_mpul_info, Create_fault, Store_mpul_catalog, upload
<1>2. Ready(t) /\ Owner(t) /\ req[t] \in Reqs /\ code[t] = Nil
  BY <1>1, RequestThere DEF UploadInv, Ready, Answering, Decided
<1>3. op(t) = Create
  BY <1>2 DEF Create_mpul_directory, Store_mpul_info, Create_fault, Store_mpul_catalog,
       Ready, Asking, Create
<1>4. CASE Create_mpul_directory(t)
  <2>1. PICK n \in Ids :
          IF n = info THEN finish(t, "InternalError") /\ UNCHANGED <<dir, seen, stat>>
          ELSE /\ dir' = TRUE /\ go(t, "info") /\ UNCHANGED code
               /\ seen' = [seen EXCEPT ![t] = n]
               /\ stat' = [stat EXCEPT ![t] = info]
    BY <1>4 DEF Create_mpul_directory
  <2>2. UNCHANGED <<info, list>>
    BY <1>4 DEF Create_mpul_directory
  <2>3. CASE n = info
    BY <1>1, <2>1, <2>2, <2>3, InsideFinish DEF Codes, Inner, world, UploadInv, TypeOK, FilesSent
  <2>4. CASE n # info
    <3>1. /\ seen' \in [Tasks -> Opt(Ids \cup Data)] /\ seen'[t] = n
          /\ stat' \in [Tasks -> Opt(File \cup Object \cup Ids)] /\ stat'[t] = info
          /\ \A u \in Tasks \ {t} : seen'[u] = seen[u] /\ stat'[u] = stat[u]
      BY <2>1, <2>4 DEF UploadInv, TypeOK, Opt
    <3>2. ASSUME pc'[t] = "info" PROVE Ready(t)' /\ Owner(t)'
      BY <1>1, <1>2, <1>3, <2>1, <2>2, <2>4, <3>1, <3>2
         DEF Ready, Asking, Answering, PartReady, ListReady, CreateReady, Owner, op, Decided,
             UploadInv, TypeOK
    <3>3. FilesSent'
      BY <1>1, <2>2 DEF UploadInv, FilesSent
    <3> QED BY <1>1, <2>1, <2>2, <2>4, <3>1, <3>2, <3>3, InsideGo
            DEF Inner, world, UploadInv, TypeOK
  <2> QED BY <2>3, <2>4
<1>5. CASE Store_mpul_info(t)
  <2>1. /\ pc[t] = "info" /\ info' = seen[t] /\ go(t, "catalog")
        /\ UNCHANGED <<dir, list, seen, stat, code>>
    BY <1>5 DEF Store_mpul_info
  <2>2. seen[t] \in Ids /\ stat[t] \in Opt(Ids) /\ dir
    BY <1>2, <1>3, <2>1 DEF Ready, CreateReady, Owner
  <2>3. ASSUME pc'[t] = "catalog" PROVE Ready(t)' /\ Owner(t)'
    BY <1>1, <1>2, <1>3, <2>1, <2>2, <2>3
       DEF Ready, Asking, Answering, PartReady, ListReady, CreateReady, Owner, op, Decided,
           Uploading, Create
  <2>4. FilesSent'
    BY <1>1, <2>1 DEF UploadInv, FilesSent
  <2> QED BY <1>1, <2>1, <2>2, <2>3, <2>4, InsideGo DEF Inner, world, UploadInv, TypeOK, Opt
<1>6. CASE Create_fault(t)
  <2>1. /\ code' = [code EXCEPT ![t] = "InternalError"] /\ go(t, "uninfo")
        /\ UNCHANGED <<dir, info, list, seen, stat>>
    BY <1>6 DEF Create_fault, upload
  <2>2. /\ code' \in [Tasks -> Opt(Codes)] /\ code'[t] = "InternalError"
        /\ \A u \in Tasks \ {t} : code'[u] = code[u]
    BY <2>1 DEF UploadInv, TypeOK, Opt, Codes
  <2>3. ASSUME pc'[t] = "uninfo" PROVE Ready(t)' /\ Owner(t)'
    BY <1>1, <1>2, <1>3, <2>1, <2>2, <2>3
       DEF Ready, Asking, Answering, PartReady, ListReady, CreateReady, Owner, op, Decided,
           Create, Abort, Complete
  <2>4. FilesSent'
    BY <1>1, <2>1 DEF UploadInv, FilesSent
  <2> QED BY <1>1, <2>1, <2>2, <2>3, <2>4, InsideGo DEF Inner, world, UploadInv, TypeOK
<1>7. CASE Store_mpul_catalog(t)
  <2>1. /\ list' = NoParts /\ finish(t, "OK") /\ UNCHANGED <<dir, info, seen, stat>>
    BY <1>7 DEF Store_mpul_catalog
  <2>2. NoParts \in [Numbers -> Opt(Data)] /\ \A n \in Numbers : NoParts[n] = Nil
    BY DEF NoParts, Opt
  <2> QED BY <1>1, <2>1, <2>2, InsideFinish DEF Codes, Inner, world
<1> QED BY <1>4, <1>5, <1>6, <1>7

\* A part file is placed, and the catalog updated.
LEMMA PartInv ==
  ASSUME UploadInv, NEW t \in Tasks,
         Place_remove_same(t) \/ Place_part(t) \/ Update_mpul_catalog(t)
  PROVE  UploadInv'
<1> DEFINE n == req[t].no
<1>1. /\ UNCHANGED <<dir, info, world, holder, req, stat, crashes>>
      /\ pc[t] \in {"place", "rename", "catalog"}
      /\ op(t) \in Uploading
  BY DEF Place_remove_same, Place_part, Update_mpul_catalog, renaming, same_file
<1>2. Ready(t) /\ Owner(t) /\ req[t] \in Reqs /\ code[t] = Nil
  BY <1>1, RequestThere DEF UploadInv, Ready, Answering, Decided
<1>3. n \in Numbers /\ info = req[t].uid /\ req[t].uid \in Ids /\ op(t) \notin {Create, Complete}
  BY <1>1, <1>2, RequestType DEF Owner, Uploading, Create, Complete
<1>4. CASE Place_remove_same(t)
  <2>1. /\ part' = [part EXCEPT ![n] = Nil] /\ go(t, "rename") /\ pc[t] = "place"
        /\ UNCHANGED <<list, seen, scratch, code>>
    BY <1>4 DEF Place_remove_same
  <2>2. part' \in [Numbers -> Opt(Part)] /\ FilesSent'
    BY <1>3, <2>1 DEF UploadInv, TypeOK, FilesSent, Opt
  <2>3. ASSUME pc'[t] = "rename" PROVE Ready(t)' /\ Owner(t)'
    BY <1>1, <1>2, <1>3, <2>1, <2>3
       DEF Ready, Asking, Answering, PartReady, ListReady, CreateReady, Owner, op, Decided
  <2> QED BY <1>1, <2>1, <2>2, <2>3, InsideGo DEF Inner, world, UploadInv, TypeOK
<1>5. CASE Place_part(t)
  <2> DEFINE f == [ino |-> scratch[t].ino, data |-> scratch[t].data, uid |-> req[t].uid]
  <2>1. /\ part' = [part EXCEPT ![n] = f] /\ go(t, "catalog")
        /\ seen' = [seen EXCEPT ![t] = scratch[t].data]
        /\ scratch' = [scratch EXCEPT ![t] = Nil]
        /\ UNCHANGED <<list, code>>
    BY <1>5 DEF Place_part
  <2>2. pc[t] \in {"place", "rename"}
    BY <1>5 DEF Place_part, renaming
  <2>3. /\ scratch[t] \in File /\ scratch[t].data \in sent(n) /\ scratch[t].data \in Data
        /\ op(t) = "UploadPart" => scratch[t].data = req[t].data
    BY <1>1, <1>2, <2>2, SentData DEF Ready, PartReady
  <2>4. f \in Part /\ f.data \in sent(n)
    BY <1>3, <2>3 DEF Part, File
  <2>5. f # Nil
    BY <2>4, MultipartAssumption
  <2> HIDE DEF f
  <2>6. part' \in [Numbers -> Opt(Part)] /\ part'[n] # Nil /\ FilesSent'
    BY <1>3, <2>1, <2>4, <2>5 DEF UploadInv, TypeOK, FilesSent, Opt
  <2>7. /\ seen' \in [Tasks -> Opt(Ids \cup Data)] /\ seen'[t] = scratch[t].data
        /\ scratch' \in [Tasks -> Opt(Scratch)]
        /\ \A u \in Tasks \ {t} : seen'[u] = seen[u] /\ scratch'[u] = scratch[u]
    BY <2>1, <2>3 DEF UploadInv, TypeOK, Opt
  <2>8. ASSUME pc'[t] = "catalog" PROVE Ready(t)' /\ Owner(t)'
    BY <1>1, <1>2, <1>3, <2>1, <2>3, <2>6, <2>7, <2>8
       DEF Ready, Asking, Answering, PartReady, ListReady, CreateReady, Owner, op, Decided
  <2> QED BY <1>1, <2>1, <2>6, <2>7, <2>8, InsideGo DEF Inner, world, UploadInv, TypeOK
<1>6. CASE Update_mpul_catalog(t)
  <2>1. /\ pc[t] = "catalog" /\ UNCHANGED <<part, seen, scratch>>
        /\ list' = IF list = Nil THEN Nil ELSE [list EXCEPT ![n] = seen[t]]
        /\ \E c \in Codes : finish(t, c)
    BY <1>6 DEF Update_mpul_catalog, Codes
  <2>2. seen[t] \in sent(n) /\ seen[t] \in Data
    BY <1>1, <1>2, <2>1, SentData DEF Ready, PartReady
  <2>3. /\ list' = Nil \/ list' \in [Numbers -> Opt(Data)]
        /\ list' # Nil => \A m \in Numbers : list'[m] # Nil => list'[m] \in sent(m)
    BY <1>3, <2>1, <2>2 DEF UploadInv, TypeOK, FilesSent, Opt
  <2> QED BY <1>1, <2>1, <2>3, InsideFinish DEF Inner, world
<1> QED BY <1>4, <1>5, <1>6

\* The scratch file of a completion becomes the object.
LEMMA PlaceObjectInv ==
  ASSUME UploadInv, NEW t \in Tasks, Place_object(t) PROVE UploadInv'
<1> DEFINE o == [by |-> t, data |-> scratch[t].data, meta |-> seen[t]]
<1>1. /\ object' = o /\ go(t, "uninfo") /\ op(t) = Complete
      /\ scratch' = [scratch EXCEPT ![t] = Nil]
      /\ code' = [code EXCEPT ![t] = "OK"]
      /\ UNCHANGED <<upload, source, puts, holder, req, seen, stat, crashes>>
      /\ pc[t] \in {"place", "rename"}
  BY DEF Place_object, Complete, renaming
<1>2. Ready(t) /\ req[t] \in Reqs
  BY <1>1, RequestThere DEF UploadInv
<1>3. pc[t] = "place"
  BY <1>1, <1>2 DEF Ready, Asking, Uploading, Complete
<1>4. /\ seen[t] \in Ids /\ scratch[t] \in [ino : {0}, data : Seq(Data)]
      /\ sorted(req[t].list) /\ Len(scratch[t].data) = Len(req[t].list)
      /\ \A i \in 1..Len(req[t].list) : req[t].list[i].etag \in sent(req[t].list[i].no)
      /\ \A i \in 1..Len(scratch[t].data) : scratch[t].data[i] \in sent(req[t].list[i].no)
  BY <1>1, <1>2, <1>3 DEF Ready, ListReady
<1>5. o \in Object /\ o.by = t /\ o.data = scratch[t].data
  BY <1>4 DEF Object
<1> HIDE DEF o
<1>6. pc' \in [Tasks -> PC] /\ pc'[t] = "uninfo" /\ \A u \in Tasks \ {t} : pc'[u] = pc[u]
  BY <1>1, GoType DEF PC
<1>7. /\ scratch' \in [Tasks -> Opt(Scratch)]
      /\ code' \in [Tasks -> Opt(Codes)] /\ code'[t] = "OK"
      /\ \A u \in Tasks \ {t} : scratch'[u] = scratch[u] /\ code'[u] = code[u]
  BY <1>1 DEF UploadInv, TypeOK, Opt, Codes
<1>8. TypeOK'
  BY <1>1, <1>5, <1>6, <1>7 DEF UploadInv, TypeOK, upload, Opt
<1>9. Ready(t)'
  BY <1>1, <1>2, <1>6, <1>7
     DEF Ready, Asking, Answering, PartReady, ListReady, CreateReady, op, Decided,
         Create, Abort, Complete
<1>10. Owner(t)'
  BY <1>1, <1>6 DEF Owner, op, Abort, Complete
<1>11. FilesSent' /\ (info # Nil => dir)'
  BY <1>1 DEF UploadInv, FilesSent, upload
<1>12. ObjectSent'
  BY <1>1, <1>4, <1>5, <1>6 DEF ObjectSent, op
<1>13. pc[t] \in Inner /\ pc'[t] \in Inner /\ \A u \in Tasks \ {t} : Same(u)
  BY <1>1, <1>6, <1>7 DEF Inner, Same
<1> QED BY <1>1, <1>8, <1>9, <1>10, <1>11, <1>12, <1>13, InsideInv

\* discard_mpul_directory.
LEMMA RemoveInv ==
  ASSUME UploadInv, NEW t \in Tasks, Remove_mpul_info(t) \/ Remove_all(t) PROVE UploadInv'
<1>1. /\ UNCHANGED <<world, holder, req, seen, stat, scratch, crashes>>
      /\ pc[t] \in {"uninfo", "rmall"}
  BY DEF Remove_mpul_info, Remove_all
<1>2. Ready(t) /\ Owner(t) /\ req[t] \in Reqs
  BY <1>1, RequestThere DEF UploadInv
<1>3. CASE Remove_mpul_info(t)
  <2>1. PICK p \in {"rmall", "unlock"} : go(t, p)
    BY <1>3 DEF Remove_mpul_info
  <2>2. /\ info' = Nil /\ UNCHANGED <<dir, list, part>> /\ pc[t] = "uninfo"
        /\ code' = [code EXCEPT ![t] = IF @ = Nil THEN "OK" ELSE @]
    BY <1>3 DEF Remove_mpul_info
  <2>3. /\ code' \in [Tasks -> Opt(Codes)] /\ code'[t] # Nil
        /\ \A u \in Tasks \ {t} : code'[u] = code[u]
    <3>1. "OK" # Nil
      BY MultipartAssumption DEF Codes
    <3> QED BY <2>2, <3>1 DEF UploadInv, TypeOK, Opt, Codes
  <2>4. ASSUME pc'[t] = p PROVE Ready(t)' /\ Owner(t)'
    BY <1>1, <1>2, <2>1, <2>2, <2>3, <2>4
       DEF Ready, Asking, Answering, PartReady, ListReady, CreateReady, Owner, op, Decided
  <2>5. FilesSent'
    BY <2>2 DEF UploadInv, FilesSent
  <2> QED BY <1>1, <2>1, <2>2, <2>3, <2>4, <2>5, InsideGo DEF Inner, world, UploadInv, TypeOK, Opt
<1>4. CASE Remove_all(t)
  <2>1. UNCHANGED code /\ pc[t] = "rmall" /\ info = Nil
    BY <1>2, <1>4 DEF Remove_all, Owner
  <2>2. PICK p \in {"rmall", "unlock"} : go(t, p)
    <3>1. pc' = pc => go(t, "rmall")
      BY <2>1 DEF go, UploadInv, TypeOK
    <3> QED BY <1>4, <3>1 DEF Remove_all
  <2>3. info' = Nil /\ dir' \in BOOLEAN
    BY <1>4, <2>1 DEF Remove_all, UploadInv, TypeOK
  <2>4. /\ list' = Nil \/ list' = list
        /\ part' \in [Numbers -> Opt(Part)]
        /\ \A n \in Numbers : part'[n] = Nil \/ part'[n] = part[n]
    BY <1>4 DEF Remove_all, UploadInv, TypeOK, Opt
  <2>5. FilesSent'
    BY <2>4 DEF UploadInv, FilesSent
  <2>6. ASSUME pc'[t] = p PROVE Ready(t)' /\ Owner(t)'
    BY <1>1, <1>2, <2>1, <2>2, <2>3, <2>6
       DEF Ready, Asking, Answering, PartReady, ListReady, CreateReady, Owner, op, Decided
  <2> QED BY <1>1, <2>1, <2>2, <2>3, <2>4, <2>5, <2>6, InsideGo
          DEF Inner, world, UploadInv, TypeOK, Opt
<1> QED BY <1>3, <1>4
-----------------------------------------------------------------------------
\* serialize_access and release_access.
LEMMA AccessInv ==
  ASSUME UploadInv, NEW t \in Tasks, Serialize_access(t) \/ Release_access(t) PROVE UploadInv'
<1>1. /\ UNCHANGED <<upload, world, req, seen, stat, scratch, code, crashes>>
      /\ pc[t] \in {"lock", "unlock"}
  BY DEF Serialize_access, Release_access
<1>2. Ready(t) /\ req[t] \in Reqs /\ op(t) \in Ops
  BY <1>1, RequestThere, RequestType DEF UploadInv
<1>3. ASSUME NEW h \in Opt(Tasks), holder' = h, NEW p \in PC, go(t, p),
             pc'[t] = p => Ready(t)' /\ Owner(t)',
             p \in Inner <=> h = t, \A u \in Tasks \ {t} : holder # u /\ h # u, p # "idle"
      PROVE  UploadInv'
  <2>1. pc' \in [Tasks -> PC] /\ pc'[t] = p /\ \A u \in Tasks \ {t} : pc'[u] = pc[u]
    BY <1>3, GoType
  <2>2. TypeOK'
    BY <1>1, <1>3, <2>1 DEF UploadInv, TypeOK, upload, world
  <2>3. \A u \in Tasks \ {t} : Ready(u)' /\ Exclusive(u)'
    BY <1>1, <1>3, <2>1, SameReady DEF UploadInv, Same, Exclusive
  <2>4. Ready(t)' /\ Owner(t)' /\ Exclusive(t)'
    BY <1>3, <2>1 DEF Exclusive
  <2>5. ASSUME NEW u \in Tasks \ {t} PROVE Owner(u)'
    BY <1>1, <2>1 DEF UploadInv, Owner, op, upload
  <2>6. FilesSent' /\ (info # Nil => dir)'
    BY <1>1 DEF UploadInv, FilesSent, upload
  <2>7. ObjectSent'
    BY <1>1, <1>3, <2>1, ObjectSame DEF world
  <2> QED BY <2>2, <2>3, <2>4, <2>5, <2>6, <2>7 DEF UploadInv
<1>4. CASE Serialize_access(t)
  <2> DEFINE p == CASE op(t) = Create -> "mkdir"
                    [] op(t) = Complete -> IF req[t].fresh THEN "guard" ELSE "place"
                    [] op(t) = "UploadPartCopy" /\ req[t].range -> "source"
                    [] OTHER -> "recheck"
  <2>1. pc[t] = "lock" /\ holder = Nil /\ holder' = t /\ go(t, p)
    BY <1>4 DEF Serialize_access, Create, Complete
  <2>2. /\ p \in {"mkdir", "guard", "place", "source", "recheck"}
        /\ p = "mkdir" => op(t) = Create
        /\ p \in {"guard", "place"} => op(t) = Complete
        /\ p = "source" => op(t) = "UploadPartCopy"
        /\ p = "recheck" => op(t) \notin {Create, Complete}
    BY DEF Create, Complete
  <2> HIDE DEF p
  <2>3. code[t] = Nil /\ op(t) # "ListParts"
    BY <1>2, <2>1 DEF Ready, Asking, Answering, Decided
  <2>4. ASSUME pc'[t] = p PROVE Ready(t)' /\ Owner(t)'
    <3>1. Asking(t)' /\ Answering(t)' /\ CreateReady(t)'
      BY <1>1, <1>2, <2>2, <2>3, <2>4
         DEF Asking, Answering, CreateReady, op, Decided, Ops, Uploading, Create, Abort, Complete
    <3>2. PartReady(t)'
      BY <1>1, <1>2, <2>1, <2>2, <2>4 DEF Ready, PartReady, op, Uploading, Create, Complete
    <3>3. ListReady(t)'
      BY <1>1, <1>2, <2>1, <2>2, <2>4 DEF Ready, ListReady, op
    <3>4. Owner(t)'
      BY <1>1, <2>2, <2>4 DEF Owner, op, Uploading, Complete
    <3> QED BY <3>1, <3>2, <3>3, <3>4 DEF Ready
  <2>5. p \in PC /\ p \in Inner /\ p # "idle" /\ t \in Opt(Tasks)
    BY <2>2 DEF PC, Inner, Opt
  <2>6. \A u \in Tasks \ {t} : holder # u /\ t # u
    BY <2>1, MultipartAssumption
  <2> QED BY <1>3, <2>1, <2>4, <2>5, <2>6
<1>5. CASE Release_access(t)
  <2>1. PICK p \in {"discard", "done"} : go(t, p)
    BY <1>5 DEF Release_access
  <2>2. pc[t] = "unlock" /\ holder' = Nil
    BY <1>5 DEF Release_access
  <2>3. ASSUME pc'[t] = p PROVE Ready(t)' /\ Owner(t)'
    <3>1. Ready(t)'
      BY <1>1, <1>2, <2>1, <2>3, FinishReady
    <3> QED BY <2>1, <2>3, <3>1 DEF Owner
  <2>4. p \in PC /\ p \notin Inner /\ p # "idle" /\ Nil \in Opt(Tasks)
    BY <2>1 DEF PC, Inner, Opt
  <2>5. holder = t
    BY <2>2 DEF UploadInv, Exclusive, Inner
  <2>6. Nil # t /\ \A u \in Tasks \ {t} : holder # u /\ Nil # u
    BY <2>5, MultipartAssumption
  <2> QED BY <1>3, <2>1, <2>2, <2>3, <2>4, <2>6
<1> QED BY <1>4, <1>5

\* A kill leaves no request in exclusion and all files as they are.
LEMMA CrashInv == ASSUME UploadInv, Crash PROVE UploadInv'
<1>1. /\ UNCHANGED <<upload, world, req, seen, stat, scratch, code>>
      /\ crashes' = crashes + 1 /\ holder' = Nil
      /\ pc' = [t \in Tasks |-> IF Running(t) THEN "dead" ELSE pc[t]]
  BY DEF Crash
<1>2. ASSUME NEW t \in Tasks
      PROVE  /\ pc'[t] \in PC /\ pc'[t] \notin Inner
             /\ pc'[t] = pc[t] \/ (pc[t] # "idle" /\ pc'[t] = "dead")
  BY <1>1 DEF Running, PC, Inner, UploadInv, TypeOK
<1>3. TypeOK'
  BY <1>1, <1>2 DEF UploadInv, TypeOK, upload, world, Opt
<1>4. ASSUME NEW t \in Tasks PROVE Ready(t)' /\ Exclusive(t)' /\ Owner(t)'
  <2>1. pc'[t] = pc[t] => Ready(t)'
    BY <1>1, SameReady DEF Same, UploadInv
  <2>2. pc'[t] = "dead" /\ pc[t] # "idle" => Ready(t)'
    BY <1>1, RequestThere, FinishReady
  <2>3. Ready(t)'
    BY <1>2, <2>1, <2>2
  <2> QED BY <1>1, <1>2, <2>3, MultipartAssumption DEF Exclusive, Owner, Inner
<1>5. FilesSent' /\ (info # Nil => dir)'
  BY <1>1 DEF UploadInv, FilesSent, upload
<1>6. ObjectSent'
  BY <1>1, <1>2, ObjectSame DEF world
<1> QED BY <1>3, <1>4, <1>5, <1>6 DEF UploadInv

\* Nothing changes but the source of a copy.
LEMMA SourceInv ==
  ASSUME UploadInv, source' \in Opt(File), puts' \in Nat,
         UNCHANGED <<upload, object, holder, pc, req, seen, stat, scratch, code, crashes>>
  PROVE  UploadInv'
<1>1. TypeOK'
  BY DEF UploadInv, TypeOK, upload
<1>2. ASSUME NEW t \in Tasks PROVE Ready(t)' /\ Exclusive(t)' /\ Owner(t)'
  BY SameReady DEF UploadInv, Same, Exclusive, Owner, op, upload
<1>3. FilesSent' /\ (info # Nil => dir)'
  BY DEF UploadInv, FilesSent, upload
<1>4. ObjectSent'
  BY ObjectSame
<1> QED BY <1>1, <1>2, <1>3, <1>4 DEF UploadInv

\* Every step keeps the invariant.
LEMMA UploadStep == UploadInv /\ [Next]_vars => UploadInv'
<1> SUFFICES ASSUME UploadInv, [Next]_vars PROVE UploadInv'
  OBVIOUS
<1>1. ASSUME NEW t \in Tasks, Outside(t) PROVE UploadInv'
  BY <1>1, CheckInv, UploadScratchInv, CopyInv, VerifyInv, ConcatInv, AroundInv DEF Outside
<1>2. ASSUME NEW t \in Tasks, Inside(t) PROVE UploadInv'
  BY <1>2, CreateInv, RecheckInv, PartInv, PlaceObjectInv, RemoveInv DEF Inside
<1>3. CASE Change_source
  BY <1>3, SourceInv DEF Change_source, UploadInv, TypeOK, Opt, File
<1>4. CASE UNCHANGED vars
  BY <1>4, SourceInv DEF vars, world, UploadInv, TypeOK
<1> QED BY <1>1, <1>2, <1>3, <1>4, StartInv, AccessInv, AroundInv, CrashInv
        DEF Next, Step, Ended

\* The invariant holds in every state, with any of the failures of Faults and
\* however often the server is killed: requests are ready for their steps, one
\* is in exclusion, and it knows the upload that the directory belongs to.
THEOREM UploadInvariant == Spec => []UploadInv
BY UploadInit, UploadStep, PTL DEF Spec

\* The files of an upload and the state of its requests keep their types.
THEOREM TypeCorrect == Spec => []TypeOK
<1>1. UploadInv => TypeOK
  BY DEF UploadInv
<1> QED BY <1>1, UploadInvariant, PTL
-----------------------------------------------------------------------------
\* A part enters the directory only for the upload that is going on: the
\* upload id is checked again in exclusion, and nobody changes it from there
\* to the rename.
THEOREM PartsAreOwned == Spec => PartsOwned
<1>1. UploadInv /\ [Next]_vars =>
        [\A n \in Numbers : part'[n] # part[n] /\ part'[n] # Nil => part'[n].uid = info]_vars
  <2> SUFFICES ASSUME UploadInv, Next, NEW n \in Numbers, part'[n] # part[n], part'[n] # Nil
               PROVE  part'[n].uid = info
    OBVIOUS
  <2>1. PICK t \in Tasks : Place_remove_same(t) \/ Place_part(t) \/ Remove_all(t)
    BY DEF Next, Start, Serialize_access, Access_timeout, Step, Outside, Inside,
           Release_access, Discard_scratch_file, Change_source, Crash, Ended, vars, upload,
           Check_mpul_ongoing, Upload_scratch, Upload_fault, Fetch_source_status,
           Fetch_source_etag, Copy_scratch, Verify_parts, Concat_part, Fetch_target_status,
           List_parts, Create_mpul_directory, Store_mpul_info, Create_fault,
           Store_mpul_catalog, Recheck_source, Recheck_mpul, Recheck_target, Place_object,
           Place_fault, Update_mpul_catalog, Update_fault, Remove_mpul_info
  <2>2. Place_part(t)
    BY <2>1 DEF Place_remove_same, Remove_all, UploadInv, TypeOK
  <2>3. info = req[t].uid
    BY <2>2 DEF Place_part, renaming, UploadInv, Owner
  <2> QED BY <2>2, <2>3 DEF Place_part, UploadInv, TypeOK
<1> QED BY <1>1, UploadInvariant, PTL DEF Spec, PartsOwned

LEMMA ListedParts == ASSUME SteadyParts, UploadInv PROVE CompletedAsListed
<1> SUFFICES ASSUME object # Nil
             PROVE  object.data = [i \in DOMAIN req[object.by].list |-> req[object.by].list[i].etag]
  BY DEF CompletedAsListed
<1> DEFINE r == req[object.by]
           l == r.list
<1>1. object \in Object /\ object.by \in Tasks /\ object.data \in Seq(Data)
  BY DEF UploadInv, TypeOK, Opt, Object
<1>2. r \in Reqs /\ r.op = Complete /\ sorted(l) /\ Len(object.data) = Len(l)
  BY <1>1, RequestThere DEF UploadInv, ObjectSent, op
<1>3. l \in Seq(Item)
  BY <1>2, RequestType DEF Item
<1>4. ASSUME NEW i \in 1..Len(l) PROVE object.data[i] = l[i].etag
  <2>1. object.data[i] \in sent(l[i].no) /\ l[i].etag \in sent(l[i].no)
    BY <1>2, <1>4 DEF UploadInv, ObjectSent
  <2>2. i \in DOMAIN l
    BY <1>3, <1>4
  <2> QED BY <1>2, <2>1, <2>2 DEF SteadyParts, Complete
<1> HIDE DEF l
<1> QED BY <1>1, <1>2, <1>3, <1>4 DEF l

\* A completed object consists of the parts that its request lists, if clients
\* send the same data whenever they send the same part: what is concatenated
\* outside of exclusion was sent for the part, as was what the ETag stands for.
THEOREM CompletesAsListed == SteadyParts => (Spec => []CompletedAsListed)
<1> SUFFICES ASSUME SteadyParts PROVE Spec => []CompletedAsListed
  OBVIOUS
<1>1. UploadInv => CompletedAsListed
  BY ListedParts
<1> QED BY <1>1, UploadInvariant, PTL
-----------------------------------------------------------------------------
\* The steps that are not made in exclusion.
Free(t) == Start(t) \/ Outside(t) \/ Access_timeout(t) \/ Discard_scratch_file(t)

\* They leave alone the directory, the object, the exclusion and the other
\* requests.
LEMMA FreeEffect ==
  ASSUME UploadInv, NEW t \in Tasks, Free(t)
  PROVE  /\ UNCHANGED <<dir, info, list, part, object, holder, crashes>>
         /\ holder # t
         /\ \A u \in Tasks \ {t} : pc'[u] = pc[u] /\ req'[u] = req[u] /\ stat'[u] = stat[u]
                                   /\ code'[u] = code[u]
<1>1. pc[t] \notin Inner
  BY DEF Free, Start, Outside, Access_timeout, Discard_scratch_file,
         Check_mpul_ongoing, Upload_scratch, Upload_fault, Fetch_source_status,
         Fetch_source_etag, Copy_scratch, Verify_parts, Concat_part, Fetch_target_status,
         List_parts, Inner
<1>2. /\ UNCHANGED <<dir, info, list, part, object, holder, crashes>>
      /\ \A u \in Tasks \ {t} : req'[u] = req[u] /\ stat'[u] = stat[u]
  BY DEF Free, Start, Outside, Access_timeout, Discard_scratch_file,
         Check_mpul_ongoing, Upload_scratch, Upload_fault, Fetch_source_status,
         Fetch_source_etag, Copy_scratch, Verify_parts, Concat_part, Fetch_target_status,
         List_parts, upload, world, UploadInv, TypeOK
<1>3. (\E p : go(t, p) /\ UNCHANGED code) \/ \E c : finish(t, c)
  BY DEF Free, Start, Outside, Access_timeout, Discard_scratch_file,
         Check_mpul_ongoing, Upload_scratch, Upload_fault, Fetch_source_status,
         Fetch_source_etag, Copy_scratch, Verify_parts, Concat_part, Fetch_target_status,
         List_parts
<1>4. \A u \in Tasks \ {t} : pc'[u] = pc[u] /\ code'[u] = code[u]
  BY <1>3 DEF go, finish, UploadInv, TypeOK
<1> QED BY <1>1, <1>2, <1>4 DEF UploadInv, Exclusive

\* What clients see of the upload while a request is in exclusion.
LEMMA SeenInExclusion ==
  ASSUME NEW t \in Tasks, holder = t
  PROVE  /\ upload_id = IF pc[t] = "catalog" /\ op(t) \notin Uploading THEN stat[t]
                        ELSE IF pc[t] = "uninfo" /\ code[t] # Nil THEN Nil ELSE info
         /\ removing <=> pc[t] = "rmall"
BY MultipartAssumption DEF upload_id, in_creation, in_completion, removing

LEMMA SeenOutside ==
  ASSUME holder = Nil PROVE upload_id = info /\ ~ removing
BY DEF upload_id, in_creation, in_completion, removing

\* No part of an upload is a link to another file.
NoLinks == \A r \in Reqs : r.op = "UploadPartCopy" => r.range

\* The catalog as a request in exclusion must leave it.
LEMMA CatalogInside ==
  ASSUME UploadInv, CatalogInv, NEW t \in Tasks, UNCHANGED <<holder, req, crashes>>, holder = t,
         backed => backed' \/ pc'[t] = "rmall",
         backed' \/ upload_id' = Nil \/ (upload_id' = upload_id /\ (backed => backed')),
         pc[t] = "rmall" /\ pc'[t] # "rmall" => backed'
  PROVE  CatalogInv'
<1>1. removing <=> pc[t] = "rmall"
  BY SeenInExclusion
<1>2. removing' <=> pc'[t] = "rmall"
  BY MultipartAssumption DEF removing
<1>3. (crashes = 0 /\ ~ removing => backed)'
  BY <1>1, <1>2 DEF CatalogInv
<1>4. CatalogBacked'
  BY DEF CatalogInv, CatalogBacked
<1> QED BY <1>3, <1>4 DEF CatalogInv

LEMMA SeenAfter ==
  ASSUME NEW t \in Tasks, holder' = t, req' = req
  PROVE  upload_id' = IF pc'[t] = "catalog" /\ op(t) \notin Uploading THEN stat'[t]
                      ELSE IF pc'[t] = "uninfo" /\ code'[t] # Nil THEN Nil ELSE info'
BY MultipartAssumption DEF upload_id, in_creation, in_completion, op

\* In a removal the info file is the first to go; in a creation the catalog is
\* what clients see of the earlier upload until it is emptied.
LEMMA CatalogInsideStep ==
  ASSUME NoLinks, UploadInv, CatalogInv, NEW t \in Tasks, Inside(t)
  PROVE  CatalogInv'
<1>1. pc[t] \in Inner /\ UNCHANGED <<holder, req, crashes>>
  BY DEF Inside, Create_mpul_directory, Store_mpul_info, Create_fault, Store_mpul_catalog,
         Recheck_source, Recheck_mpul, Recheck_target, Place_remove_same, Place_part,
         Place_object, Place_fault, Update_mpul_catalog, Update_fault, Remove_mpul_info,
         Remove_all, renaming, Inner
<1>2. holder = t /\ Ready(t) /\ Owner(t) /\ req[t] \in Reqs
  BY <1>1, RequestThere DEF UploadInv, Exclusive, Inner
<1>3. upload_id = IF pc[t] = "catalog" /\ op(t) \notin Uploading THEN stat[t]
                  ELSE IF pc[t] = "uninfo" /\ code[t] # Nil THEN Nil ELSE info
  BY <1>2, SeenInExclusion
<1>4. upload_id' = IF pc'[t] = "catalog" /\ op(t) \notin Uploading THEN stat'[t]
                   ELSE IF pc'[t] = "uninfo" /\ code'[t] # Nil THEN Nil ELSE info'
  BY <1>1, <1>2, SeenAfter
<1>5. ~ Place_remove_same(t)
  <2>1. ASSUME op(t) \in Uploading, pc[t] = "place" PROVE scratch[t].ino = 0
    <3>1. op(t) = "UploadPart" \/ req[t].range
      BY <1>2, <2>1 DEF NoLinks, op, Uploading
    <3> QED BY <1>2, <2>1, <3>1 DEF Ready, PartReady
  <2> QED BY <2>1 DEF Place_remove_same, same_file
<1>6. \A c : finish(t, c) => pc'[t] = "unlock"
  BY <1>2 DEF finish, go, UploadInv, TypeOK
<1>7. \A p : go(t, p) => pc'[t] = p
  BY DEF go, UploadInv, TypeOK
<1>8. CASE Create_mpul_directory(t)
  <2>1. pc[t] = "mkdir" /\ UNCHANGED <<info, list, part>>
    BY <1>8 DEF Create_mpul_directory
  <2>2. \/ pc'[t] = "unlock" /\ UNCHANGED dir
        \/ pc'[t] = "info"
    BY <1>6, <1>7, <1>8 DEF Create_mpul_directory
  <2>3. backed' = backed
    BY <2>1 DEF backed
  <2> QED BY <1>1, <1>2, <1>3, <1>4, <2>1, <2>2, <2>3, CatalogInside
<1>9. CASE Store_mpul_info(t)
  <2>1. pc[t] = "info" /\ pc'[t] = "catalog" /\ info' = seen[t] /\ UNCHANGED <<list, part, stat>>
    BY <1>7, <1>9 DEF Store_mpul_info
  <2>2. seen[t] \in Ids /\ info = stat[t] /\ op(t) = Create
    BY <1>2, <2>1 DEF Ready, Asking, CreateReady, Owner
  <2>3. backed' = backed
    BY <2>1 DEF backed
  <2>4. upload_id' = upload_id /\ info' # Nil
    BY <1>3, <1>4, <2>1, <2>2, MultipartAssumption DEF Create, Uploading
  <2> QED BY <1>1, <1>2, <2>1, <2>3, <2>4, CatalogInside
<1>10. CASE Create_fault(t)
  <2>1. /\ pc[t] \in {"info", "catalog"} /\ pc'[t] = "uninfo" /\ UNCHANGED <<list, part>>
        /\ code' = [code EXCEPT ![t] = "InternalError"]
    BY <1>7, <1>10 DEF Create_fault, upload
  <2>2. backed' = backed /\ upload_id' = Nil
    BY <1>4, <2>1, MultipartAssumption DEF backed, Codes, UploadInv, TypeOK
  <2> QED BY <1>1, <1>2, <2>1, <2>2, CatalogInside
<1>11. CASE Store_mpul_catalog(t)
  <2>1. /\ pc[t] = "catalog" /\ op(t) = Create /\ pc'[t] = "unlock" /\ list' = NoParts
        /\ UNCHANGED <<dir, info>>
    BY <1>6, <1>11 DEF Store_mpul_catalog, Create
  <2>2. backed'
    BY <2>1 DEF backed, NoParts
  <2>3. info # Nil
    BY <1>2, <2>1, MultipartAssumption DEF Ready, CreateReady, Owner
  <2> QED BY <1>1, <1>2, <2>1, <2>2, <2>3, CatalogInside
<1>12. CASE Recheck_source(t) \/ Recheck_mpul(t) \/ Recheck_target(t) \/ Place_fault(t)
            \/ Update_fault(t)
  <2>1. /\ UNCHANGED <<dir, info, list, part>>
        /\ pc[t] \in {"source", "recheck", "guard", "place", "rename", "catalog"}
        /\ pc[t] = "catalog" => op(t) \in Uploading
    BY <1>12 DEF Recheck_source, Recheck_mpul, Recheck_target, Place_fault, Update_fault,
                 renaming, upload
  <2>2. \/ pc'[t] \in {"unlock", "recheck", "place"}
        \/ pc'[t] = "uninfo" /\ UNCHANGED code
    BY <1>6, <1>7, <1>12
       DEF Recheck_source, Recheck_mpul, Recheck_target, Place_fault, Update_fault
  <2>3. code[t] = Nil
    BY <1>2, <2>1 DEF Ready, Answering, Decided
  <2>4. backed' = backed
    BY <2>1 DEF backed
  <2> QED BY <1>1, <1>2, <1>3, <1>4, <2>1, <2>2, <2>3, <2>4, CatalogInside
<1>13. CASE Place_part(t)
  <2>1. /\ pc[t] \in {"place", "rename"} /\ pc'[t] = "catalog" /\ op(t) \in Uploading
        /\ UNCHANGED <<dir, info, list>>
        /\ part' = [part EXCEPT ![req[t].no] =
                      [ino |-> scratch[t].ino, data |-> scratch[t].data, uid |-> req[t].uid]]
    BY <1>7, <1>13 DEF Place_part, renaming
  <2>2. part'[req[t].no] # Nil
    <3>1. UploadInv' /\ Owner(t)'
      BY <1>13, PartInv DEF UploadInv
    <3> QED BY <1>1, <2>1, <3>1 DEF Owner, op
  <2>3. backed => backed'
    BY <2>1, <2>2 DEF backed, UploadInv, TypeOK
  <2> QED BY <1>1, <1>2, <1>3, <1>4, <2>1, <2>3, CatalogInside
<1>14. CASE Place_object(t)
  <2>1. /\ pc[t] \in {"place", "rename"} /\ pc'[t] = "uninfo" /\ UNCHANGED <<dir, info, list, part>>
        /\ code' = [code EXCEPT ![t] = "OK"]
    BY <1>7, <1>14 DEF Place_object, renaming, upload
  <2>2. backed' = backed /\ upload_id' = Nil
    BY <1>4, <2>1, MultipartAssumption DEF backed, Codes, UploadInv, TypeOK
  <2> QED BY <1>1, <1>2, <2>1, <2>2, CatalogInside
<1>15. CASE Update_mpul_catalog(t)
  <2>1. /\ pc[t] = "catalog" /\ op(t) \in Uploading /\ pc'[t] = "unlock"
        /\ UNCHANGED <<dir, info, part>>
        /\ list' = IF list = Nil THEN Nil ELSE [list EXCEPT ![req[t].no] = seen[t]]
    BY <1>6, <1>15 DEF Update_mpul_catalog
  <2>2. part[req[t].no] # Nil
    BY <1>2, <2>1 DEF Owner
  <2>3. backed => backed'
    BY <2>1, <2>2 DEF backed, UploadInv, TypeOK
  <2> QED BY <1>1, <1>2, <1>3, <1>4, <2>1, <2>3, CatalogInside
<1>16. CASE Remove_mpul_info(t)
  <2>1. /\ pc[t] = "uninfo" /\ pc'[t] = (IF dir THEN "rmall" ELSE "unlock")
        /\ info' = Nil /\ UNCHANGED <<dir, list, part>>
    BY <1>7, <1>16 DEF Remove_mpul_info
  <2>2. backed' = backed /\ upload_id' = Nil
    BY <1>4, <2>1 DEF backed
  <2> QED BY <1>1, <1>2, <2>1, <2>2, CatalogInside
<1>17. CASE Remove_all(t)
  <2>1. pc[t] = "rmall" /\ info' = Nil
    BY <1>2, <1>17 DEF Remove_all, Owner
  <2>2. \/ pc'[t] = "rmall"
        \/ pc'[t] = "unlock" /\ list' = Nil /\ dir' = FALSE
    BY <1>7, <1>17, <2>1 DEF Remove_all
  <2>3. upload_id' = Nil /\ (pc'[t] # "rmall" => backed')
    BY <1>4, <2>1, <2>2 DEF backed
  <2> QED BY <1>1, <1>2, <2>1, <2>2, <2>3, CatalogInside
<1> QED BY <1>5, <1>8, <1>9, <1>10, <1>11, <1>12, <1>13, <1>14, <1>15, <1>16, <1>17 DEF Inside

\* A request that takes or leaves the exclusion, or is killed in it, leaves the
\* directory alone: only a kill in a removal leaves a catalog without files,
\* and then the info file has gone.
LEMMA CatalogStep ==
  ASSUME NoLinks, UploadInv, CatalogInv, [Next]_vars PROVE CatalogInv'
<1>1. ASSUME NEW t \in Tasks, Free(t) PROVE CatalogInv'
  <2>1. /\ UNCHANGED <<info, list, part, holder, crashes>> /\ holder # t
        /\ \A u \in Tasks \ {t} : /\ pc'[u] = pc[u] /\ req'[u] = req[u] /\ stat'[u] = stat[u]
                                  /\ code'[u] = code[u]
    BY <1>1, FreeEffect
  <2>2. holder = Nil \/ holder \in Tasks \ {t}
    BY <2>1 DEF UploadInv, TypeOK, Opt
  <2>3. removing' = removing /\ backed' = backed /\ upload_id' = upload_id
    BY <2>1, <2>2 DEF removing, backed, upload_id, in_creation, in_completion, op
  <2> QED BY <2>1, <2>3 DEF CatalogInv, CatalogBacked
<1>2. ASSUME NEW t \in Tasks, Serialize_access(t) PROVE CatalogInv'
  <2>1. /\ holder = Nil /\ holder' = t /\ req' = req /\ crashes' = crashes
        /\ UNCHANGED <<info, list, part>>
        /\ pc'[t] \in {"mkdir", "guard", "place", "source", "recheck"}
    BY <1>2 DEF Serialize_access, go, upload, UploadInv, TypeOK
  <2>2. upload_id = info /\ ~ removing /\ upload_id' = info' /\ ~ removing'
    BY <2>1, SeenOutside, SeenAfter DEF removing
  <2>3. backed' = backed
    BY <2>1 DEF backed
  <2> QED BY <2>1, <2>2, <2>3 DEF CatalogInv, CatalogBacked
<1>3. ASSUME NEW t \in Tasks, Release_access(t) PROVE CatalogInv'
  <2>1. /\ pc[t] = "unlock" /\ holder' = Nil /\ crashes' = crashes
        /\ UNCHANGED <<info, list, part>>
    BY <1>3 DEF Release_access, upload
  <2>2. holder = t
    BY <2>1 DEF UploadInv, Exclusive, Inner
  <2>3. upload_id = info /\ ~ removing /\ upload_id' = info' /\ ~ removing'
    BY <2>1, <2>2, SeenInExclusion DEF upload_id, in_creation, in_completion, removing
  <2>4. backed' = backed
    BY <2>1 DEF backed
  <2> QED BY <2>1, <2>3, <2>4 DEF CatalogInv, CatalogBacked
<1>4. CASE Crash
  <2>1. holder' = Nil /\ crashes' = crashes + 1 /\ UNCHANGED <<info, list, part>>
    BY <1>4 DEF Crash, upload
  <2>2. crashes \in Nat
    BY DEF UploadInv, TypeOK
  <2>3. upload_id' = info' /\ backed' = backed
    BY <2>1 DEF upload_id, in_creation, in_completion, backed
  <2>4. removing => info = Nil
    <3> SUFFICES ASSUME removing PROVE info = Nil
      OBVIOUS
    <3>1. holder \in Tasks /\ pc[holder] = "rmall"
      BY DEF removing, UploadInv, TypeOK, Opt
    <3> QED BY <3>1 DEF UploadInv, Owner
  <2>5. crashes' <= 1 => crashes = 0
    BY <2>1, <2>2
  <2>6. crashes' # 0
    BY <2>1, <2>2
  <2> QED BY <2>1, <2>3, <2>4, <2>5, <2>6 DEF CatalogInv, CatalogBacked
<1>5. CASE Change_source \/ UNCHANGED vars
  <2>1. UNCHANGED <<info, list, part, holder, crashes, pc, req, stat, code>>
    BY <1>5 DEF Change_source, vars, upload
  <2> QED BY <2>1 DEF CatalogInv, CatalogBacked, removing, backed, upload_id, in_creation,
                      in_completion, op
<1> QED BY <1>1, <1>2, <1>3, <1>4, <1>5, CatalogInsideStep DEF Next, Step, Free, Ended

\* The parts in the catalog of an ongoing upload have their files, also after
\* a kill, as long as no part is a link (the source of a copy has a range).
THEOREM CatalogIsBacked == NoLinks => (Spec => []CatalogBacked)
<1> SUFFICES ASSUME NoLinks PROVE Spec => []CatalogBacked
  OBVIOUS
<1>1. Init => CatalogInv
  <2> SUFFICES ASSUME Init PROVE CatalogInv
    OBVIOUS
  <2>1. backed
    <3> SUFFICES ASSUME list # Nil, NEW n \in Numbers, list[n] # Nil PROVE part[n] # Nil
      BY DEF backed
    <3>1. part[n] = [ino |-> 0, data |-> list[n], uid |-> info]
      BY DEF Init
    <3>2. info \in Ids /\ list[n] \in Data
      BY MultipartAssumption DEF Init, Opt
    <3>3. part[n] \in Part
      BY <3>1, <3>2 DEF Part
    <3> QED BY <3>3, MultipartAssumption
  <2> QED BY <2>1 DEF CatalogInv, CatalogBacked
<1>2. NoLinks /\ UploadInv /\ CatalogInv /\ [Next]_vars => CatalogInv'
  BY CatalogStep
<1>3. CatalogInv => CatalogBacked
  BY DEF CatalogInv
<1> QED BY <1>1, <1>2, <1>3, UploadInvariant, PTL DEF Spec
-----------------------------------------------------------------------------
\* A request in exclusion leaves a directory without an info file only from
\* the mkdir of a creation to its info file, and in a removal.
LEMMA DirectoryStep ==
  ASSUME UploadInv, DirectoryInv, [Next]_vars PROVE DirectoryInv'
<1> DEFINE Bare == {"info", "uninfo", "rmall"}
<1>1. ASSUME NEW t \in Tasks, Inside(t) PROVE DirectoryInv'
  <2>1. pc[t] \in Inner /\ UNCHANGED <<holder, crashes>>
    BY <1>1 DEF Inside, Create_mpul_directory, Store_mpul_info, Create_fault, Store_mpul_catalog,
           Recheck_source, Recheck_mpul, Recheck_target, Place_remove_same, Place_part,
           Place_object, Place_fault, Update_mpul_catalog, Update_fault, Remove_mpul_info,
           Remove_all, renaming, Inner
  <2>2. holder = t /\ t # Nil /\ Ready(t) /\ Owner(t)
    BY <2>1, MultipartAssumption DEF UploadInv, Exclusive
  <2>3. \A c : finish(t, c) => pc'[t] = "unlock"
    BY <2>2 DEF finish, go, UploadInv, TypeOK
  <2>4. \A p : go(t, p) => pc'[t] = p
    BY DEF go, UploadInv, TypeOK
  <2>5. CASE Create_mpul_directory(t)
    BY <2>1, <2>2, <2>3, <2>4, <2>5 DEF Create_mpul_directory, DirectoryInv
  <2>6. CASE Store_mpul_info(t)
    <3>1. info' # Nil
      BY <2>2, <2>6, MultipartAssumption DEF Store_mpul_info, Ready, Asking, CreateReady
    <3> QED BY <3>1 DEF DirectoryInv
  <2>7. CASE Create_fault(t) \/ Place_object(t)
    BY <2>1, <2>2, <2>4, <2>7 DEF Create_fault, Place_object, DirectoryInv
  <2>8. CASE Remove_mpul_info(t) \/ Remove_all(t)
    <3>1. pc'[t] = "rmall" \/ ~ dir'
      BY <2>4, <2>8 DEF Remove_mpul_info, Remove_all, UploadInv, TypeOK
    <3> QED BY <2>1, <2>2, <3>1 DEF DirectoryInv
  <2>9. CASE \/ Store_mpul_catalog(t) \/ Recheck_source(t) \/ Recheck_mpul(t)
             \/ Recheck_target(t) \/ Place_remove_same(t) \/ Place_part(t)
             \/ Place_fault(t) \/ Update_mpul_catalog(t) \/ Update_fault(t)
    <3>1. UNCHANGED <<dir, info>> /\ pc[t] \notin Bare
      BY <2>9 DEF Store_mpul_catalog, Recheck_source, Recheck_mpul, Recheck_target,
           Place_remove_same, Place_part, Place_fault, Update_mpul_catalog, Update_fault,
           renaming, upload
    <3> QED BY <2>1, <2>2, <3>1 DEF DirectoryInv
  <2> QED BY <1>1, <2>5, <2>6, <2>7, <2>8, <2>9 DEF Inside
<1>2. ASSUME NEW t \in Tasks, Free(t) PROVE DirectoryInv'
  <2>1. /\ UNCHANGED <<dir, info, holder, crashes>> /\ holder # t
        /\ \A u \in Tasks \ {t} : pc'[u] = pc[u]
    BY <1>2, FreeEffect
  <2>2. holder = Nil \/ holder \in Tasks \ {t}
    BY <2>1 DEF UploadInv, TypeOK, Opt
  <2> QED BY <2>1, <2>2 DEF DirectoryInv
<1>3. ASSUME NEW t \in Tasks, Serialize_access(t) PROVE DirectoryInv'
  BY <1>3 DEF Serialize_access, upload, DirectoryInv
<1>4. ASSUME NEW t \in Tasks, Release_access(t) PROVE DirectoryInv'
  <2>1. holder = t /\ pc[t] = "unlock"
    BY <1>4 DEF Release_access, UploadInv, Exclusive, Inner
  <2> QED BY <1>4, <2>1 DEF Release_access, upload, DirectoryInv
<1>5. CASE Crash
  BY <1>5 DEF Crash, DirectoryInv, UploadInv, TypeOK
<1>6. CASE Change_source \/ UNCHANGED vars
  BY <1>6 DEF Change_source, vars, upload, DirectoryInv
<1> QED BY <1>1, <1>2, <1>3, <1>4, <1>5, <1>6 DEF Next, Step, Free, Ended

\* Without a kill, an upload that is over leaves no directory, also when its
\* creation fails half-way.  (The removal of the directory is among the calls
\* that do not fail.)
THEOREM DirectoriesGo == Spec => []DirectoryGone
<1>1. Init => DirectoryInv
  BY DEF Init, DirectoryInv
<1>2. UploadInv /\ DirectoryInv /\ [Next]_vars => DirectoryInv'
  BY DirectoryStep
<1>3. DirectoryInv => DirectoryGone
  BY DEF DirectoryInv, DirectoryGone
<1> QED BY <1>1, <1>2, <1>3, UploadInvariant, PTL DEF Spec
-----------------------------------------------------------------------------
\* The upload as clients see it, in the terms of module Uploads.
shown_parts == IF upload_id = Nil \/ list = Nil THEN NoParts ELSE list
acknowledged == {t \in Tasks : code[t] = "OK"}

LEMMA Unseen ==
  ASSUME UNCHANGED <<upload_id, shown_parts, object, req, acknowledged>>
  PROVE  UNCHANGED AtomicUploads!vars
BY DEF AtomicUploads!vars, shown_parts, acknowledged

LEMMA Answered ==
  ASSUME UploadInv, NEW t \in Tasks, NEW c, code' = [code EXCEPT ![t] = c]
  PROVE  /\ c = "OK" => acknowledged' = acknowledged \cup {t}
         /\ c # "OK" /\ code[t] # "OK" => acknowledged' = acknowledged
BY DEF acknowledged, UploadInv, TypeOK

\* A request that is acknowledged in a step that has its effect.
LEMMA Effective ==
  ASSUME UploadInv, NEW t \in Tasks, pc[t] # "idle", code[t] # "OK",
         code' = [code EXCEPT ![t] = "OK"], UNCHANGED req,
         \/ AtomicUploads!Create(req[t]) \/ AtomicUploads!Upload(req[t])
         \/ AtomicUploads!Abort(req[t]) \/ AtomicUploads!Complete(req[t])
         \/ AtomicUploads!List(req[t])
  PROVE  AtomicUploads!Next
<1>1. req[t] \in Reqs /\ req[t] # Nil
  BY RequestThere, MultipartAssumption
<1>2. acknowledged' = acknowledged \cup {t} /\ t \notin acknowledged
  BY Answered DEF acknowledged
<1>3. AtomicUploads!Acknowledge(t)
  BY <1>1, <1>2, Zenon DEF AtomicUploads!Acknowledge, acknowledged
<1> QED BY <1>3 DEF AtomicUploads!Next

LEMMA FreeSeen ==
  ASSUME UploadInv, NEW t \in Tasks, Free(t)
  PROVE  UNCHANGED <<upload_id, shown_parts, object>>
<1>1. /\ UNCHANGED <<info, list, holder, object>> /\ holder # t
      /\ \A u \in Tasks \ {t} : /\ pc'[u] = pc[u] /\ req'[u] = req[u] /\ stat'[u] = stat[u]
                                /\ code'[u] = code[u]
  BY FreeEffect
<1>2. holder = Nil \/ holder \in Tasks \ {t}
  BY <1>1 DEF UploadInv, TypeOK, Opt
<1>3. upload_id' = upload_id
  BY <1>1, <1>2 DEF upload_id, in_creation, in_completion, op
<1> QED BY <1>1, <1>3 DEF shown_parts

\* Outside of exclusion a request is asked, or a listing answered; the rest is
\* preparation that clients do not see.
LEMMA FreeRefines ==
  ASSUME UploadInv, NEW t \in Tasks, Free(t)
  PROVE  [AtomicUploads!Next]_(AtomicUploads!vars)
<1>1. UNCHANGED <<upload_id, shown_parts, object>>
  BY FreeSeen
<1>2. CASE Start(t)
  <2>1. PICK r \in Reqs : req' = [req EXCEPT ![t] = r]
    BY <1>2 DEF Start
  <2>2. req[t] = Nil /\ code' = code
    BY <1>2 DEF Start, UploadInv, Ready, Asking
  <2>3. AtomicUploads!Ask(t, r)
    BY <1>1, <2>1, <2>2 DEF AtomicUploads!Ask, shown_parts
  <2> QED BY <2>3 DEF AtomicUploads!Next
<1>3. CASE List_parts(t) /\ list # Nil
  <2>1. /\ pc[t] = "list" /\ code' = [code EXCEPT ![t] = "OK"] /\ req' = req
    BY <1>3 DEF List_parts, finish
  <2>2. code[t] # "OK" /\ op(t) = "ListParts"
    BY <2>1, MultipartAssumption DEF UploadInv, Ready, Asking, Answering, Decided, Codes
  <2>3. AtomicUploads!List(req[t])
    BY <1>1, <2>2 DEF AtomicUploads!List, shown_parts, op
  <2> QED BY <2>1, <2>2, <2>3, Effective
<1>4. CASE ~ Start(t) /\ ~ (List_parts(t) /\ list # Nil)
  <2>1. /\ req' = req
        /\ code' = code \/ \E c : c # "OK" /\ code' = [code EXCEPT ![t] = c] /\ pc[t] \notin Decided
    BY <1>4 DEF Free, Outside, Access_timeout, Discard_scratch_file,
         Check_mpul_ongoing, Upload_scratch, Upload_fault, Fetch_source_status,
         Fetch_source_etag, Copy_scratch, Verify_parts, Concat_part, Fetch_target_status,
         List_parts, finish, Decided
  <2>2. acknowledged' = acknowledged
    <3>1. CASE code' = code
      BY <3>1 DEF acknowledged
    <3>2. ASSUME NEW c, c # "OK", code' = [code EXCEPT ![t] = c], pc[t] \notin Decided
          PROVE  acknowledged' = acknowledged
      <4>1. code[t] # "OK"
        BY <3>2, MultipartAssumption DEF UploadInv, Ready, Answering, Codes
      <4> QED BY <3>2, <4>1, Answered
    <3> QED BY <2>1, <3>1, <3>2
  <2> QED BY <1>1, <2>1, <2>2, Unseen
<1> QED BY <1>2, <1>3, <1>4

\* In exclusion each request has one step that clients see: a creation the
\* empty catalog, a part its entry in the catalog, a completion the rename of
\* the object, an abort the removal of the info file.
LEMMA InsideRefines ==
  ASSUME UploadInv, CompletedAsListed', "store" \notin Faults, NEW t \in Tasks, Inside(t)
  PROVE  [AtomicUploads!Next]_(AtomicUploads!vars)
<1>1. pc[t] \in Inner /\ UNCHANGED <<holder, req>> /\ (~ Place_object(t) => object' = object)
  BY DEF Inside, Create_mpul_directory, Store_mpul_info, Create_fault, Store_mpul_catalog,
         Recheck_source, Recheck_mpul, Recheck_target, Place_remove_same, Place_part,
         Place_object, Place_fault, Update_mpul_catalog, Update_fault, Remove_mpul_info,
         Remove_all, renaming, Inner, world
<1>2. holder = t /\ Ready(t) /\ Owner(t) /\ req[t] \in Reqs /\ pc[t] # "idle"
  BY <1>1, RequestThere DEF UploadInv, Exclusive, Inner
<1>3. upload_id = IF pc[t] = "catalog" /\ op(t) \notin Uploading THEN stat[t]
                  ELSE IF pc[t] = "uninfo" /\ code[t] # Nil THEN Nil ELSE info
  BY <1>2, SeenInExclusion
<1>4. upload_id' = IF pc'[t] = "catalog" /\ op(t) \notin Uploading THEN stat'[t]
                   ELSE IF pc'[t] = "uninfo" /\ code'[t] # Nil THEN Nil ELSE info'
  BY <1>1, <1>2, SeenAfter
<1>5. \A c : finish(t, c) => pc'[t] = "unlock" /\ code' = [code EXCEPT ![t] = c]
  BY <1>2 DEF finish, go, UploadInv, TypeOK
<1>6. \A p : go(t, p) => pc'[t] = p
  BY DEF go, UploadInv, TypeOK
<1>7. pc[t] \notin Decided => code[t] = Nil /\ code[t] # "OK"
  BY <1>2, MultipartAssumption DEF Ready, Answering, Codes
<1>8. CASE \/ Create_mpul_directory(t) \/ Recheck_source(t) \/ Recheck_mpul(t)
           \/ Recheck_target(t) \/ Place_remove_same(t) \/ Place_part(t)
           \/ Place_fault(t) \/ Update_fault(t)
  <2>1. /\ UNCHANGED <<info, list>>
        /\ pc[t] \in {"mkdir", "source", "recheck", "guard", "place", "rename", "catalog"}
        /\ pc[t] = "catalog" => op(t) \in Uploading
    BY <1>8 DEF Create_mpul_directory, Recheck_source, Recheck_mpul, Recheck_target,
                Place_remove_same, Place_part, Place_fault, Update_fault, renaming, upload
  <2>2. code[t] = Nil /\ code[t] # "OK"
    BY <1>7, <2>1 DEF Decided
  <2>3. \/ code' = code
        \/ \E c : c # "OK" /\ pc'[t] = "unlock" /\ code' = [code EXCEPT ![t] = c]
    BY <1>5, <1>8 DEF Create_mpul_directory, Recheck_source, Recheck_mpul, Recheck_target,
                Place_remove_same, Place_part, Place_fault, Update_fault
  <2>4. acknowledged' = acknowledged
    <3>1. CASE code' = code
      BY <3>1 DEF acknowledged
    <3> QED BY <2>2, <2>3, <3>1, Answered
  <2>5. \/ pc'[t] \in {"unlock", "info", "recheck", "place", "uninfo", "rename"}
        \/ pc'[t] = "catalog" /\ op(t) \in Uploading
    BY <1>5, <1>6, <1>8 DEF Create_mpul_directory, Recheck_source, Recheck_mpul, Recheck_target,
                Place_remove_same, Place_part, Place_fault, Update_fault
  <2>6. pc'[t] # "unlock" => code'[t] = Nil
    BY <2>2, <2>3
  <2>7. upload_id' = upload_id
    BY <1>3, <1>4, <2>1, <2>5, <2>6
  <2>8. object' = object
    BY <1>1, <1>8 DEF Create_mpul_directory, Recheck_source, Recheck_mpul, Recheck_target,
                Place_remove_same, Place_part, Place_fault, Update_fault, world
  <2> QED BY <1>1, <2>1, <2>4, <2>7, <2>8, Unseen DEF shown_parts
<1>9. CASE Store_mpul_info(t)
  <2>1. /\ pc[t] = "info" /\ pc'[t] = "catalog" /\ op(t) = Create /\ info = stat[t]
        /\ UNCHANGED <<list, stat, code, object>>
    BY <1>2, <1>6, <1>9 DEF Store_mpul_info, Ready, Asking, Owner, world
  <2>2. upload_id' = upload_id /\ acknowledged' = acknowledged
    BY <1>3, <1>4, <2>1 DEF Create, Uploading, acknowledged
  <2> QED BY <1>1, <2>1, <2>2, Unseen DEF shown_parts
<1>10. CASE Store_mpul_catalog(t)
  <2>1. /\ pc[t] = "catalog" /\ op(t) = Create /\ pc'[t] = "unlock" /\ list' = NoParts
        /\ code' = [code EXCEPT ![t] = "OK"] /\ UNCHANGED <<info, object>>
    BY <1>5, <1>10 DEF Store_mpul_catalog, Create, world
  <2>2. info \in Ids
    BY <1>2, <2>1 DEF Ready, CreateReady, Owner
  <2>3. upload_id' \in Ids /\ shown_parts' = NoParts
    BY <1>4, <2>1, <2>2 DEF shown_parts, NoParts
  <2>4. AtomicUploads!Create(req[t])
    BY <2>1, <2>3 DEF AtomicUploads!Create, AtomicUploads!NoParts, NoParts, shown_parts, op, Create
  <2> QED BY <1>1, <1>2, <1>7, <2>1, <2>4, Effective DEF Decided
<1>11. CASE Place_object(t)
  <2>1. /\ pc[t] \in {"place", "rename"} /\ pc'[t] = "uninfo" /\ op(t) = Complete
        /\ code' = [code EXCEPT ![t] = "OK"]
        /\ object' = [by |-> t, data |-> scratch[t].data, meta |-> seen[t]]
    BY <1>6, <1>11 DEF Place_object, renaming, Complete
  <2>2. object' # Nil
    <3>1. pc[t] = "place"
      BY <1>2, <2>1 DEF Ready, Asking, Uploading, Complete
    <3>2. scratch[t].data \in Seq(Data) /\ seen[t] \in Ids
      BY <1>2, <2>1, <3>1 DEF Ready, ListReady
    <3>3. object' \in Object
      BY <2>1, <3>2 DEF Object
    <3> QED BY <3>3, MultipartAssumption
  <2>3. object'.data = [i \in DOMAIN req[t].list |-> req[t].list[i].etag]
    BY <1>1, <2>1, <2>2 DEF CompletedAsListed
  <2>4. upload_id' = Nil
    BY <1>4, <2>1, MultipartAssumption DEF Codes, UploadInv, TypeOK
  <2>5. AtomicUploads!Complete(req[t])
    BY <2>1, <2>2, <2>3, <2>4 DEF AtomicUploads!Complete, AtomicUploads!NoParts, NoParts, op, Complete
  <2> QED BY <1>1, <1>2, <1>7, <2>1, <2>5, Effective DEF Decided
<1>12. CASE Update_mpul_catalog(t)
  <2>1. /\ pc[t] = "catalog" /\ op(t) \in Uploading /\ pc'[t] = "unlock"
        /\ code' = [code EXCEPT ![t] = IF list = Nil THEN "InternalError" ELSE "OK"]
        /\ list' = IF list = Nil THEN Nil ELSE [list EXCEPT ![req[t].no] = seen[t]]
        /\ UNCHANGED <<info, object>>
    BY <1>5, <1>12 DEF Update_mpul_catalog, world
  <2>2. code[t] # "OK" /\ upload_id = info /\ upload_id' = info
    BY <1>3, <1>4, <1>7, <2>1 DEF Decided
  <2>3. CASE list = Nil
    <3>1. code' = [code EXCEPT ![t] = "InternalError"]
      BY <2>1, <2>3
    <3>2. acknowledged' = acknowledged
      BY <2>2, <3>1 DEF acknowledged, UploadInv, TypeOK
    <3> QED BY <1>1, <2>1, <2>2, <2>3, <3>2, Unseen DEF shown_parts
  <2>4. CASE list # Nil
    <3>1. info = req[t].uid /\ info # Nil
      <4>1. info = req[t].uid
        BY <1>2, <2>1 DEF Owner
      <4>2. req[t].uid \in Ids
        BY <1>2, <2>1, RequestType DEF Uploading, Create
      <4> QED BY <4>1, <4>2, MultipartAssumption
    <3>2. seen[t] \in IF req[t].op = "UploadPart" THEN {req[t].data} ELSE Data
      BY <1>2, <2>1, SentData DEF Ready, PartReady, op
    <3>3. list \in [Numbers -> Opt(Data)] /\ list' # Nil
      <4>1. list \in [Numbers -> Opt(Data)]
        BY <2>4 DEF UploadInv, TypeOK
      <4>2. seen[t] \in Data
        BY <1>2, <2>1, SentData DEF Ready, PartReady
      <4>3. list' \in [Numbers -> Opt(Data)]
        BY <2>1, <2>4, <4>1, <4>2 DEF Opt
      <4> QED BY <4>1, <4>3, MultipartAssumption
    <3>4. shown_parts = list /\ shown_parts' = [list EXCEPT ![req[t].no] = seen[t]]
      BY <2>1, <2>2, <2>4, <3>1, <3>3 DEF shown_parts
    <3>5. AtomicUploads!Upload(req[t])
      BY <2>1, <2>2, <3>1, <3>2, <3>4 DEF AtomicUploads!Upload, shown_parts, op, Uploading
    <3> QED BY <1>1, <1>2, <2>1, <2>2, <2>4, <3>5, Effective
  <2> QED BY <2>3, <2>4
<1>13. CASE Remove_mpul_info(t)
  <2>1. /\ pc[t] = "uninfo" /\ pc'[t] \in {"rmall", "unlock"} /\ info' = Nil
        /\ code' = [code EXCEPT ![t] = IF @ = Nil THEN "OK" ELSE @] /\ UNCHANGED object
    BY <1>6, <1>13 DEF Remove_mpul_info, world
  <2>2. upload_id' = Nil /\ shown_parts' = NoParts
    BY <1>4, <2>1 DEF shown_parts, NoParts
  <2>3. CASE code[t] = Nil
    <3>1. op(t) = Abort /\ info = req[t].uid
      BY <1>2, <2>1, <2>3, MultipartAssumption DEF Ready, Asking, Answering, Owner, Codes
    <3>2. upload_id = req[t].uid
      BY <1>3, <2>1, <2>3, <3>1 DEF Uploading, Abort
    <3>3. AtomicUploads!Abort(req[t])
      BY <2>1, <2>2, <3>1, <3>2
         DEF AtomicUploads!Abort, AtomicUploads!NoParts, NoParts, shown_parts, op, Abort
    <3>4. code' = [code EXCEPT ![t] = "OK"] /\ code[t] # "OK"
      BY <2>1, <2>3, MultipartAssumption DEF Codes
    <3> QED BY <1>1, <1>2, <3>3, <3>4, Effective
  <2>4. CASE code[t] # Nil
    <3>1. code' = code
      BY <2>1, <2>4 DEF UploadInv, TypeOK
    <3>2. upload_id = Nil
      BY <1>3, <2>1, <2>4
    <3> QED BY <1>1, <2>1, <2>2, <3>1, <3>2, Unseen DEF shown_parts, acknowledged
  <2> QED BY <2>3, <2>4
<1>14. CASE Remove_all(t)
  <2>1. /\ pc[t] = "rmall" /\ pc'[t] \in {"rmall", "unlock"} /\ info = Nil /\ info' = Nil
        /\ UNCHANGED <<object, code>>
    BY <1>2, <1>6, <1>14 DEF Remove_all, Owner, world
  <2>2. upload_id = Nil /\ upload_id' = Nil
    BY <1>3, <1>4, <2>1
  <2>3. UNCHANGED <<shown_parts, acknowledged>>
    BY <2>1, <2>2 DEF shown_parts, NoParts, acknowledged
  <2> QED BY <1>1, <2>1, <2>2, <2>3, Unseen
<1>15. ~ Create_fault(t)
  BY DEF Create_fault
<1> QED BY <1>8, <1>9, <1>10, <1>11, <1>12, <1>13, <1>14, <1>15 DEF Inside

\* Without a kill and without failures of the stores of info and catalog, the
\* files of the directory act as one upload: each acknowledged request has
\* changed it in one step, between its arrival and its response, and every
\* other request has left it alone.  Failures of uploads, renames and time-outs
\* are allowed.
THEOREM UploadsImplemented ==
  SteadyParts /\ "store" \notin Faults /\ MaxCrashes = 0 => (Spec => ImplementsUploads)
<1> SUFFICES ASSUME SteadyParts, "store" \notin Faults, MaxCrashes = 0
             PROVE  Spec => ImplementsUploads
  OBVIOUS
<1>1. Init => AtomicUploads!Init
  <2> SUFFICES ASSUME Init PROVE AtomicUploads!Init
    OBVIOUS
  <2>1. upload_id = info
    BY SeenOutside DEF Init
  <2>2. {t \in Tasks : code[t] = "OK"} = {}
    BY MultipartAssumption DEF Init, Codes
  <2> QED BY <2>1, <2>2 DEF Init, AtomicUploads!Init, AtomicUploads!NoParts, NoParts
<1>2. UploadInv /\ CompletedAsListed' /\ [Next]_vars => [AtomicUploads!Next]_(AtomicUploads!vars)
  <2> SUFFICES ASSUME UploadInv, CompletedAsListed', [Next]_vars
               PROVE  [AtomicUploads!Next]_(AtomicUploads!vars)
    OBVIOUS
  <2>1. ASSUME NEW t \in Tasks, Serialize_access(t) PROVE UNCHANGED AtomicUploads!vars
    <3>1. /\ holder = Nil /\ holder' = t /\ UNCHANGED <<info, list, object, req, code>>
          /\ pc'[t] \in {"mkdir", "guard", "place", "source", "recheck"}
      BY <2>1 DEF Serialize_access, go, upload, world, UploadInv, TypeOK
    <3>2. upload_id' = upload_id
      BY <3>1, SeenOutside, SeenAfter
    <3> QED BY <3>1, <3>2, Unseen DEF shown_parts, acknowledged
  <2>2. ASSUME NEW t \in Tasks, Release_access(t) PROVE UNCHANGED AtomicUploads!vars
    <3>1. pc[t] = "unlock" /\ holder' = Nil /\ UNCHANGED <<info, list, object, req, code>>
      BY <2>2 DEF Release_access, upload, world
    <3>2. holder = t
      BY <3>1 DEF UploadInv, Exclusive, Inner
    <3>3. upload_id = info /\ upload_id' = info'
      BY <3>1, <3>2, SeenInExclusion DEF upload_id, in_creation, in_completion
    <3> QED BY <3>1, <3>3, Unseen DEF shown_parts, acknowledged
  <2>3. ~ Crash
    BY DEF Crash, UploadInv, TypeOK
  <2>4. CASE Change_source \/ UNCHANGED vars
    <3>1. UNCHANGED <<info, list, object, holder, pc, req, stat, code>>
      BY <2>4 DEF Change_source, vars, upload, world
    <3>2. upload_id' = upload_id
      BY <3>1 DEF upload_id, in_creation, in_completion, op
    <3> QED BY <3>1, <3>2, Unseen DEF shown_parts, acknowledged
  <2> QED BY <2>1, <2>2, <2>3, <2>4, FreeRefines, InsideRefines DEF Next, Step, Free, Ended
<1>3. Spec => []CompletedAsListed
  BY CompletesAsListed
<1> QED BY <1>1, <1>2, <1>3, UploadInvariant, PTL
        DEF Spec, ImplementsUploads, AtomicUploads!Spec
=============================================================================
