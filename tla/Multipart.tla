----------------------------- MODULE Multipart -----------------------------
(***************************************************************************)
(* Multipart uploads to one object: CreateMultipartUpload, UploadPart,     *)
(* UploadPartCopy, ListParts, AbortMultipartUpload and                     *)
(* CompleteMultipartUpload of v1/server.                                   *)
(*                                                                         *)
(* An upload is a directory ".name@mpul" with a file "info" (the upload    *)
(* id), a file "list" (the catalog, the ETag of each part) and a file for  *)
(* each part.  Changes of the directory are made in the exclusion of the   *)
(* object's name; CompleteMultipartUpload and ListParts read it outside.   *)
(* A call on the filesystem is a step.  A request makes its steps in the   *)
(* order of its pc:                                                        *)
(*   Create          lock mkdir info catalog                               *)
(*   UploadPart      check upload lock recheck place catalog               *)
(*   UploadPartCopy  check stat etag copy lock [source] recheck place      *)
(*                   catalog                                               *)
(*   Complete        check verify concat* [target] lock [guard] place      *)
(*                   uninfo rmall*                                         *)
(*   Abort           lock recheck uninfo rmall*                            *)
(*   ListParts       check list                                            *)
(* and ends with unlock, discard, done where it has to.                    *)
(*                                                                         *)
(* The data of a part stands for its ETag.  An upload id stands for what   *)
(* the info file holds: initiation time, checksum algorithm and metainfo.  *)
(* The object and its metainfo are placed in one step here; module         *)
(* ObjectStore is about the two files of an object.                        *)
(***************************************************************************)
EXTENDS Naturals, Sequences

CONSTANTS
  Tasks,       \* one goroutine of a request each
  Ids,         \* upload ids
  Numbers,     \* part numbers
  Data,        \* contents of parts and of the copy source
  Reqs,        \* the requests of the clients
  Found,       \* catalogs of an upload that is there at start
  Faults,      \* the filesystem calls that may fail
  MaxPuts,     \* how often the copy source may be replaced or deleted
  MaxCrashes,  \* how often the server may be killed
  Nil

Opt(S) == {Nil} \cup S

Ops == {"CreateMultipartUpload", "UploadPart", "UploadPartCopy", "ListParts",
        "AbortMultipartUpload", "CompleteMultipartUpload"}

Codes == {"OK", "NoSuchUpload", "NoSuchKey", "InvalidArgument", "InvalidPart",
          "InvalidPartOrder", "InternalError", "PreconditionFailed",
          "IncompleteBody", "RequestTimeout", "Panic"}

\* The parameters of a request: the part (no) with its data, or the range of
\* the copy source it takes; the parts listed for completion; If-None-Match: *
\* (fresh); If-Match-Initiated-Time (since).
Request ==
  [op : Ops, uid : Opt(Ids), no : Opt(Numbers), data : Opt(Data),
   range : BOOLEAN, list : Seq([no : Numbers, etag : Data]),
   fresh : BOOLEAN, since : Opt(Ids)]

\* A file with its contents and the number of the source it is a link to, 0
\* for an upload.  History: the id it was uploaded for.
Part == [ino : Nat, data : Data, uid : Ids]
File == [ino : Nat, data : Data]
Object == [by : Tasks, data : Seq(Data), meta : Ids]
Scratch == File \cup [ino : {0}, data : Seq(Data)]

ASSUME MultipartAssumption ==
  /\ Numbers \subseteq Nat \ {0}
  /\ \A r \in Reqs :
       /\ r.op \in Ops /\ r.uid \in Opt(Ids) /\ r.since \in Opt(Ids)
       /\ r.range \in BOOLEAN /\ r.fresh \in BOOLEAN
       /\ r.list \in Seq([no : Numbers, etag : Data])
       /\ r.op # "CreateMultipartUpload" => r.uid \in Ids
       /\ r.op \in {"UploadPart", "UploadPartCopy"} => r.no \in Numbers
       /\ r.op = "UploadPart" => r.data \in Data
  /\ Found \subseteq [Numbers -> Opt(Data)]
  /\ MaxPuts \in Nat /\ MaxCrashes \in Nat
  /\ Nil \notin Tasks \cup Ids \cup Data \cup Codes
  /\ Nil \notin Part
  /\ Nil \notin Object
  /\ Nil \notin Scratch
  /\ Nil \notin Reqs
  /\ Nil \notin [Numbers -> Opt(Data)]

VARIABLES
  dir,      \* whether the directory exists
  info,     \* the info file: the id of the upload
  list,     \* the catalog: the ETag of each part; Nil when it is missing
  part,     \* the part files
  object,   \* the object that a completion has made
  source,   \* the source of UploadPartCopy
  puts,     \* how often the source has been changed
  holder,   \* the task in exclusion on the object
  pc,       \* where the goroutine of the request is
  req,      \* its request
  seen,     \* the upload id it has read
  stat,     \* the source or the target it has read
  scratch,  \* its scratch file
  code,     \* its response
  crashes   \* number of crashes so far

upload == <<dir, info, list, part>>
world == <<object, source, puts>>
vars == <<upload, world, holder, pc, req, seen, stat, scratch, code, crashes>>

NoParts == [n \in Numbers |-> Nil]

\* The server may find an upload of an earlier run.
Init ==
  /\ info \in Opt(Ids)
  /\ dir = (info # Nil)
  /\ IF dir THEN list \in Found ELSE list = Nil
  /\ part = [n \in Numbers |->
               IF list = Nil \/ list[n] = Nil THEN Nil
               ELSE [ino |-> 0, data |-> list[n], uid |-> info]]
  /\ object = Nil
  /\ source \in [ino : {1}, data : Data]
  /\ puts = 1
  /\ holder = Nil
  /\ pc = [t \in Tasks |-> "idle"]
  /\ req = [t \in Tasks |-> Nil]
  /\ seen = [t \in Tasks |-> Nil]
  /\ stat = [t \in Tasks |-> Nil]
  /\ scratch = [t \in Tasks |-> Nil]
  /\ code = [t \in Tasks |-> Nil]
  /\ crashes = 0
-----------------------------------------------------------------------------
op(t) == req[t].op
go(t, p) == pc' = [pc EXCEPT ![t] = p]

Uploading == {"UploadPart", "UploadPartCopy"}

\* The returns, with the deferred release_access and discard_scratch_file
\* still to be made.
finish(t, c) ==
  /\ code' = [code EXCEPT ![t] = c]
  /\ go(t, IF holder = t THEN "unlock"
           ELSE IF scratch[t] # Nil THEN "discard" ELSE "done")

\* check_mpul_ongoing: the info file is there and has the id.
mpul_ongoing(t) == info # Nil /\ info = req[t].uid

\* The parts of a request for completion are in order; the same part may be
\* there more than once.
sorted(l) == \A i \in 1..(Len(l) - 1) : l[i].no <= l[i + 1].no

\* Mutant of check_parts: the ETags are not compared.
check_parts_exist(l, c) ==
  IF l = <<>> THEN "InvalidArgument"
  ELSE IF ~ sorted(l) THEN "InvalidPartOrder"
  ELSE IF c = Nil THEN "InternalError"
  ELSE IF \A i \in DOMAIN l : c[l[i].no] # Nil THEN "OK" ELSE "NoSuchUpload"

\* The outcome of the checks on the parts listed for completion, against the
\* catalog c.  The first part that fails decides.
check_parts(l, c) ==
  LET good(i) == c[l[i].no] = l[i].etag
      bad == CHOOSE i \in DOMAIN l : ~ good(i) /\ \A j \in 1..(i - 1) : good(j)
  IN IF l = <<>> THEN "InvalidArgument"
     ELSE IF ~ sorted(l) THEN "InvalidPartOrder"
     ELSE IF c = Nil THEN "InternalError"
     ELSE IF \A i \in DOMAIN l : good(i) THEN "OK"
     ELSE IF c[l[bad].no] = Nil THEN "NoSuchUpload"
     ELSE "InvalidPart"
-----------------------------------------------------------------------------
(***************************************************************************)
(* The steps outside of exclusion.                                         *)
(***************************************************************************)
Start(t) ==
  /\ pc[t] = "idle"
  /\ \E r \in Reqs :
       /\ req' = [req EXCEPT ![t] = r]
       /\ go(t, IF r.op \in {"CreateMultipartUpload", "AbortMultipartUpload"}
                THEN "lock" ELSE "check")
  /\ UNCHANGED <<upload, world, holder, seen, stat, scratch, code, crashes>>

\* check_mpul_ongoing, before anything is prepared.
Check_mpul_ongoing(t) ==
  /\ pc[t] = "check"
  /\ IF mpul_ongoing(t)
     THEN /\ seen' = [seen EXCEPT ![t] = info]
          /\ go(t, CASE op(t) = "UploadPart" -> "upload"
                     [] op(t) = "UploadPartCopy" -> "stat"
                     [] op(t) = "CompleteMultipartUpload" -> "verify"
                     [] op(t) = "ListParts" -> "list")
          /\ UNCHANGED code
     ELSE finish(t, "NoSuchUpload") /\ UNCHANGED seen
  /\ UNCHANGED <<upload, world, holder, req, stat, scratch, crashes>>

\* UploadPart: the body is copied to a scratch file.
Upload_scratch(t) ==
  /\ pc[t] = "upload"
  /\ scratch' = [scratch EXCEPT ![t] = [ino |-> 0, data |-> req[t].data]]
  /\ go(t, "lock")
  /\ UNCHANGED <<upload, world, holder, req, seen, stat, code, crashes>>

\* The body is short; copy_content_stream removes the scratch file.
Upload_fault(t) ==
  /\ "upload" \in Faults
  /\ pc[t] = "upload"
  /\ finish(t, "IncompleteBody")
  /\ UNCHANGED <<upload, world, holder, req, seen, stat, scratch, crashes>>

\* UploadPartCopy: check_object_exists on the source.
Fetch_source_status(t) ==
  /\ pc[t] = "stat"
  /\ stat' = [stat EXCEPT ![t] = source]
  /\ IF source = Nil THEN finish(t, "NoSuchKey")
     ELSE go(t, "etag") /\ UNCHANGED code
  /\ UNCHANGED <<upload, world, holder, req, seen, scratch, crashes>>

\* UploadPartCopy: fetch_object_etag on the source; conditions may fail.
Fetch_source_etag(t) ==
  /\ pc[t] = "etag"
  /\ \/ source # Nil /\ go(t, "copy") /\ UNCHANGED code
     \/ source = Nil /\ finish(t, "InternalError")
     \/ source # Nil /\ finish(t, "PreconditionFailed")
  /\ UNCHANGED <<upload, world, holder, req, seen, stat, scratch, crashes>>

\* copy_scratch: the file the source has now is copied or, without a range,
\* linked.
Copy_scratch(t) ==
  /\ pc[t] = "copy"
  /\ IF source = Nil THEN finish(t, "InternalError") /\ UNCHANGED scratch
     ELSE /\ scratch' = [scratch EXCEPT ![t] =
               [ino |-> IF req[t].range THEN 0 ELSE source.ino,
                data |-> source.data]]
          /\ go(t, "lock")
          /\ UNCHANGED code
  /\ UNCHANGED <<upload, world, holder, req, seen, stat, crashes>>

\* CompleteMultipartUpload: the checks of the list against the catalog.
Verify_parts(t) ==
  /\ pc[t] = "verify"
  /\ LET c == check_parts(req[t].list, list) IN
       IF c = "OK"
       THEN /\ scratch' = [scratch EXCEPT ![t] = [ino |-> 0, data |-> <<>>]]
            /\ go(t, "concat")
            /\ UNCHANGED code
       ELSE finish(t, c) /\ UNCHANGED scratch
  /\ UNCHANGED <<upload, world, holder, req, seen, stat, crashes>>

\* concat_parts_as_scratch: the next part file is opened and appended.
Concat_part(t) ==
  /\ pc[t] = "concat"
  /\ LET i == Len(scratch[t].data) + 1
         l == req[t].list
         f == part[l[i].no]
     IN IF f = Nil THEN finish(t, "InternalError") /\ UNCHANGED scratch
        ELSE /\ scratch' = [scratch EXCEPT ![t].data = Append(@, f.data)]
             /\ go(t, IF i < Len(l) THEN "concat"
                      ELSE IF req[t].fresh THEN "target" ELSE "lock")
             /\ UNCHANGED code
  /\ UNCHANGED <<upload, world, holder, req, seen, stat, crashes>>

\* build_object with conditions reads the target before exclusion.
Fetch_target_status(t) ==
  /\ pc[t] = "target"
  /\ stat' = [stat EXCEPT ![t] = object]
  /\ go(t, "lock")
  /\ UNCHANGED <<upload, world, holder, req, seen, scratch, code, crashes>>

\* ListParts answers from the catalog it reads after the check of the id.
List_parts(t) ==
  /\ pc[t] = "list"
  /\ finish(t, IF list = Nil THEN "InternalError" ELSE "OK")
  /\ UNCHANGED <<upload, world, holder, req, seen, stat, scratch, crashes>>
-----------------------------------------------------------------------------
(***************************************************************************)
(* The steps in exclusion.                                                 *)
(***************************************************************************)
Serialize_access(t) ==
  /\ pc[t] = "lock"
  /\ holder = Nil
  /\ holder' = t
  /\ go(t, CASE op(t) = "CreateMultipartUpload" -> "mkdir"
             [] op(t) = "CompleteMultipartUpload" ->
                  IF req[t].fresh THEN "guard" ELSE "place"
             [] op(t) = "UploadPartCopy" /\ req[t].range -> "source"
             [] OTHER -> "recheck")
  /\ UNCHANGED <<upload, world, req, seen, stat, scratch, code, crashes>>

Access_timeout(t) ==
  /\ pc[t] = "lock"
  /\ finish(t, "RequestTimeout")
  /\ UNCHANGED <<upload, world, holder, req, seen, stat, scratch, crashes>>

\* create_mpul_directory: a directory is made, or an existing one, with its
\* part files, is overtaken.  Ids are random and may be the same.
Create_mpul_directory(t) ==
  /\ pc[t] = "mkdir"
  /\ \E u \in Ids :
       IF u = info THEN finish(t, "InternalError") /\ UNCHANGED <<dir, seen, stat>>
       ELSE /\ dir' = TRUE
            /\ seen' = [seen EXCEPT ![t] = u]
            /\ stat' = [stat EXCEPT ![t] = info]
            /\ go(t, "info")
            /\ UNCHANGED code
  /\ UNCHANGED <<info, list, part, world, holder, req, scratch, crashes>>

Store_mpul_info(t) ==
  /\ pc[t] = "info"
  /\ info' = seen[t]
  /\ go(t, "catalog")
  /\ UNCHANGED <<dir, list, part, world, holder, req, seen, stat, scratch, code, crashes>>

\* store_mpul_info or store_mpul_catalog fails in CreateMultipartUpload: the
\* deferred call discards the directory.
Create_fault(t) ==
  /\ "store" \in Faults
  /\ pc[t] \in {"info", "catalog"}
  /\ op(t) = "CreateMultipartUpload"
  /\ code' = [code EXCEPT ![t] = "InternalError"]
  /\ go(t, "uninfo")
  /\ UNCHANGED <<upload, world, holder, req, seen, stat, scratch, crashes>>

\* Mutant of Store_mpul_catalog: a catalog that has no slots.
Store_catalog_short(t) ==
  /\ pc[t] = "catalog"
  /\ op(t) = "CreateMultipartUpload"
  /\ list' = <<>>
  /\ finish(t, "OK")
  /\ UNCHANGED <<dir, info, part, world, holder, req, seen, stat, scratch, crashes>>

\* CreateMultipartUpload stores an empty catalog, which grows by need: slots
\* that are not there and slots without an ETag are the same.
Store_mpul_catalog(t) ==
  /\ pc[t] = "catalog"
  /\ op(t) = "CreateMultipartUpload"
  /\ list' = NoParts
  /\ finish(t, "OK")
  /\ UNCHANGED <<dir, info, part, world, holder, req, seen, stat, scratch, crashes>>

\* build_object: the copy source must not have changed.
Recheck_source(t) ==
  /\ pc[t] = "source"
  /\ IF source = Nil THEN finish(t, "NoSuchKey")
     ELSE IF source.ino # stat[t].ino THEN finish(t, "InternalError")
     ELSE go(t, "recheck") /\ UNCHANGED code
  /\ UNCHANGED <<upload, world, holder, req, seen, stat, scratch, crashes>>

\* Mutant of Recheck_mpul: the upload id is not checked again for a part.
Recheck_missing(t) ==
  /\ pc[t] = "recheck"
  /\ IF op(t) \in Uploading THEN go(t, "place") /\ UNCHANGED code
     ELSE IF ~ mpul_ongoing(t) THEN finish(t, "NoSuchUpload")
     ELSE IF req[t].since \notin {Nil, info} THEN finish(t, "PreconditionFailed")
     ELSE go(t, "uninfo") /\ UNCHANGED code
  /\ UNCHANGED <<upload, world, holder, req, seen, stat, scratch, crashes>>

\* check_mpul_ongoing in exclusion, by UploadPart(Copy) and by
\* AbortMultipartUpload, which then checks the initiation time.
Recheck_mpul(t) ==
  /\ pc[t] = "recheck"
  /\ IF ~ mpul_ongoing(t) THEN finish(t, "NoSuchUpload")
     ELSE IF op(t) \in Uploading THEN go(t, "place") /\ UNCHANGED code
     ELSE IF req[t].since \notin {Nil, info} THEN finish(t, "PreconditionFailed")
     ELSE go(t, "uninfo") /\ UNCHANGED code
  /\ UNCHANGED <<upload, world, holder, req, seen, stat, scratch, crashes>>

\* build_object in CompleteMultipartUpload with If-None-Match: *.  The status
\* of a missing target is nil and is used.
Recheck_target(t) ==
  /\ pc[t] = "guard"
  /\ finish(t, IF object # stat[t] THEN "InternalError"
               ELSE IF object = Nil THEN "Panic" ELSE "PreconditionFailed")
  /\ UNCHANGED <<upload, world, holder, req, seen, stat, scratch, crashes>>

\* place_scratch_file removes a part that is a link to the same file.
same_file(t) ==
  /\ op(t) \in Uploading
  /\ scratch[t].ino # 0
  /\ part[req[t].no] # Nil /\ part[req[t].no].ino = scratch[t].ino

Place_remove_same(t) ==
  /\ pc[t] = "place"
  /\ same_file(t)
  /\ part' = [part EXCEPT ![req[t].no] = Nil]
  /\ go(t, "rename")
  /\ UNCHANGED <<dir, info, list, world, holder, req, seen, stat, scratch, code, crashes>>

renaming(t) == pc[t] = "rename" \/ (pc[t] = "place" /\ ~ same_file(t))

\* place_scratch_file: the scratch file becomes the part file.
Place_part(t) ==
  /\ renaming(t)
  /\ op(t) \in Uploading
  /\ part' = [part EXCEPT ![req[t].no] =
                [ino |-> scratch[t].ino, data |-> scratch[t].data, uid |-> req[t].uid]]
  /\ seen' = [seen EXCEPT ![t] = scratch[t].data]
  /\ scratch' = [scratch EXCEPT ![t] = Nil]
  /\ go(t, "catalog")
  /\ UNCHANGED <<dir, info, list, world, holder, req, stat, code, crashes>>

\* place_scratch_file: the scratch file becomes the object, with the metainfo
\* that the upload had when it was read.
Place_object(t) ==
  /\ renaming(t)
  /\ op(t) = "CompleteMultipartUpload"
  /\ object' = [by |-> t, data |-> scratch[t].data, meta |-> seen[t]]
  /\ scratch' = [scratch EXCEPT ![t] = Nil]
  /\ code' = [code EXCEPT ![t] = "OK"]
  /\ go(t, "uninfo")
  /\ UNCHANGED <<upload, source, puts, holder, req, seen, stat, crashes>>

\* os.Rename() fails.
Place_fault(t) ==
  /\ "rename" \in Faults
  /\ renaming(t)
  /\ finish(t, "InternalError")
  /\ UNCHANGED <<upload, world, holder, req, seen, stat, scratch, crashes>>

\* Mutant of Update_mpul_catalog: the slot of a part is off by one.
Update_catalog_shifted(t) ==
  /\ pc[t] = "catalog"
  /\ op(t) \in Uploading
  /\ LET n == IF req[t].no + 1 \in Numbers THEN req[t].no + 1 ELSE req[t].no IN
       list' = IF list = Nil THEN Nil ELSE [list EXCEPT ![n] = seen[t]]
  /\ finish(t, IF list = Nil THEN "InternalError" ELSE "OK")
  /\ UNCHANGED <<dir, info, part, world, holder, req, seen, stat, scratch, crashes>>

\* update_mpul_catalog: the entry of the part is replaced.
Update_mpul_catalog(t) ==
  /\ pc[t] = "catalog"
  /\ op(t) \in Uploading
  /\ list' = IF list = Nil THEN Nil ELSE [list EXCEPT ![req[t].no] = seen[t]]
  /\ finish(t, IF list = Nil THEN "InternalError" ELSE "OK")
  /\ UNCHANGED <<dir, info, part, world, holder, req, seen, stat, scratch, crashes>>

\* The store of the catalog fails: the new part stays with the old entry.
Update_fault(t) ==
  /\ "store" \in Faults
  /\ pc[t] = "catalog"
  /\ op(t) \in Uploading
  /\ finish(t, "InternalError")
  /\ UNCHANGED <<upload, world, holder, req, seen, stat, scratch, crashes>>

\* Mutant of Remove_mpul_info: os.RemoveAll() alone.
Remove_all_only(t) ==
  /\ pc[t] = "uninfo"
  /\ code' = [code EXCEPT ![t] = IF @ = Nil THEN "OK" ELSE @]
  /\ go(t, "rmall")
  /\ UNCHANGED <<upload, world, holder, req, seen, stat, scratch, crashes>>

\* Mutant of Remove_mpul_info: the directory is left.
Remove_info_only(t) ==
  /\ pc[t] = "uninfo"
  /\ info' = Nil
  /\ code' = [code EXCEPT ![t] = IF @ = Nil THEN "OK" ELSE @]
  /\ go(t, "unlock")
  /\ UNCHANGED <<dir, list, part, world, holder, req, seen, stat, scratch, crashes>>

\* discard_mpul_directory removes the info file first.  The response of an
\* abort is decided: later errors are ignored.
Remove_mpul_info(t) ==
  /\ pc[t] = "uninfo"
  /\ info' = Nil
  /\ code' = [code EXCEPT ![t] = IF @ = Nil THEN "OK" ELSE @]
  /\ go(t, IF dir THEN "rmall" ELSE "unlock")
  /\ UNCHANGED <<dir, list, part, world, holder, req, seen, stat, scratch, crashes>>

\* os.RemoveAll removes the files in any order, then the directory.
Remove_all(t) ==
  /\ pc[t] = "rmall"
  /\ \/ list # Nil /\ list' = Nil /\ UNCHANGED <<dir, info, part, pc>>
     \/ \E n \in Numbers :
          /\ part[n] # Nil
          /\ part' = [part EXCEPT ![n] = Nil]
          /\ UNCHANGED <<dir, info, list, pc>>
     \/ /\ list = Nil /\ part = NoParts
        /\ dir' = FALSE
        /\ info' = Nil
        /\ go(t, "unlock")
        /\ UNCHANGED <<list, part>>
  /\ UNCHANGED <<world, holder, req, seen, stat, scratch, code, crashes>>

Release_access(t) ==
  /\ pc[t] = "unlock"
  /\ holder' = Nil
  /\ go(t, IF scratch[t] # Nil THEN "discard" ELSE "done")
  /\ UNCHANGED <<upload, world, req, seen, stat, scratch, code, crashes>>

Discard_scratch_file(t) ==
  /\ pc[t] = "discard"
  /\ scratch' = [scratch EXCEPT ![t] = Nil]
  /\ go(t, "done")
  /\ UNCHANGED <<upload, world, holder, req, seen, stat, code, crashes>>
-----------------------------------------------------------------------------
\* Other requests replace or delete the source of a copy.
Change_source ==
  /\ puts < MaxPuts
  /\ puts' = puts + 1
  /\ source' \in Opt([ino : {puts + 1}, data : Data])
  /\ UNCHANGED <<upload, object, holder, pc, req, seen, stat, scratch, code, crashes>>

Running(t) == pc[t] \notin {"idle", "done", "dead"}

\* The server is killed and started again.
Crash ==
  /\ crashes < MaxCrashes
  /\ \E t \in Tasks : Running(t)
  /\ crashes' = crashes + 1
  /\ pc' = [t \in Tasks |-> IF Running(t) THEN "dead" ELSE pc[t]]
  /\ holder' = Nil
  /\ UNCHANGED <<upload, world, req, seen, stat, scratch, code>>

Outside(t) ==
  \/ Check_mpul_ongoing(t) \/ Upload_scratch(t) \/ Upload_fault(t)
  \/ Fetch_source_status(t) \/ Fetch_source_etag(t) \/ Copy_scratch(t)
  \/ Verify_parts(t) \/ Concat_part(t) \/ Fetch_target_status(t) \/ List_parts(t)

Inside(t) ==
  \/ Create_mpul_directory(t) \/ Store_mpul_info(t) \/ Create_fault(t)
  \/ Store_mpul_catalog(t) \/ Recheck_source(t) \/ Recheck_mpul(t)
  \/ Recheck_target(t) \/ Place_remove_same(t) \/ Place_part(t)
  \/ Place_object(t) \/ Place_fault(t) \/ Update_mpul_catalog(t)
  \/ Update_fault(t) \/ Remove_mpul_info(t) \/ Remove_all(t)

Step(t) == Outside(t) \/ Inside(t) \/ Release_access(t) \/ Discard_scratch_file(t)

Ended == (\A t \in Tasks : pc[t] \in {"done", "dead"}) /\ UNCHANGED vars

Next ==
  \/ \E t \in Tasks :
       Start(t) \/ Serialize_access(t) \/ Access_timeout(t) \/ Step(t)
  \/ Change_source
  \/ Crash
  \/ Ended

Spec == Init /\ [][Next]_vars
-----------------------------------------------------------------------------
(***************************************************************************)
(* Properties.                                                             *)
(***************************************************************************)
PC == {"idle", "check", "upload", "stat", "etag", "copy", "verify", "concat",
       "target", "list", "lock", "mkdir", "info", "catalog", "source",
       "recheck", "guard", "place", "rename", "uninfo", "rmall", "unlock",
       "discard", "done", "dead"}

\* Every variable has its type.
TypeOK ==
  /\ dir \in BOOLEAN
  /\ info \in Opt(Ids)
  /\ list = Nil \/ list \in [Numbers -> Opt(Data)]
  /\ part \in [Numbers -> Opt(Part)]
  /\ object \in Opt(Object)
  /\ source \in Opt(File)
  /\ puts \in Nat
  /\ holder \in Opt(Tasks)
  /\ pc \in [Tasks -> PC]
  /\ req \in [Tasks -> Opt(Reqs)]
  /\ seen \in [Tasks -> Opt(Ids \cup Data)]
  /\ stat \in [Tasks -> Opt(File \cup Object \cup Ids)]
  /\ scratch \in [Tasks -> Opt(Scratch)]
  /\ code \in [Tasks -> Opt(Codes)]
  /\ crashes \in Nat

\* The upload as clients see it: a creation takes effect when the empty
\* catalog is stored, a completion when the object is in place.
in_creation == holder # Nil /\ pc[holder] = "catalog" /\ op(holder) \notin Uploading
in_completion == holder # Nil /\ pc[holder] = "uninfo" /\ code[holder] # Nil
upload_id ==
  IF in_creation THEN stat[holder] ELSE IF in_completion THEN Nil ELSE info

\* The parts in the catalog have their files.
backed == list # Nil => \A n \in Numbers : list[n] # Nil => part[n] # Nil

\* The parts in the catalog of an ongoing upload have their files, in
\* exclusion and outside, also after a kill in the middle of a removal: a
\* completion whose list fits the catalog finds its parts.  It rests on the
\* info file being the first to go.  While a creation overtakes a directory,
\* its id is not known to clients and the catalog may be a stale one.  A second
\* kill, of a creation that overtakes what the first has left, is too much.
CatalogBacked == crashes <= 1 /\ upload_id # Nil => backed

\* build_object, "Re-check the MPUL upload-id after exclusion": a part enters
\* the directory only for the upload that is going on, although its id was
\* checked long before, and the upload may be aborted, completed or replaced
\* while the data arrives.
PartsOwned ==
  [][\A n \in Numbers :
       part'[n] # part[n] /\ part'[n] # Nil => part'[n].uid = info]_vars

\* An upload that is over leaves no directory (which would keep its bucket
\* from being deleted), also when a creation fails half-way.  A kill may, and
\* so may a failing os.RemoveAll, which Faults has not.
DirectoryGone == crashes = 0 /\ holder = Nil /\ info = Nil => ~ dir

\* The data that a part may have by the requests, and at start; and that it is
\* always the same, for each part that a completion lists.
sent(n) ==
  {d \in Data :
     \/ \E r \in Reqs : r.no = n /\ (r.op = "UploadPartCopy" \/ (r.op = "UploadPart" /\ r.data = d))
     \/ \E c \in Found : c[n] = d}
SteadyParts ==
  \A r \in Reqs : r.op = "CompleteMultipartUpload" /\ sorted(r.list) =>
    \A i \in DOMAIN r.list : \A d, e \in sent(r.list[i].no) : d = e

\* A completed object consists of the parts that its request lists, whatever
\* other requests do meanwhile.  It holds as long as clients send the same
\* data whenever they send the same part.
CompletedAsListed ==
  object # Nil =>
    LET l == req[object.by].list IN object.data = [i \in DOMAIN l |-> l[i].etag]

\* Without failures the files of the directory act as one upload: a request
\* that is acknowledged has changed it in one step and every other request
\* has left it alone.
AtomicUploads == INSTANCE Uploads WITH
  ongoing <- upload_id,
  parts <- IF upload_id = Nil \/ list = Nil THEN NoParts ELSE list,
  object <- IF object = Nil THEN Nil ELSE object.data,
  asked <- req,
  acked <- {t \in Tasks : code[t] = "OK"}
ImplementsUploads == AtomicUploads!Spec
=============================================================================
