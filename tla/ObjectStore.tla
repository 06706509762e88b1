---------------------------- MODULE ObjectStore ----------------------------
(***************************************************************************)
(* The object operations of v1/server: PutObject, CopyObject, DeleteObject,*)
(* the tagging operations, GetObject, HeadObject and GetObjectAttributes.  *)
(* An object is a file, with an optional metainfo file ".name@meta" beside *)
(* it.  A metainfo file names the file it belongs to by an entity-key and  *)
(* is ignored when the key does not match.  A request prepares a scratch   *)
(* file outside of exclusion; the exclusion of an object's name (modules   *)
(* Monitor and Exclusion, here the lock holder) covers the store of the    *)
(* metainfo file and the rename of the scratch file.  Readers do not lock. *)
(*                                                                         *)
(* A call on the filesystem is a step, with the computation up to the next *)
(* call.  The entity-key (a hash of inode number, size and mtime) is the   *)
(* number of the file, never used twice.  Data stands for its MD5 and for  *)
(* its ETag.  A request makes its steps in the order of its pc:            *)
(*   PutObject      upload [stat meta md5] lock [guard] [store] place      *)
(*   CopyObject     stat meta md5 link lock [store] place                  *)
(*   DeleteObject   stat meta md5 lock guard unmeta remove                 *)
(*   Put/DeleteObjectTagging   lock stat meta [md5] store                  *)
(*   Get/HeadObject stat meta md5 [lock guard store unlock] serve          *)
(* and ends with unlock, discard, done where it has to.                    *)
(***************************************************************************)
EXTENDS Naturals

CONSTANTS
  Tasks,       \* one goroutine of a request each
  Keys,        \* object names
  Data,        \* contents
  LargeData,   \* the contents of at least Etag_save_threshold bytes
  Labels,      \* tag sets and sets of metadata headers
  Reqs,        \* the requests of the clients
  Found,       \* number of existing files in the pool at start
  Faults,      \* the filesystem calls that may fail
  MaxCrashes,  \* how often the server may be killed
  Nil

NoCond == [some |-> Nil, none |-> Nil]

Ops == {"PutObject", "CopyObject", "DeleteObject", "PutObjectTagging",
        "DeleteObjectTagging", "GetObject", "HeadObject", "GetObjectTagging",
        "GetObjectAttributes"}

Codes == {"OK", "NoSuchKey", "InternalError", "PreconditionFailed",
          "NotModified", "RequestTimeout", "BadDigest", "Panic"}

Opt(S) == {Nil} \cup S
Condition == [some : Opt(Data \cup {"*"}), none : Opt(Data \cup {"*"})]
Directive == {"COPY", "REPLACE", ""}

\* The parameters of a request that matter; those of other operations are Nil.
Request == [op : Ops, key : Keys, src : Opt(Keys), data : Opt(Data),
            tags : Opt(Labels), hdrs : Opt(Labels), cond : Condition,
            metadata : Directive, tagging : Directive]

File == [ino : Nat, data : Data]
Meta_info == [ent : Nat, etag : Data, tags : Opt(Labels), hdrs : Opt(Labels)]
Object == [data : Data, tags : Opt(Labels), hdrs : Opt(Labels)]
Response ==
  [code : Codes, etag : Opt(Data), body : Opt(Data), info : Opt(Meta_info)]

ASSUME StoreAssumption ==
  /\ LargeData \subseteq Data
  /\ Reqs \subseteq Request
  /\ \A r \in Reqs :
       /\ r.op = "PutObject" => r.data # Nil
       /\ r.op = "CopyObject" => r.src # Nil
  /\ Nil \notin Tasks \cup Keys \cup Data \cup Labels \cup {"*"}
  /\ Nil \notin Request
  /\ Nil \notin Object
  /\ Nil \notin File
  /\ Nil \notin Meta_info
  /\ Nil \notin Response
  /\ Found \in Nat
  /\ MaxCrashes \in Nat

VARIABLES
  file,     \* file[k]: the object's file, Nil when it does not exist
  meta,     \* meta[k]: the metainfo file
  holder,   \* holder[k]: the task in exclusion on k
  made,     \* the number of files made so far
  pc,       \* where the goroutine of the request is
  req,      \* its request
  stat,     \* the entity-key and stat it has read
  etag,     \* the ETag it has read or calculated
  seen,     \* the metainfo it has read, if it matched the entity-key
  scratch,  \* its scratch file
  resp,     \* its response
  crashes,  \* number of crashes so far
  prior     \* history: the valid metainfo of the key when it was locked

reading == <<stat, etag, seen>>
vars == <<file, meta, holder, made, pc, req, stat, etag, seen, scratch, resp,
          crashes, prior>>

Init ==
  /\ file \in {f \in [Keys -> {Nil} \cup [ino : 1..Found, data : Data]] :
                 \A j, k \in Keys :
                   f[j] # Nil /\ f[k] # Nil /\ f[j].ino = f[k].ino
                     => f[j].data = f[k].data}
  /\ meta = [k \in Keys |-> Nil]
  /\ holder = [k \in Keys |-> Nil]
  /\ made = Found
  /\ pc = [t \in Tasks |-> "idle"]
  /\ req = [t \in Tasks |-> Nil]
  /\ stat = [t \in Tasks |-> Nil]
  /\ etag = [t \in Tasks |-> Nil]
  /\ seen = [t \in Tasks |-> Nil]
  /\ scratch = [t \in Tasks |-> Nil]
  /\ resp = [t \in Tasks |-> Nil]
  /\ crashes = 0
  /\ prior = [t \in Tasks |-> Nil]
-----------------------------------------------------------------------------
(***************************************************************************)
(* What a request computes from the state it has read.                     *)
(***************************************************************************)
op(t) == req[t].op
key(t) == req[t].key

\* The object whose status a request reads: a copy reads its source.
read_key(t) == IF op(t) = "CopyObject" THEN req[t].src ELSE req[t].key

Reading == {"GetObject", "HeadObject"}
Writing == {"PutObject", "CopyObject"}
Tagging == {"PutObjectTagging", "DeleteObjectTagging"}

\* Conditions make PutObject read the status of its target.
conditional_put(t) == op(t) = "PutObject" /\ req[t].cond # NoCond

\* Mutant of fetch_object_metainfo: the entity-key is not compared.
fetch_any_metainfo(k, f) == IF f # Nil THEN meta[k] ELSE Nil

\* fetch_object_metainfo: nil if the file does not exist or is outdated.
fetch_object_metainfo(k, f) ==
  IF f # Nil /\ meta[k] # Nil /\ meta[k].ent = f.ino THEN meta[k] ELSE Nil

\* The outcome of check_conditions.  An empty ETag means nonexistence.
check_conditions(e, mode, c) ==
  IF c = NoCond \/ (e = Nil /\ mode = "delete") THEN "OK"
  ELSE IF c.some # Nil /\ (e = Nil \/ c.some \notin {"*", e})
    THEN "PreconditionFailed"
  ELSE IF c.none # Nil /\ e # Nil /\ c.none \in {"*", e}
    THEN IF mode = "read" THEN "NotModified" ELSE "PreconditionFailed"
  ELSE "OK"

\* Metainfo is nil when there is nothing to record and the object is small.
make_metainfo(f, tags, hdrs) ==
  IF tags = Nil /\ hdrs = Nil /\ f.data \notin LargeData THEN Nil
  ELSE [ent |-> f.ino, etag |-> f.data, tags |-> tags, hdrs |-> hdrs]

\* The choice of CopyObject by MetadataDirective and TaggingDirective.
by_directive(d, given, copied) ==
  CASE d = "COPY" -> copied [] d = "REPLACE" -> given [] OTHER -> Nil

\* Mutant of new_metainfo: CopyObject records the ETag of the source it read
\* at first, in place of the MD5 of the scratch file.
new_metainfo_of_source(t) ==
  IF op(t) = "CopyObject" /\ req[t].tagging = "REPLACE"
  THEN [ent |-> scratch[t].ino, etag |-> etag[t],
        tags |-> req[t].tags, hdrs |-> req[t].hdrs]
  ELSE make_metainfo(scratch[t], req[t].tags, req[t].hdrs)

\* The metainfo prepared by PutObject or CopyObject.
new_metainfo(t) ==
  IF op(t) = "PutObject" THEN make_metainfo(scratch[t], req[t].tags, req[t].hdrs)
  ELSE make_metainfo(scratch[t],
         by_directive(req[t].tagging, req[t].tags,
                      IF seen[t] = Nil THEN Nil ELSE seen[t].tags),
         by_directive(req[t].metadata, req[t].hdrs,
                      IF seen[t] = Nil THEN Nil ELSE seen[t].hdrs))

\* Metainfo with only an ETag.
etag_metainfo(t) ==
  [ent |-> stat[t].ino, etag |-> etag[t], tags |-> Nil, hdrs |-> Nil]

\* What a request stores in the metainfo file.
metainfo_to_store(t) ==
  CASE op(t) \in Writing -> new_metainfo(t)
    [] op(t) \in Reading -> etag_metainfo(t)
    [] op(t) = "PutObjectTagging" ->
         [(IF seen[t] = Nil THEN etag_metainfo(t) ELSE seen[t])
            EXCEPT !.tags = req[t].tags]
    [] op(t) = "DeleteObjectTagging" -> [seen[t] EXCEPT !.tags = Nil]

\* entity2 != entity.
changed(f, g) ==
  (f = Nil) # (g = Nil) \/ (f # Nil /\ g # Nil /\ f.ino # g.ino)

\* After a scratch file is prepared and exclusion is entered.
to_place(t) == IF new_metainfo(t) = Nil THEN "place" ELSE "store"

\* After fetch_object_etag.  A reader stores the ETag of a large object.
after_etag(t, m) ==
  CASE op(t) = "CopyObject" -> "link"
    [] op(t) \in {"PutObject", "DeleteObject"} -> "lock"
    [] op(t) = "PutObjectTagging" -> "store"
    [] op(t) \in Reading ->
         IF m = Nil /\ stat[t].data \in LargeData THEN "lock" ELSE "serve"
    [] OTHER -> "serve"

go(t, p) == pc' = [pc EXCEPT ![t] = p]

\* Mutant of answer: exclusion is not released on return.
answer_locked(t, r) ==
  /\ resp' = [resp EXCEPT ![t] = r]
  /\ go(t, IF scratch[t] # Nil THEN "discard" ELSE "done")

\* Return from the operation, with the deferred calls still to be made:
\* release_access, then discard_scratch_file.
reply(c) == [code |-> c, etag |-> Nil, body |-> Nil, info |-> Nil]
answer(t, r) ==
  /\ resp' = [resp EXCEPT ![t] = r]
  /\ go(t, IF holder[key(t)] = t THEN "unlock"
           ELSE IF scratch[t] # Nil THEN "discard" ELSE "done")
finish(t, c) == answer(t, reply(c))
-----------------------------------------------------------------------------
(***************************************************************************)
(* The steps of a request.                                                 *)
(***************************************************************************)

\* A request arrives.
Start(t) ==
  /\ pc[t] = "idle"
  /\ \E r \in Reqs :
       /\ req' = [req EXCEPT ![t] = r]
       /\ go(t, CASE r.op = "PutObject" -> "upload"
                  [] r.op \in Tagging -> "lock"
                  [] OTHER -> "stat")
  /\ UNCHANGED <<file, meta, holder, made, reading, scratch, resp, crashes, prior>>

\* upload_scratch: the body is copied to a new file.
Upload_scratch(t) ==
  /\ pc[t] = "upload"
  /\ made' = made + 1
  /\ scratch' = [scratch EXCEPT ![t] = [ino |-> made + 1, data |-> req[t].data]]
  /\ go(t, IF conditional_put(t) THEN "stat" ELSE "lock")
  /\ UNCHANGED <<file, meta, holder, req, reading, resp, crashes, prior>>

\* The body is short, or compare_checksums fails on it.
Upload_fault(t) ==
  /\ "upload" \in Faults
  /\ pc[t] = "upload"
  /\ made' = made + 1
  /\ scratch' = [scratch EXCEPT ![t] = [ino |-> made + 1, data |-> req[t].data]]
  /\ resp' = [resp EXCEPT ![t] = reply("BadDigest")]
  /\ go(t, "discard")
  /\ UNCHANGED <<file, meta, holder, req, reading, crashes, prior>>

\* fetch_object_status, check_object_exists: a conditional PutObject accepts
\* a missing object.
Fetch_object_status(t) ==
  /\ pc[t] = "stat"
  /\ stat' = [stat EXCEPT ![t] = file[read_key(t)]]
  /\ IF file[read_key(t)] = Nil /\ ~ conditional_put(t)
     THEN finish(t, "NoSuchKey")
     ELSE go(t, "meta") /\ UNCHANGED resp
  /\ UNCHANGED <<file, meta, holder, made, req, etag, seen, scratch, crashes, prior>>

\* Mutant of Fetch_object_metainfo: no MD5 is calculated without metainfo.
Fetch_only_metainfo(t) ==
  /\ pc[t] = "meta"
  /\ LET m == fetch_object_metainfo(read_key(t), stat[t]) IN
       /\ seen' = [seen EXCEPT ![t] = m]
       /\ etag' = [etag EXCEPT ![t] = IF m = Nil THEN Nil ELSE m.etag]
       /\ go(t, after_etag(t, m))
  /\ UNCHANGED <<file, meta, holder, made, req, stat, scratch, resp, crashes, prior>>

\* fetch_object_metainfo, alone or in fetch_object_etag.
Fetch_object_metainfo(t) ==
  /\ pc[t] = "meta"
  /\ LET m == fetch_object_metainfo(read_key(t), stat[t]) IN
       /\ seen' = [seen EXCEPT ![t] = m]
       /\ etag' = [etag EXCEPT ![t] = IF m = Nil THEN Nil ELSE m.etag]
       /\ CASE op(t) = "GetObjectTagging" -> go(t, "serve") /\ UNCHANGED resp
            [] op(t) = "DeleteObjectTagging" ->
                 IF m # Nil /\ m.tags # Nil
                 THEN go(t, "store") /\ UNCHANGED resp
                 ELSE finish(t, "OK")
            [] OTHER ->
                 /\ go(t, IF m = Nil THEN "md5" ELSE after_etag(t, m))
                 /\ UNCHANGED resp
  /\ UNCHANGED <<file, meta, holder, made, req, stat, scratch, crashes, prior>>

\* calculate_csum2 in fetch_object_etag: the entity-key of the file that is
\* read is dropped.  A conditional PutObject ignores errors.
Calculate_csum2(t) ==
  /\ pc[t] = "md5"
  /\ LET f == file[read_key(t)] IN
       IF f # Nil \/ conditional_put(t)
       THEN /\ etag' = [etag EXCEPT ![t] = IF f = Nil THEN Nil ELSE f.data]
            /\ go(t, after_etag(t, Nil))
            /\ UNCHANGED resp
       ELSE finish(t, "InternalError") /\ UNCHANGED etag
  /\ UNCHANGED <<file, meta, holder, made, req, stat, seen, scratch, crashes, prior>>

\* CopyObject checks the conditions on the source, then copy_scratch links
\* the file the source has now.
Copy_scratch(t) ==
  /\ pc[t] = "link"
  /\ LET c == check_conditions(etag[t], "read", req[t].cond)
         f == file[req[t].src]
     IN IF c # "OK" THEN finish(t, c) /\ UNCHANGED scratch
        ELSE IF f = Nil THEN finish(t, "InternalError") /\ UNCHANGED scratch
        ELSE /\ scratch' = [scratch EXCEPT ![t] = f]
             /\ go(t, "lock")
             /\ UNCHANGED resp
  /\ UNCHANGED <<file, meta, holder, made, req, reading, crashes, prior>>

\* calculate_csum2 in link_file_as_scratch fails after os.Link; CopyObject
\* returns before it defers discard_scratch_file.
Copy_scratch_fault(t) ==
  /\ "link" \in Faults
  /\ pc[t] = "link"
  /\ check_conditions(etag[t], "read", req[t].cond) = "OK"
  /\ file[req[t].src] # Nil
  /\ scratch' = [scratch EXCEPT ![t] = file[req[t].src]]
  /\ resp' = [resp EXCEPT ![t] = reply("InternalError")]
  /\ go(t, "done")
  /\ UNCHANGED <<file, meta, holder, made, req, reading, crashes, prior>>

\* serialize_access succeeds.
Serialize_access(t) ==
  /\ pc[t] = "lock"
  /\ holder[key(t)] = Nil
  /\ holder' = [holder EXCEPT ![key(t)] = t]
  /\ prior' = [prior EXCEPT ![t] = fetch_object_metainfo(key(t), file[key(t)])]
  /\ go(t, CASE op(t) \in Tagging -> "stat"
             [] op(t) = "CopyObject" -> to_place(t)
             [] op(t) = "PutObject" /\ ~ conditional_put(t) -> to_place(t)
             [] OTHER -> "guard")
  /\ UNCHANGED <<file, meta, made, req, reading, scratch, resp, crashes>>

\* serialize_access times out.
Access_timeout(t) ==
  /\ pc[t] = "lock"
  /\ finish(t, "RequestTimeout")
  /\ UNCHANGED <<file, meta, holder, made, req, reading, scratch, crashes, prior>>

\* store_metainfo_serialized: the recheck of a reader in exclusion.
Store_metainfo_serialized(t) ==
  /\ pc[t] = "guard"
  /\ op(t) \in Reading
  /\ IF file[key(t)] = Nil THEN finish(t, "NoSuchKey")
     ELSE IF changed(file[key(t)], stat[t]) THEN finish(t, "InternalError")
     ELSE go(t, "store") /\ UNCHANGED resp
  /\ UNCHANGED <<file, meta, holder, made, req, reading, scratch, crashes, prior>>

\* Mutant of Recheck_target: conditions alone are checked.
Recheck_conditions(t) ==
  /\ pc[t] = "guard"
  /\ op(t) \in {"PutObject", "DeleteObject"}
  /\ LET mode == IF op(t) = "DeleteObject" THEN "delete" ELSE "write"
         c == check_conditions(etag[t], mode, req[t].cond)
     IN IF c # "OK" THEN finish(t, c)
        ELSE /\ go(t, IF op(t) = "DeleteObject" THEN "unmeta" ELSE to_place(t))
             /\ UNCHANGED resp
  /\ UNCHANGED <<file, meta, holder, made, req, reading, scratch, crashes, prior>>

\* The recheck of build_object and delete_object in exclusion, then the
\* conditions on the object as it was read before exclusion.
Recheck_target(t) ==
  /\ pc[t] = "guard"
  /\ op(t) \in {"PutObject", "DeleteObject"}
  /\ ~ (stat[t] = Nil /\ file[key(t)] = Nil)
  /\ LET mode == IF op(t) = "DeleteObject" THEN "delete" ELSE "write"
         c == check_conditions(etag[t], mode, req[t].cond)
     IN IF changed(file[key(t)], stat[t]) THEN finish(t, "InternalError")
        ELSE IF c # "OK" THEN finish(t, c)
        ELSE /\ go(t, IF op(t) = "DeleteObject" THEN "unmeta" ELSE to_place(t))
             /\ UNCHANGED resp
  /\ UNCHANGED <<file, meta, holder, made, req, reading, scratch, crashes, prior>>

\* build_object with conditions on an object that is missing, before and in
\* exclusion: target_stat.ModTime() on nil.  The deferred calls are made.
Recheck_panic(t) ==
  /\ pc[t] = "guard"
  /\ conditional_put(t)
  /\ stat[t] = Nil /\ file[key(t)] = Nil
  /\ finish(t, "Panic")
  /\ UNCHANGED <<file, meta, holder, made, req, reading, scratch, crashes, prior>>

\* store_object_metainfo, with an atomic rename.
Store_object_metainfo(t) ==
  /\ pc[t] = "store"
  /\ meta' = [meta EXCEPT ![key(t)] = metainfo_to_store(t)]
  /\ CASE op(t) \in Writing -> go(t, "place") /\ UNCHANGED resp
       [] op(t) \in Reading -> go(t, "unlock") /\ UNCHANGED resp
       [] OTHER -> finish(t, "OK")
  /\ UNCHANGED <<file, holder, made, req, reading, scratch, crashes, prior>>

\* Mutant of Store_fault: the error is ignored.
Store_fault_ignored(t) ==
  /\ "store" \in Faults
  /\ pc[t] = "store"
  /\ IF op(t) \in Writing THEN go(t, "place") /\ UNCHANGED resp
     ELSE finish(t, "OK")
  /\ UNCHANGED <<file, meta, holder, made, req, reading, scratch, crashes, prior>>

\* store_object_metainfo fails, on a full filesystem for example.
Store_fault(t) ==
  /\ "store" \in Faults
  /\ pc[t] = "store"
  /\ finish(t, "InternalError")
  /\ UNCHANGED <<file, meta, holder, made, req, reading, scratch, crashes, prior>>

\* place_scratch_file: rename(2) does nothing on two links of a file, so that
\* the target is removed first.
same_file(t) ==
  /\ op(t) = "CopyObject"
  /\ file[key(t)] # Nil /\ file[key(t)].ino = scratch[t].ino

Place_remove_same(t) ==
  /\ pc[t] = "place"
  /\ same_file(t)
  /\ file' = [file EXCEPT ![key(t)] = Nil]
  /\ go(t, "rename")
  /\ UNCHANGED <<meta, holder, made, req, reading, scratch, resp, crashes, prior>>

\* place_scratch_file: os.Rename().
Place_scratch_file(t) ==
  /\ pc[t] = "rename" \/ (pc[t] = "place" /\ ~ same_file(t))
  /\ file' = [file EXCEPT ![key(t)] = scratch[t]]
  /\ scratch' = [scratch EXCEPT ![t] = Nil]
  /\ resp' = [resp EXCEPT ![t] = [reply("OK") EXCEPT !.etag = scratch[t].data]]
  /\ go(t, "unlock")
  /\ UNCHANGED <<meta, holder, made, req, reading, crashes, prior>>

\* place_scratch_file: os.Rename() fails.
Place_fault(t) ==
  /\ "rename" \in Faults
  /\ pc[t] = "rename" \/ (pc[t] = "place" /\ ~ same_file(t))
  /\ resp' = [resp EXCEPT ![t] = reply("InternalError")]
  /\ go(t, IF new_metainfo(t) = Nil THEN "unlock" ELSE "undo")
  /\ UNCHANGED <<file, meta, holder, made, req, reading, scratch, crashes, prior>>

\* The deferred call of place_scratch_file removes the new metainfo.
Place_undo(t) ==
  /\ pc[t] = "undo"
  /\ meta' = [meta EXCEPT ![key(t)] = Nil]
  /\ go(t, "unlock")
  /\ UNCHANGED <<file, holder, made, req, reading, scratch, resp, crashes, prior>>

\* delete_object: the metainfo file is removed first.
Delete_metainfo(t) ==
  /\ pc[t] = "unmeta"
  /\ meta' = [meta EXCEPT ![key(t)] = Nil]
  /\ go(t, "remove")
  /\ UNCHANGED <<file, holder, made, req, reading, scratch, resp, crashes, prior>>

\* delete_object: the object is removed.
Delete_object(t) ==
  /\ pc[t] = "remove"
  /\ file' = [file EXCEPT ![key(t)] = Nil]
  /\ finish(t, "OK")
  /\ UNCHANGED <<meta, holder, made, req, reading, scratch, crashes, prior>>

\* delete_object: os.Remove() fails.
Delete_fault(t) ==
  /\ "remove" \in Faults
  /\ pc[t] = "remove"
  /\ finish(t, "InternalError")
  /\ UNCHANGED <<file, meta, holder, made, req, reading, scratch, crashes, prior>>

\* Mutant of Release_access: a failed request forgets its scratch file.
Release_access_only(t) ==
  /\ pc[t] = "unlock"
  /\ holder' = [holder EXCEPT ![key(t)] = Nil]
  /\ go(t, IF resp[t] = Nil THEN "serve" ELSE "done")
  /\ UNCHANGED <<file, meta, made, req, reading, scratch, resp, crashes, prior>>

\* release_access.  A reader that has stored an ETag goes on.
Release_access(t) ==
  /\ pc[t] = "unlock"
  /\ holder' = [holder EXCEPT ![key(t)] = Nil]
  /\ go(t, CASE resp[t] = Nil -> "serve"
             [] resp[t] # Nil /\ scratch[t] # Nil -> "discard"
             [] OTHER -> "done")
  /\ UNCHANGED <<file, meta, made, req, reading, scratch, resp, crashes, prior>>

\* The deferred discard_scratch_file.
Discard_scratch_file(t) ==
  /\ pc[t] = "discard"
  /\ scratch' = [scratch EXCEPT ![t] = Nil]
  /\ go(t, "done")
  /\ UNCHANGED <<file, meta, holder, made, req, reading, resp, crashes, prior>>

\* The response of a reading operation.
served(t, body) ==
  [code |-> "OK", etag |-> etag[t], body |-> body, info |-> seen[t]]

\* Mutant of Get_object: the entity-key of the opened file is not compared.
Get_object_any(t) ==
  /\ pc[t] = "serve"
  /\ op(t) = "GetObject"
  /\ IF file[key(t)] = Nil THEN finish(t, "NoSuchKey")
     ELSE answer(t, served(t, file[key(t)].data))
  /\ UNCHANGED <<file, meta, holder, made, req, reading, scratch, crashes, prior>>

\* The end of GetObject: the conditions are checked and make_file_stream
\* opens the file, which must have the entity-key.
Get_object(t) ==
  /\ pc[t] = "serve"
  /\ op(t) = "GetObject"
  /\ LET c == check_conditions(etag[t], "read", req[t].cond)
         f == file[key(t)]
     IN IF c # "OK" THEN finish(t, c)
        ELSE IF f = Nil THEN finish(t, "NoSuchKey")
        ELSE IF changed(f, stat[t]) THEN finish(t, "InternalError")
        ELSE answer(t, served(t, f.data))
  /\ UNCHANGED <<file, meta, holder, made, req, reading, scratch, crashes, prior>>

\* The end of HeadObject, with no further access to the file.
Head_object(t) ==
  /\ pc[t] = "serve"
  /\ op(t) = "HeadObject"
  /\ LET c == check_conditions(etag[t], "read", req[t].cond)
     IN IF c # "OK" THEN finish(t, c) ELSE answer(t, served(t, Nil))
  /\ UNCHANGED <<file, meta, holder, made, req, reading, scratch, crashes, prior>>

\* The end of GetObjectTagging.
Get_object_tagging(t) ==
  /\ pc[t] = "serve"
  /\ op(t) = "GetObjectTagging"
  /\ answer(t, served(t, Nil))
  /\ UNCHANGED <<file, meta, holder, made, req, reading, scratch, crashes, prior>>

\* The end of GetObjectAttributes, asked for the ETag.
Get_object_attributes(t) ==
  /\ pc[t] = "serve"
  /\ op(t) = "GetObjectAttributes"
  /\ answer(t, served(t, Nil))
  /\ UNCHANGED <<file, meta, holder, made, req, reading, scratch, crashes, prior>>

Serve(t) ==
  \/ Get_object(t) \/ Head_object(t)
  \/ Get_object_tagging(t) \/ Get_object_attributes(t)

\* The server is killed and started again: goroutines and exclusion are gone,
\* files remain.
Running(t) == pc[t] \notin {"idle", "done", "dead"}

Crash ==
  /\ crashes < MaxCrashes
  /\ \E t \in Tasks : Running(t)
  /\ crashes' = crashes + 1
  /\ pc' = [t \in Tasks |-> IF Running(t) THEN "dead" ELSE pc[t]]
  /\ holder' = [k \in Keys |-> Nil]
  /\ UNCHANGED <<file, meta, made, req, reading, scratch, resp, prior>>

Prepare(t) ==
  \/ Upload_scratch(t) \/ Upload_fault(t)
  \/ Fetch_object_status(t) \/ Fetch_object_metainfo(t) \/ Calculate_csum2(t)
  \/ Copy_scratch(t) \/ Copy_scratch_fault(t)

Modify(t) ==
  \/ Store_metainfo_serialized(t) \/ Recheck_target(t) \/ Recheck_panic(t)
  \/ Store_object_metainfo(t) \/ Store_fault(t)
  \/ Place_remove_same(t) \/ Place_scratch_file(t) \/ Place_fault(t) \/ Place_undo(t)
  \/ Delete_metainfo(t) \/ Delete_object(t) \/ Delete_fault(t)

End(t) == Release_access(t) \/ Discard_scratch_file(t) \/ Serve(t)

Step(t) == Prepare(t) \/ Modify(t) \/ End(t)

\* Every request has ended.
Ended == (\A t \in Tasks : pc[t] \in {"done", "dead"}) /\ UNCHANGED vars

Next ==
  \/ \E t \in Tasks :
       Start(t) \/ Serialize_access(t) \/ Access_timeout(t) \/ Step(t)
  \/ Crash
  \/ Ended

Spec == Init /\ [][Next]_vars

(***************************************************************************)
(* Fairness.  A goroutine that can run does run, and the exclusion is      *)
(* given in the order of arrival (module Exclusion), so that a request     *)
(* that waits for it while others come and go gets it.                     *)
(***************************************************************************)
FairSpec ==
  /\ Spec
  /\ \A t \in Tasks : WF_vars(Step(t)) /\ SF_vars(Serialize_access(t))
-----------------------------------------------------------------------------
(***************************************************************************)
(* Properties.                                                             *)
(***************************************************************************)
PC == {"idle", "upload", "stat", "meta", "md5", "link", "lock", "guard",
       "store", "place", "rename", "undo", "unmeta", "remove", "unlock",
       "discard", "serve", "done", "dead"}

\* Every variable has its type.
TypeOK ==
  /\ file \in [Keys -> Opt(File)]
  /\ meta \in [Keys -> Opt(Meta_info)]
  /\ holder \in [Keys -> Opt(Tasks)]
  /\ made \in Nat
  /\ pc \in [Tasks -> PC]
  /\ req \in [Tasks -> Opt(Reqs)]
  /\ stat \in [Tasks -> Opt(File)]
  /\ etag \in [Tasks -> Opt(Data)]
  /\ seen \in [Tasks -> Opt(Meta_info)]
  /\ scratch \in [Tasks -> Opt(File)]
  /\ resp \in [Tasks -> Opt(Response)]
  /\ crashes \in Nat
  /\ prior \in [Tasks -> Opt(Meta_info)]

valid(k) == fetch_object_metainfo(k, file[k])

\* The ETag in metainfo that is taken as valid is the MD5 of the object,
\* although readers calculate it outside of exclusion, store it later, and
\* the object may be replaced in between.
ETagSound == \A k \in Keys : valid(k) # Nil => valid(k).etag = file[k].data

\* GetObject returns the ETag of the data it sends, although it reads status,
\* metainfo, contents and data in four steps without exclusion.
GetConsistent ==
  \A t \in Tasks :
    pc[t] = "done" /\ op(t) = "GetObject" /\ resp[t].code = "OK"
      => resp[t].etag = resp[t].body

\* design.md, "its life time is limited to request processing": a request
\* that has ended leaves neither a scratch file nor a lock behind, on every
\* path of return.
NothingLeft ==
  \A t \in Tasks :
    pc[t] = "done" => scratch[t] = Nil /\ \A k \in Keys : holder[k] # t

\* The objects as clients see them.  While a request that has replaced or
\* removed the metainfo has not yet replaced or removed the object, the
\* object is taken with its prior metainfo.
in_window(t) ==
  \/ pc[t] = "place" /\ new_metainfo(t) # Nil
  \/ pc[t] = "remove"

view(k) ==
  IF file[k] = Nil THEN Nil
  ELSE LET m == IF holder[k] # Nil /\ in_window(holder[k])
                THEN prior[holder[k]] ELSE valid(k)
       IN [data |-> file[k].data,
           tags |-> IF m = Nil THEN Nil ELSE m.tags,
           hdrs |-> IF m = Nil THEN Nil ELSE m.hdrs]

\* Without CopyObject and without failures, the two files of an object act
\* as one atomic object: a request changes it in the one step that makes the
\* request succeed, with the metadata of the request and none of an earlier
\* object, and only when its conditions hold on the object it replaces.
AtomicObjects == INSTANCE Objects WITH
  obj <- [k \in Keys |-> view(k)],
  asked <- req,
  acked <- {t \in Tasks : resp[t] # Nil /\ resp[t].code = "OK"}
ImplementsObjects == AtomicObjects!Spec

\* With failures and crashes, an object may be left without its metadata
\* (its metainfo is replaced or removed before the object is), but it never
\* has other metadata, and a failed request never changes or loses the data.
ImplementsLossyObjects == AtomicObjects!LossySpec

\* Every request that has started is answered: no request waits for ever in
\* exclusion, even when no timeout helps.
Answered == \A t \in Tasks : pc[t] = "lock" ~> pc[t] \in {"done", "dead"}
-----------------------------------------------------------------------------
(***************************************************************************)
(* A property that documents and comments of the code state and the code   *)
(* does not keep.                                                          *)
(***************************************************************************)

\* design.md, "returns InternalError on a race condition", and the comment of
\* store_etag_as_metainfo, "stores an ETag in metainfo (it is otherwise
\* empty)": a reader that stores an ETag replaces no metainfo of the object
\* that was stored since it read.
ETagStoredWhenEmpty ==
  [][\A t \in Tasks :
       Store_object_metainfo(t) /\ op(t) \in Reading => valid(key(t)) = Nil]_vars
=============================================================================
