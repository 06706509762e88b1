------------------------------ MODULE Buckets ------------------------------
(***************************************************************************)
(* CreateBucket, HeadBucket and DeleteBucket of v1/server on one bucket,   *)
(* against PutObject, CreateMultipartUpload, DeleteObject and              *)
(* DeleteObjects in it.                                                    *)
(*                                                                         *)
(* A bucket is a directory.  Bucket operations are serialized by the name  *)
(* of the bucket, object operations by the name of the object, and one     *)
(* kind is not serialized with the other.  Operations on one object are    *)
(* the subject of modules ObjectStore and Multipart; here an object is a   *)
(* name in a directory, and one call on the directory tree is a step:      *)
(*   PutObject      check mkdirs create rename                             *)
(*   CreateMultipartUpload    check mkdirs mkdir                           *)
(*   DeleteObject(s)          check (stat remove)*                         *)
(*   CreateBucket   lock mkbucket unlock                                   *)
(*   DeleteBucket   check lock remove empty* rmall* unlock                 *)
(*   HeadBucket     check                                                  *)
(***************************************************************************)
EXTENDS Naturals, Sequences

CONSTANTS
  Tasks,     \* one goroutine of a request each
  Keys,      \* object names
  Dirs,      \* directories: that of the bucket, and those one level below it
  Top,       \* the directory of the bucket
  Home,      \* Home[k]: the directory of object k
  Specials,  \* the directories that may have a file that is no regular file (a
             \* symbolic link, a device)
  Reqs,      \* the requests of the clients
  Nil

Ops == {"PutObject", "CreateMultipartUpload", "DeleteObject", "DeleteObjects",
        "CreateBucket", "DeleteBucket", "HeadBucket"}

Codes == {"OK", "NoSuchBucket", "NoSuchKey", "BucketAlreadyOwnedByYou",
          "BucketNotEmpty", "RequestTimeout", "InternalError"}

ASSUME BucketsAssumption ==
  /\ Top \in Dirs
  /\ Home \in [Keys -> Dirs]
  /\ Specials \subseteq Dirs
  /\ Reqs \subseteq [op : Ops, keys : Seq(Keys)]
  /\ \A r \in Reqs :
       r.op \in {"PutObject", "CreateMultipartUpload", "DeleteObject"} => Len(r.keys) = 1
  /\ Nil \notin Tasks

VARIABLES
  dirs,     \* the directories that exist
  objs,     \* the objects that exist
  mpuls,    \* the objects with a directory for a multipart upload
  special,  \* the special files that exist, by their directories
  holder,   \* the task in exclusion on the bucket
  pc,       \* where the goroutine of the request is
  req,      \* its request
  scratch,  \* the tasks whose scratch file exists
  todo,     \* DeleteObjects: the keys to do; DeleteBucket: directories to check
  errors,   \* DeleteObjects: the keys that were not deleted
  code,     \* its response
  kept      \* history: what DeleteBucket found in the bucket and is still there

tree == <<dirs, objs, mpuls, special>>
vars == <<tree, holder, pc, req, scratch, todo, errors, code, kept>>

op(t) == req[t].op
key(t) == req[t].keys[1]
go(t, p) == pc' = [pc EXCEPT ![t] = p]

\* What is in directory d, other than directories and special files.
files(d) ==
  [objs |-> {k \in objs : Home[k] = d}, mpuls |-> {k \in mpuls : Home[k] = d},
   scratch |-> {t \in scratch : Home[key(t)] = d}]
bare(d) == \A f \in DOMAIN files(d) : files(d)[f] = {}

\* Objects may be there when the server starts, with or without a bucket.
Init ==
  /\ dirs \in {D \in SUBSET Dirs : D # {} => Top \in D}
  /\ objs \in SUBSET {k \in Keys : Home[k] \in dirs}
  /\ mpuls \in SUBSET {k \in Keys : Home[k] \in dirs}
  /\ special \in SUBSET (Specials \cap dirs)
  /\ holder = Nil
  /\ pc = [t \in Tasks |-> "idle"]
  /\ req = [t \in Tasks |-> Nil]
  /\ scratch = {}
  /\ todo = [t \in Tasks |-> {}]
  /\ errors = [t \in Tasks |-> {}]
  /\ code = [t \in Tasks |-> Nil]
  /\ kept = [t \in Tasks |-> {}]

\* The returns, with the deferred release_access still to be made.
finish(t, c) ==
  /\ code' = [code EXCEPT ![t] = c]
  /\ go(t, IF holder = t THEN "unlock" ELSE "done")

Start(t) ==
  /\ pc[t] = "idle"
  /\ \E r \in Reqs :
       /\ req' = [req EXCEPT ![t] = r]
       /\ todo' = [todo EXCEPT ![t] = {r.keys[i] : i \in DOMAIN r.keys}]
       /\ go(t, IF r.op = "CreateBucket" THEN "lock" ELSE "check")
  /\ UNCHANGED <<tree, holder, scratch, errors, code, kept>>

\* check_usual_object_setup and check_usual_bucket_setup, which is all that
\* HeadBucket does.
Check_bucket_directory_exists(t) ==
  /\ pc[t] = "check"
  /\ IF Top \notin dirs THEN finish(t, "NoSuchBucket")
     ELSE IF op(t) = "HeadBucket" THEN finish(t, "OK")
     ELSE /\ go(t, CASE op(t) = "DeleteBucket" -> "lock"
                     [] op(t) \in {"DeleteObject", "DeleteObjects"} -> "stat"
                     [] OTHER -> "mkdirs")
          /\ UNCHANGED code
  /\ UNCHANGED <<tree, holder, req, scratch, todo, errors, kept>>

\* make_intervening_directories makes all that is missing, the directory of
\* the bucket included.
Make_intervening_directories(t) ==
  /\ pc[t] = "mkdirs"
  /\ dirs' = dirs \cup {Top, Home[key(t)]}
  /\ go(t, IF op(t) = "PutObject" THEN "create" ELSE "mkdir")
  /\ UNCHANGED <<objs, mpuls, special, holder, req, scratch, todo, errors, code, kept>>

\* copy_content_stream makes a scratch file beside the object.
Create_scratch(t) ==
  /\ pc[t] = "create"
  /\ IF Home[key(t)] \in dirs
     THEN scratch' = scratch \cup {t} /\ go(t, "rename") /\ UNCHANGED code
     ELSE finish(t, "InternalError") /\ UNCHANGED scratch
  /\ UNCHANGED <<tree, holder, req, todo, errors, kept>>

\* Mutant of Place_scratch_file: the object is written again when its scratch
\* file is gone.
Place_anyway(t) ==
  /\ pc[t] = "rename"
  /\ objs' = objs \cup {key(t)}
  /\ scratch' = scratch \ {t}
  /\ code' = [code EXCEPT ![t] = "OK"]
  /\ go(t, "done")
  /\ UNCHANGED <<dirs, mpuls, special, holder, req, todo, errors, kept>>

\* place_scratch_file: os.Rename() fails when the scratch file is gone.
Place_scratch_file(t) ==
  /\ pc[t] = "rename"
  /\ IF t \in scratch
     THEN /\ objs' = objs \cup {key(t)}
          /\ scratch' = scratch \ {t}
          /\ code' = [code EXCEPT ![t] = "OK"]
          /\ go(t, "done")
     ELSE finish(t, "InternalError") /\ UNCHANGED <<objs, scratch>>
  /\ UNCHANGED <<dirs, mpuls, special, holder, req, todo, errors, kept>>

Create_mpul_directory(t) ==
  /\ pc[t] = "mkdir"
  /\ IF Home[key(t)] \in dirs
     THEN mpuls' = mpuls \cup {key(t)} /\ finish(t, "OK")
     ELSE finish(t, "InternalError") /\ UNCHANGED mpuls
  /\ UNCHANGED <<dirs, objs, special, holder, req, scratch, todo, errors, kept>>

\* The loop of DeleteObjects: the next key, or the response.  An object that
\* is not deleted is listed among the errors and the rest is deleted.
Delete_objects(t) ==
  /\ pc[t] = "stat"
  /\ IF todo[t] = {}
     THEN finish(t, IF op(t) = "DeleteObject" /\ errors[t] # {} THEN "NoSuchKey" ELSE "OK")
     ELSE go(t, "delete") /\ UNCHANGED code
  /\ UNCHANGED <<tree, holder, req, scratch, todo, errors, kept>>

\* delete_object, as one step on the object.
Delete_object(t) ==
  /\ pc[t] = "delete"
  /\ \E k \in todo[t] :
       /\ todo' = [todo EXCEPT ![t] = @ \ {k}]
       /\ errors' = [errors EXCEPT ![t] = IF k \in objs THEN @ ELSE @ \cup {k}]
       /\ objs' = objs \ {k}
       /\ kept' = [s \in Tasks |-> kept[s] \ {k}]
  /\ go(t, "stat")
  /\ UNCHANGED <<dirs, mpuls, special, holder, req, scratch, code>>
-----------------------------------------------------------------------------
Serialize_access(t) ==
  /\ pc[t] = "lock"
  /\ holder = Nil
  /\ holder' = t
  /\ go(t, IF op(t) = "CreateBucket" THEN "mkbucket" ELSE "remove")
  /\ UNCHANGED <<tree, req, scratch, todo, errors, code, kept>>

Access_timeout(t) ==
  /\ pc[t] = "lock"
  /\ finish(t, "RequestTimeout")
  /\ UNCHANGED <<tree, holder, req, scratch, todo, errors, kept>>

Create_bucket(t) ==
  /\ pc[t] = "mkbucket"
  /\ IF Top \in dirs THEN finish(t, "BucketAlreadyOwnedByYou") /\ UNCHANGED dirs
     ELSE dirs' = {Top} /\ finish(t, "OK")
  /\ UNCHANGED <<objs, mpuls, special, holder, req, scratch, todo, errors, kept>>

\* DeleteBucket: os.Remove() of the directory, which succeeds when there is
\* nothing in it.
Remove_bucket(t) ==
  /\ pc[t] = "remove"
  /\ IF dirs = {Top} /\ bare(Top) /\ Top \notin special
     THEN dirs' = {} /\ finish(t, "OK") /\ UNCHANGED <<todo, kept>>
     ELSE /\ go(t, "empty")
          /\ todo' = [todo EXCEPT ![t] = {Top}]
          /\ kept' = [kept EXCEPT ![t] = objs]
          /\ UNCHANGED <<dirs, code>>
  /\ UNCHANGED <<objs, mpuls, special, holder, req, scratch, errors>>

\* Mutant of Check_directory_empty: files alone are looked at.
Check_top_empty(t) ==
  /\ pc[t] = "empty"
  /\ IF Top \notin dirs THEN finish(t, "InternalError")
     ELSE IF files(Top).objs # {} THEN finish(t, "BucketNotEmpty")
     ELSE go(t, "rmall") /\ UNCHANGED code
  /\ UNCHANGED <<tree, holder, req, scratch, todo, errors, kept>>

\* check_directory_empty: one directory is read.  Of its files in the order of
\* their names, the first one decides: an object is an error, and a special
\* file ends the check of this directory.  Dot-files are passed over.  Then a
\* directory of an upload is an error, and the other directories are checked.
Check_directory_empty(t) ==
  /\ pc[t] = "empty"
  /\ \E d \in todo[t] :
       \/ d \notin dirs /\ finish(t, "InternalError") /\ UNCHANGED todo
       \/ /\ files(d).objs # {} \/ (d \notin special /\ files(d).mpuls # {})
          /\ finish(t, "BucketNotEmpty") /\ UNCHANGED todo
       \/ /\ d \in dirs
          /\ d \in special \/ files(d).objs \cup files(d).mpuls = {}
          /\ LET more == IF d = Top /\ d \notin special THEN dirs \ {Top} ELSE {}
             IN todo' = [todo EXCEPT ![t] = (@ \ {d}) \cup more]
          /\ go(t, IF todo'[t] = {} THEN "rmall" ELSE "empty")
          /\ UNCHANGED code
  /\ UNCHANGED <<tree, holder, req, scratch, errors, kept>>

\* DeleteBucket: os.RemoveAll() removes one entry after the other, in any
\* order (a special file with its directory), and gives up when something new
\* remains in a directory.
Remove_all(t) ==
  /\ pc[t] = "rmall"
  /\ \/ \E k \in objs :
          /\ objs' = objs \ {k}
          /\ kept' = [u \in Tasks |-> kept[u] \ {k}]
          /\ UNCHANGED <<dirs, mpuls, special, scratch, pc, code>>
     \/ \E k \in mpuls :
          /\ mpuls' = mpuls \ {k}
          /\ UNCHANGED <<dirs, objs, special, scratch, pc, code, kept>>
     \/ \E s \in scratch :
          /\ scratch' = scratch \ {s}
          /\ UNCHANGED <<tree, pc, code, kept>>
     \/ \E d \in dirs \ {Top} :
          /\ bare(d)
          /\ dirs' = dirs \ {d}
          /\ special' = special \ {d}
          /\ UNCHANGED <<objs, mpuls, scratch, pc, code, kept>>
     \/ /\ dirs = {Top} /\ bare(Top)
        /\ dirs' = {}
        /\ special' = {}
        /\ finish(t, "OK")
        /\ UNCHANGED <<objs, mpuls, scratch, kept>>
     \/ /\ \E d \in dirs : ~ bare(d)
        /\ finish(t, "BucketNotEmpty")
        /\ UNCHANGED <<tree, scratch, kept>>
  /\ UNCHANGED <<holder, req, todo, errors>>

Release_access(t) ==
  /\ pc[t] = "unlock"
  /\ holder' = Nil
  /\ go(t, "done")
  /\ UNCHANGED <<tree, req, scratch, todo, errors, code, kept>>

Step(t) ==
  \/ Check_bucket_directory_exists(t) \/ Make_intervening_directories(t)
  \/ Create_scratch(t) \/ Place_scratch_file(t) \/ Create_mpul_directory(t)
  \/ Delete_objects(t) \/ Delete_object(t) \/ Create_bucket(t)
  \/ Remove_bucket(t) \/ Check_directory_empty(t) \/ Remove_all(t)
  \/ Release_access(t)

Ended == (\A t \in Tasks : pc[t] = "done") /\ UNCHANGED vars

Next ==
  \/ \E t \in Tasks : Start(t) \/ Serialize_access(t) \/ Access_timeout(t) \/ Step(t)
  \/ Ended

Spec == Init /\ [][Next]_vars
-----------------------------------------------------------------------------
PC == {"idle", "check", "mkdirs", "create", "rename", "mkdir",
       "stat", "delete", "lock", "mkbucket", "remove", "empty", "rmall",
       "unlock", "done"}

\* Every variable has its type, and files are in directories that exist.
TypeOK ==
  /\ dirs \subseteq Dirs
  /\ dirs # {} => Top \in dirs
  /\ \A k \in objs \cup mpuls : k \in Keys /\ Home[k] \in dirs
  /\ \A t \in scratch : t \in Tasks /\ Home[key(t)] \in dirs
  /\ special \subseteq dirs
  /\ holder \in {Nil} \cup Tasks
  /\ pc \in [Tasks -> PC]
  /\ req \in [Tasks -> {Nil} \cup Reqs]
  /\ todo \in [Tasks -> SUBSET (Keys \cup Dirs)]
  /\ errors \in [Tasks -> SUBSET Keys]
  /\ code \in [Tasks -> {Nil} \cup Codes]
  /\ kept \in [Tasks -> SUBSET Keys]

\* check_bucket_empty, "makes sure the emptiness of a bucket for deleting it":
\* DeleteBucket removes no object that was in the bucket before its check,
\* although the check reads directory after directory while objects come and
\* go, unless a special file has ended the check above the object.  (An object
\* that comes during the check may be lost.)
unseen(k) == special \cap {Top, Home[k]} # {}
ObjectsKept ==
  [][\A t \in Tasks, k \in Keys :
       Remove_all(t) /\ k \in kept[t] \cap objs /\ ~ unseen(k) => k \in objs']_vars
=============================================================================
