--------------------------- MODULE BucketsProofs ---------------------------
(***************************************************************************)
(* Proofs about the operations on a bucket, for any number of requests,    *)
(* objects, directories (one level below the bucket's) and special files.  *)
(***************************************************************************)
EXTENDS Buckets, TLAPS

\* The steps in exclusion.
Inner == {"mkbucket", "remove", "empty", "rmall", "unlock"}

\* What a request is, by where it is.
Asking(t) ==
  /\ pc[t] # "idle" => req[t] \in Reqs
  /\ pc[t] = "check" => op(t) # "CreateBucket"
  /\ pc[t] \in {"mkdirs", "create", "rename", "mkdir"} =>
       op(t) \in {"PutObject", "CreateMultipartUpload"}
  /\ pc[t] \in {"check", "stat", "delete"} => todo[t] \subseteq Keys
  /\ t \in scratch => pc[t] = "rename"

\* Exclusion: a task is the holder while it is at a step in exclusion.
Exclusive(t) == pc[t] \in Inner <=> holder = t

\* The objects that the check of DeleteBucket has still to come to.
Ahead(t, k) == todo[t] \cap {Top, Home[k]} # {}

\* The check of DeleteBucket: an object that was there before is ahead of it,
\* or is behind a special file; at its end there is nothing ahead.
Checking(t) ==
  /\ kept[t] \subseteq objs
  /\ pc[t] = "empty" => \A k \in kept[t] : unseen(k) \/ Ahead(t, k)
  /\ pc[t] = "rmall" => \A k \in kept[t] : unseen(k)

BucketInv == TypeOK /\ \A t \in Tasks : Asking(t) /\ Exclusive(t) /\ Checking(t)
-----------------------------------------------------------------------------
LEMMA KeyType ==
  ASSUME BucketInv, NEW t \in Tasks, pc[t] \in {"mkdirs", "create", "rename", "mkdir"}
  PROVE  key(t) \in Keys /\ Home[key(t)] \in Dirs
<1>1. req[t] \in Reqs /\ op(t) \in {"PutObject", "CreateMultipartUpload"}
  BY DEF BucketInv, Asking
<1>2. req[t].keys \in Seq(Keys) /\ Len(req[t].keys) = 1
  BY <1>1, BucketsAssumption DEF op
<1> QED BY <1>2, BucketsAssumption DEF key

LEMMA BucketInit == Init => BucketInv
<1> SUFFICES ASSUME Init PROVE BucketInv
  OBVIOUS
<1>1. TypeOK
  BY DEF Init, TypeOK, PC
<1>2. ASSUME NEW t \in Tasks PROVE Asking(t) /\ Exclusive(t) /\ Checking(t)
  BY <1>2, BucketsAssumption DEF Init, Asking, Exclusive, Inner, Checking
<1> QED BY <1>1, <1>2 DEF BucketInv

\* What a step of another request leaves alone of request u.
Same(u) ==
  /\ pc'[u] = pc[u] /\ req'[u] = req[u] /\ todo'[u] = todo[u]
  /\ kept'[u] \subseteq kept[u]
  /\ u \in scratch' => u \in scratch

\* A step that is not in exclusion, and removes no object that is kept and no
\* special file, keeps the invariant if it does so for its request.
LEMMA OutsideInv ==
  ASSUME BucketInv, NEW t \in Tasks, \A u \in Tasks \ {t} : Same(u),
         UNCHANGED <<special, holder>>, TypeOK', Asking(t)',
         \A u \in Tasks : kept'[u] \subseteq objs',
         pc[t] \notin Inner, pc'[t] \notin Inner
  PROVE  BucketInv'
<1>1. \A u \in Tasks \ {t} : Asking(u)'
  BY DEF BucketInv, Asking, Same, op
<1>2. \A u \in Tasks : Exclusive(u)'
  BY DEF BucketInv, Exclusive, Same
<1>3. ASSUME NEW u \in Tasks \ {t} PROVE Checking(u)'
  <2>1. Checking(u) /\ Same(u)
    BY DEF BucketInv
  <2>2. \A k : unseen(k)' = unseen(k) /\ Ahead(u, k)' = Ahead(u, k)
    BY <2>1 DEF Same, unseen, Ahead
  <2> QED BY <2>1, <2>2 DEF Checking, Same
<1>4. Checking(t)'
  BY DEF Checking, Inner
<1> QED BY <1>1, <1>2, <1>3, <1>4 DEF BucketInv

\* In exclusion it may remove both.
LEMMA InsideInv ==
  ASSUME BucketInv, NEW t \in Tasks, \A u \in Tasks \ {t} : Same(u),
         UNCHANGED holder, TypeOK', Asking(t)', Checking(t)',
         \A u \in Tasks : kept'[u] \subseteq objs',
         pc[t] \in Inner, pc'[t] \in Inner
  PROVE  BucketInv'
<1>1. \A u \in Tasks \ {t} : Asking(u)'
  BY DEF BucketInv, Asking, Same, op
<1>2. \A u \in Tasks : Exclusive(u)'
  BY DEF BucketInv, Exclusive, Same
<1>3. ASSUME NEW u \in Tasks \ {t} PROVE Checking(u)'
  <2>1. pc'[u] \notin Inner
    BY <1>2, <1>3 DEF Exclusive, BucketInv
  <2> QED BY <2>1 DEF Checking, Inner
<1> QED BY <1>1, <1>2, <1>3 DEF BucketInv

LEMMA FinishType ==
  ASSUME BucketInv, NEW t \in Tasks, NEW c \in Codes, finish(t, c)
  PROVE  /\ code' \in [Tasks -> {Nil} \cup Codes]
         /\ pc' \in [Tasks -> PC]
         /\ pc'[t] = IF holder = t THEN "unlock" ELSE "done"
         /\ \A u \in Tasks \ {t} : pc'[u] = pc[u]
BY DEF BucketInv, TypeOK, finish, go, PC

LEMMA GoType ==
  ASSUME BucketInv, NEW t \in Tasks, NEW p \in PC, go(t, p)
  PROVE  /\ pc' \in [Tasks -> PC]
         /\ pc'[t] = p
         /\ \A u \in Tasks \ {t} : pc'[u] = pc[u]
BY DEF BucketInv, TypeOK, go
-----------------------------------------------------------------------------
LEMMA StartInv ==
  ASSUME BucketInv, NEW t \in Tasks, Start(t) PROVE BucketInv'
<1>1. PICK r \in Reqs :
        /\ req' = [req EXCEPT ![t] = r]
        /\ todo' = [todo EXCEPT ![t] = {r.keys[i] : i \in DOMAIN r.keys}]
        /\ go(t, IF r.op = "CreateBucket" THEN "lock" ELSE "check")
  BY DEF Start
<1>2. pc[t] = "idle" /\ UNCHANGED <<dirs, objs, mpuls, special, holder, scratch, errors, code, kept>>
  BY DEF Start, tree
<1>3. r.keys \in Seq(Keys)
  BY BucketsAssumption
<1>4. todo' \in [Tasks -> SUBSET (Keys \cup Dirs)] /\ todo'[t] \subseteq Keys
  BY <1>1, <1>3 DEF BucketInv, TypeOK
<1>5. /\ pc' \in [Tasks -> PC] /\ pc'[t] = (IF r.op = "CreateBucket" THEN "lock" ELSE "check")
      /\ \A u \in Tasks \ {t} : pc'[u] = pc[u]
  BY <1>1, GoType DEF PC
<1>6. t \notin scratch
  BY <1>2 DEF BucketInv, Asking
<1>7. TypeOK'
  BY <1>1, <1>2, <1>4, <1>5, <1>6 DEF BucketInv, TypeOK, key
<1>8. Asking(t)'
  BY <1>1, <1>2, <1>4, <1>5, <1>6 DEF BucketInv, TypeOK, Asking, op
<1>9. \A u \in Tasks \ {t} : Same(u)
  BY <1>1, <1>2, <1>5 DEF BucketInv, TypeOK, Same
<1>10. \A u \in Tasks : kept'[u] \subseteq objs'
  BY <1>2 DEF BucketInv, Checking
<1> QED BY <1>2, <1>5, <1>7, <1>8, <1>9, <1>10, OutsideInv DEF Inner

LEMMA CheckInv ==
  ASSUME BucketInv, NEW t \in Tasks,
         Check_bucket_directory_exists(t) \/ Delete_objects(t) \/ Access_timeout(t)
  PROVE  BucketInv'
<1>1. /\ pc[t] \in {"check", "stat", "lock"}
      /\ UNCHANGED <<dirs, objs, mpuls, special, holder, req, scratch, todo, errors, kept>>
  BY DEF Check_bucket_directory_exists, Delete_objects, Access_timeout, tree
<1>2. /\ req[t] \in Reqs /\ op(t) \in Ops /\ t \notin scratch /\ holder # t
      /\ pc[t] = "check" => op(t) # "CreateBucket"
      /\ pc[t] \in {"check", "stat"} => todo[t] \subseteq Keys
  BY <1>1, BucketsAssumption DEF BucketInv, Asking, Exclusive, Inner, op
<1>3. \/ \E c \in Codes : finish(t, c)
      \/ /\ pc[t] = "check" /\ UNCHANGED code
         /\ \/ go(t, "lock") \/ go(t, "stat")
            \/ go(t, "mkdirs") /\ op(t) \in {"PutObject", "CreateMultipartUpload"}
      \/ pc[t] = "stat" /\ UNCHANGED code /\ go(t, "delete")
  BY <1>2 DEF Check_bucket_directory_exists, Delete_objects, Access_timeout, Codes, Ops
<1>4. /\ code' \in [Tasks -> {Nil} \cup Codes] /\ pc' \in [Tasks -> PC]
      /\ \A u \in Tasks \ {t} : pc'[u] = pc[u]
      /\ \/ pc'[t] \in {"done", "lock"}
         \/ pc'[t] \in {"stat", "delete"} /\ todo[t] \subseteq Keys
         \/ pc'[t] = "mkdirs" /\ op(t) \in {"PutObject", "CreateMultipartUpload"}
  <2>1. CASE \E c \in Codes : finish(t, c)
    BY <1>2, <2>1, FinishType
  <2>2. CASE UNCHANGED code /\ ~ \E c \in Codes : finish(t, c)
    <3>1. code' \in [Tasks -> {Nil} \cup Codes]
      BY <2>2 DEF BucketInv, TypeOK
    <3> QED BY <1>2, <1>3, <2>2, <3>1, GoType DEF PC
  <2> QED BY <1>3, <2>1, <2>2
<1>5. TypeOK'
  BY <1>1, <1>4 DEF BucketInv, TypeOK, key
<1>6. Asking(t)'
  BY <1>1, <1>2, <1>4 DEF Asking, op
<1>7. \A u \in Tasks \ {t} : Same(u)
  BY <1>1, <1>4 DEF Same
<1>8. \A u \in Tasks : kept'[u] \subseteq objs'
  BY <1>1 DEF BucketInv, Checking
<1> QED BY <1>1, <1>4, <1>5, <1>6, <1>7, <1>8, OutsideInv DEF Inner

\* PutObject and CreateMultipartUpload add to the tree, in directories that
\* exist.
LEMMA PutInv ==
  ASSUME BucketInv, NEW t \in Tasks,
         \/ Make_intervening_directories(t) \/ Create_scratch(t) \/ Place_scratch_file(t)
         \/ Create_mpul_directory(t)
  PROVE  BucketInv'
<1>1. /\ pc[t] \in {"mkdirs", "create", "rename", "mkdir"}
      /\ UNCHANGED <<special, holder, req, todo, errors, kept>>
  BY DEF Make_intervening_directories, Create_scratch, Place_scratch_file,
         Create_mpul_directory, tree
<1>2. /\ req[t] \in Reqs /\ holder # t /\ op(t) \in {"PutObject", "CreateMultipartUpload"}
      /\ key(t) \in Keys /\ Home[key(t)] \in Dirs
      /\ pc[t] # "rename" => t \notin scratch
  BY <1>1, KeyType DEF BucketInv, Asking, Exclusive, Inner
<1>3. /\ dirs' = dirs \/ dirs' = dirs \cup {Top, Home[key(t)]}
      /\ \/ objs' = objs
         \/ t \in scratch /\ objs' = objs \cup {key(t)}
      /\ \/ mpuls' = mpuls
         \/ Home[key(t)] \in dirs /\ mpuls' = mpuls \cup {key(t)}
      /\ \/ scratch' = scratch
         \/ scratch' = scratch \ {t}
         \/ Home[key(t)] \in dirs /\ scratch' = scratch \cup {t} /\ go(t, "rename")
  <2>1. CASE Make_intervening_directories(t)
    BY <2>1 DEF Make_intervening_directories
  <2>2. CASE Create_scratch(t)
    BY <2>2 DEF Create_scratch, tree
  <2>3. CASE Place_scratch_file(t)
    BY <2>3 DEF Place_scratch_file
  <2>4. CASE Create_mpul_directory(t)
    BY <2>4 DEF Create_mpul_directory
  <2> QED BY <2>1, <2>2, <2>3, <2>4
<1>4. \/ \E c \in Codes : finish(t, c)
      \/ \E p \in {"create", "mkdir", "rename", "done"} :
           go(t, p) /\ code' \in [Tasks -> {Nil} \cup Codes]
  BY DEF Make_intervening_directories, Create_scratch, Place_scratch_file,
         Create_mpul_directory, Codes, BucketInv, TypeOK
<1>5. /\ code' \in [Tasks -> {Nil} \cup Codes] /\ pc' \in [Tasks -> PC]
      /\ \A u \in Tasks \ {t} : pc'[u] = pc[u]
      /\ pc'[t] \in {"create", "mkdir", "rename", "done"}
  <2>1. CASE \E c \in Codes : finish(t, c)
    BY <1>2, <2>1, FinishType
  <2>2. ASSUME NEW p \in {"create", "mkdir", "rename", "done"}, go(t, p),
               code' \in [Tasks -> {Nil} \cup Codes]
        PROVE  <1>5!:
    BY <2>2, GoType DEF PC
  <2> QED BY <1>4, <2>1, <2>2
<1>6. t \in scratch' => pc'[t] = "rename"
  <2>1. CASE t \in scratch
    BY <1>2, <1>5, <2>1 DEF Make_intervening_directories, Create_scratch, Place_scratch_file,
         Create_mpul_directory
  <2>2. CASE t \notin scratch
    BY <1>3, <2>2, GoType DEF PC
  <2> QED BY <2>1, <2>2
<1>7. TypeOK'
  <2>1. dirs' \subseteq Dirs /\ dirs \subseteq dirs' /\ (dirs' # {} => Top \in dirs')
    BY <1>2, <1>3, BucketsAssumption DEF BucketInv, TypeOK
  <2>2. (\A k \in objs \cup mpuls : k \in Keys /\ Home[k] \in dirs)'
    BY <1>2, <1>3, <2>1 DEF BucketInv, TypeOK
  <2>3. (\A u \in scratch : u \in Tasks /\ Home[key(u)] \in dirs)'
    BY <1>1, <1>3, <2>1 DEF BucketInv, TypeOK, key
  <2> QED BY <1>1, <1>5, <2>1, <2>2, <2>3 DEF BucketInv, TypeOK
<1>8. Asking(t)'
  BY <1>1, <1>2, <1>5, <1>6 DEF Asking, op
<1>9. \A u \in Tasks \ {t} : Same(u)
  BY <1>1, <1>3, <1>5 DEF Same
<1>10. \A u \in Tasks : kept'[u] \subseteq objs'
  BY <1>1, <1>3 DEF BucketInv, Checking
<1> QED BY <1>1, <1>5, <1>7, <1>8, <1>9, <1>10, OutsideInv DEF Inner

LEMMA DeleteInv ==
  ASSUME BucketInv, NEW t \in Tasks, Delete_object(t) PROVE BucketInv'
<1>1. PICK k \in todo[t] :
        /\ todo' = [todo EXCEPT ![t] = @ \ {k}]
        /\ errors' = [errors EXCEPT ![t] = IF k \in objs THEN @ ELSE @ \cup {k}]
        /\ objs' = objs \ {k}
        /\ kept' = [s \in Tasks |-> kept[s] \ {k}]
  BY DEF Delete_object
<1>2. pc[t] = "delete" /\ UNCHANGED <<dirs, mpuls, special, holder, req, scratch, code>>
  BY DEF Delete_object
<1>3. req[t] \in Reqs /\ t \notin scratch /\ todo[t] \subseteq Keys
  BY <1>2 DEF BucketInv, Asking
<1>4. /\ pc' \in [Tasks -> PC] /\ pc'[t] = "stat" /\ \A u \in Tasks \ {t} : pc'[u] = pc[u]
  BY GoType DEF Delete_object, PC
<1>5. /\ todo' \in [Tasks -> SUBSET (Keys \cup Dirs)] /\ errors' \in [Tasks -> SUBSET Keys]
      /\ kept' \in [Tasks -> SUBSET Keys] /\ todo'[t] \subseteq Keys
  BY <1>1, <1>3 DEF BucketInv, TypeOK
<1>6. TypeOK'
  BY <1>1, <1>2, <1>4, <1>5 DEF BucketInv, TypeOK, key
<1>7. Asking(t)'
  BY <1>2, <1>3, <1>4, <1>5 DEF Asking
<1>8. \A u \in Tasks \ {t} : Same(u)
  BY <1>1, <1>2, <1>4 DEF Same, BucketInv, TypeOK
<1>9. \A u \in Tasks : kept'[u] \subseteq objs'
  BY <1>1 DEF BucketInv, Checking
<1> QED BY <1>2, <1>4, <1>6, <1>7, <1>8, <1>9, OutsideInv DEF Inner
-----------------------------------------------------------------------------
LEMMA AccessInv ==
  ASSUME BucketInv, NEW t \in Tasks, Serialize_access(t) \/ Release_access(t) PROVE BucketInv'
<1>1. UNCHANGED <<dirs, objs, mpuls, special, req, scratch, todo, errors, code, kept>>
  BY DEF Serialize_access, Release_access, tree
<1>2. /\ pc' \in [Tasks -> PC] /\ \A u \in Tasks \ {t} : pc'[u] = pc[u]
      /\ \/ pc[t] = "lock" /\ holder = Nil /\ holder' = t /\ pc'[t] \in {"mkbucket", "remove"}
         \/ pc[t] = "unlock" /\ holder' = Nil /\ pc'[t] = "done"
  BY GoType DEF Serialize_access, Release_access, PC
<1>3. TypeOK'
  BY <1>1, <1>2 DEF BucketInv, TypeOK, key
<1>4. ASSUME NEW u \in Tasks PROVE Asking(u)'
  BY <1>1, <1>2 DEF BucketInv, Asking, op
<1>5. ASSUME NEW u \in Tasks PROVE Exclusive(u)'
  BY <1>2, BucketsAssumption DEF BucketInv, Exclusive, Inner
<1>6. ASSUME NEW u \in Tasks PROVE Checking(u)'
  <2>1. \A k : unseen(k)' = unseen(k) /\ Ahead(u, k)' = Ahead(u, k)
    BY <1>1 DEF unseen, Ahead
  <2>2. pc'[u] = pc[u] \/ pc'[u] \notin {"empty", "rmall"}
    BY <1>2
  <2> QED BY <1>1, <2>1, <2>2 DEF BucketInv, Checking
<1> QED BY <1>3, <1>4, <1>5, <1>6 DEF BucketInv

\* A tree of one directory without a file has nothing in it.
LEMMA BareTree ==
  ASSUME BucketInv, dirs = {Top}, bare(Top)
  PROVE  objs = {} /\ mpuls = {} /\ scratch = {}
<1>1. files(Top).objs = {} /\ files(Top).mpuls = {} /\ files(Top).scratch = {}
  BY DEF bare, files
<1> QED BY <1>1 DEF files, BucketInv, TypeOK

LEMMA BareDirectory ==
  ASSUME NEW d, bare(d)
  PROVE  /\ \A k \in objs \cup mpuls : Home[k] # d
         /\ \A u \in scratch : Home[key(u)] # d
<1>1. files(d).objs = {} /\ files(d).mpuls = {} /\ files(d).scratch = {}
  BY DEF bare, files
<1> QED BY <1>1 DEF files

\* CreateBucket and the first try of DeleteBucket.
LEMMA BucketDirInv ==
  ASSUME BucketInv, NEW t \in Tasks, Create_bucket(t) \/ Remove_bucket(t) PROVE BucketInv'
<1>1. /\ pc[t] \in {"mkbucket", "remove"}
      /\ UNCHANGED <<objs, mpuls, special, holder, req, scratch, errors>>
  BY DEF Create_bucket, Remove_bucket
<1>2. holder = t /\ req[t] \in Reqs /\ t \notin scratch
  BY <1>1 DEF BucketInv, Exclusive, Inner, Asking
<1>3. /\ \/ dirs' = dirs
         \/ dirs = {} /\ dirs' = {Top}
         \/ dirs' = {} /\ objs = {} /\ mpuls = {} /\ scratch = {} /\ special = {}
      /\ \/ UNCHANGED <<todo, kept>>
         \/ /\ todo' = [todo EXCEPT ![t] = {Top}] /\ kept' = [kept EXCEPT ![t] = objs]
            /\ go(t, "empty") /\ UNCHANGED code
      /\ \/ go(t, "empty") /\ UNCHANGED code /\ todo'[t] = {Top}
         \/ \E c \in Codes : finish(t, c)
  <2>1. CASE Create_bucket(t)
    <3>1. dirs' = dirs \/ (dirs = {} /\ dirs' = {Top})
      BY <2>1 DEF Create_bucket, BucketInv, TypeOK
    <3> QED BY <2>1, <3>1 DEF Create_bucket, Codes
  <2>2. CASE Remove_bucket(t)
    <3>1. CASE dirs = {Top} /\ bare(Top) /\ Top \notin special
      <4>1. special = {}
        BY <3>1 DEF BucketInv, TypeOK
      <4> QED BY <2>2, <3>1, <4>1, BareTree DEF Remove_bucket, Codes
    <3>2. CASE ~ (dirs = {Top} /\ bare(Top) /\ Top \notin special)
      BY <2>2, <3>2 DEF Remove_bucket, BucketInv, TypeOK
    <3> QED BY <3>1, <3>2
  <2> QED BY <2>1, <2>2
<1>4. /\ code' \in [Tasks -> {Nil} \cup Codes] /\ pc' \in [Tasks -> PC]
      /\ \A u \in Tasks \ {t} : pc'[u] = pc[u]
      /\ pc'[t] = "unlock" \/ (pc'[t] = "empty" /\ todo'[t] = {Top})
  <2>1. CASE \E c \in Codes : finish(t, c)
    BY <1>2, <2>1, FinishType
  <2>2. CASE go(t, "empty") /\ UNCHANGED code /\ todo'[t] = {Top}
    BY <2>2, GoType DEF PC, BucketInv, TypeOK
  <2> QED BY <1>3, <2>1, <2>2
<1>5. \A u \in Tasks : kept'[u] \subseteq objs'
  BY <1>1, <1>3 DEF BucketInv, TypeOK, Checking
<1>6. TypeOK'
  <2>1. dirs' \subseteq Dirs /\ (dirs' # {} => Top \in dirs')
    BY <1>3, BucketsAssumption DEF BucketInv, TypeOK
  <2>2. /\ (\A k \in objs \cup mpuls : k \in Keys /\ Home[k] \in dirs)'
        /\ (\A u \in scratch : u \in Tasks /\ Home[key(u)] \in dirs)'
        /\ (special \subseteq dirs)'
    BY <1>1, <1>3 DEF BucketInv, TypeOK, key
  <2>3. objs \subseteq Keys
    BY DEF BucketInv, TypeOK
  <2>4. todo' \in [Tasks -> SUBSET (Keys \cup Dirs)] /\ kept' \in [Tasks -> SUBSET Keys]
    BY <1>3, <2>3, BucketsAssumption DEF BucketInv, TypeOK
  <2> QED BY <1>1, <1>4, <2>1, <2>2, <2>4 DEF BucketInv, TypeOK
<1>7. Asking(t)'
  BY <1>1, <1>2, <1>4 DEF Asking
<1>8. Checking(t)'
  BY <1>4, <1>5 DEF Checking, Ahead
<1>9. \A u \in Tasks \ {t} : Same(u)
  BY <1>1, <1>3, <1>4 DEF Same, BucketInv, TypeOK
<1> QED BY <1>1, <1>4, <1>5, <1>6, <1>7, <1>8, <1>9, InsideInv DEF Inner

\* The check of one directory: an object in it that was kept is an error, and
\* one in a directory below is ahead from then on.
LEMMA CheckDirectoryInv ==
  ASSUME BucketInv, NEW t \in Tasks, Check_directory_empty(t) PROVE BucketInv'
<1>1. pc[t] = "empty" /\ UNCHANGED <<dirs, objs, mpuls, special, holder, req, scratch, errors, kept>>
  BY DEF Check_directory_empty, tree
<1>2. holder = t /\ req[t] \in Reqs /\ t \notin scratch /\ Checking(t)
  BY <1>1 DEF BucketInv, Exclusive, Inner, Asking
<1>3. \A u \in Tasks : kept'[u] \subseteq objs'
  BY <1>1 DEF BucketInv, Checking
<1>4. ASSUME code' \in [Tasks -> {Nil} \cup Codes], pc' \in [Tasks -> PC],
             \A u \in Tasks \ {t} : pc'[u] = pc[u] /\ todo'[u] = todo[u],
             todo' \in [Tasks -> SUBSET (Keys \cup Dirs)],
             pc'[t] \in {"unlock", "empty", "rmall"}, Checking(t)'
      PROVE  BucketInv'
  <2>1. TypeOK'
    BY <1>1, <1>4 DEF BucketInv, TypeOK, key
  <2>2. Asking(t)'
    BY <1>1, <1>2, <1>4 DEF Asking
  <2>3. \A u \in Tasks \ {t} : Same(u)
    BY <1>1, <1>4 DEF Same
  <2> QED BY <1>1, <1>3, <1>4, <2>1, <2>2, <2>3, InsideInv DEF Inner
<1>5. CASE UNCHANGED todo /\ \E c \in Codes : finish(t, c)
  <2>1. /\ code' \in [Tasks -> {Nil} \cup Codes] /\ pc' \in [Tasks -> PC] /\ pc'[t] = "unlock"
        /\ \A u \in Tasks \ {t} : pc'[u] = pc[u]
    BY <1>2, <1>5, FinishType
  <2>2. Checking(t)'
    BY <1>3, <2>1 DEF Checking
  <2> QED BY <1>4, <1>5, <2>1, <2>2 DEF BucketInv, TypeOK
<1>6. ASSUME NEW d \in todo[t], d \in dirs, UNCHANGED code,
             d \in special \/ files(d).objs \cup files(d).mpuls = {},
             todo' = [todo EXCEPT ![t] = (@ \ {d}) \cup
                        (IF d = Top /\ d \notin special THEN dirs \ {Top} ELSE {})],
             go(t, IF todo'[t] = {} THEN "rmall" ELSE "empty")
      PROVE  BucketInv'
  <2>1. /\ pc' \in [Tasks -> PC] /\ pc'[t] = (IF todo'[t] = {} THEN "rmall" ELSE "empty")
        /\ \A u \in Tasks \ {t} : pc'[u] = pc[u]
    BY <1>6, GoType DEF PC
  <2>2. /\ todo' \in [Tasks -> SUBSET (Keys \cup Dirs)]
        /\ \A u \in Tasks \ {t} : todo'[u] = todo[u]
        /\ todo'[t] = (todo[t] \ {d}) \cup
                        (IF d = Top /\ d \notin special THEN dirs \ {Top} ELSE {})
    BY <1>6 DEF BucketInv, TypeOK
  <2>3. ASSUME NEW k \in kept[t], ~ unseen(k) PROVE Ahead(t, k)'
    <3>1. k \in objs /\ Home[k] \in dirs /\ Ahead(t, k)
      BY <1>1, <1>2, <2>3 DEF Checking, BucketInv, TypeOK
    <3>2. Top \notin special /\ Home[k] \notin special
      BY <2>3 DEF unseen
    <3>3. CASE Home[k] = d
      <4>1. files(d).objs = {}
        BY <1>6, <3>2, <3>3
      <4> QED BY <3>1, <3>3, <4>1 DEF files
    <3>4. CASE Home[k] # d
      BY <2>2, <3>1, <3>2, <3>4 DEF Ahead
    <3> QED BY <3>3, <3>4
  <2>4. \A k : unseen(k)' = unseen(k)
    BY <1>1 DEF unseen
  <2>5. Checking(t)'
    <3>1. \A k \in kept'[t] : unseen(k)' \/ Ahead(t, k)'
      BY <1>1, <2>3, <2>4
    <3>2. todo'[t] = {} => \A k \in kept'[t] : ~ Ahead(t, k)'
      BY DEF Ahead
    <3> QED BY <1>3, <2>1, <3>1, <3>2 DEF Checking
  <2>6. code' \in [Tasks -> {Nil} \cup Codes]
    BY <1>6 DEF BucketInv, TypeOK
  <2> QED BY <1>4, <2>1, <2>2, <2>5, <2>6
<1> QED BY <1>5, <1>6 DEF Check_directory_empty, Codes

\* What os.RemoveAll removes was not kept, or is behind a special file.  A
\* special file goes with its directory, when nothing is left there.
LEMMA RemoveAllInv ==
  ASSUME BucketInv, NEW t \in Tasks, Remove_all(t) PROVE BucketInv'
<1>1. pc[t] = "rmall" /\ UNCHANGED <<holder, req, todo, errors>>
  BY DEF Remove_all
<1>2. holder = t /\ req[t] \in Reqs /\ t \notin scratch /\ Checking(t)
  BY <1>1 DEF BucketInv, Exclusive, Inner, Asking
<1>3. ASSUME dirs' \subseteq dirs, dirs' # {} => Top \in dirs',
             objs' \subseteq objs, mpuls' \subseteq mpuls, scratch' \subseteq scratch,
             special' \subseteq special, special' \subseteq dirs',
             \A k \in objs' \cup mpuls' : Home[k] \in dirs',
             \A u \in scratch' : Home[key(u)] \in dirs',
             kept' \in [Tasks -> SUBSET Keys],
             \A u \in Tasks : kept'[u] \subseteq kept[u] \cap objs',
             \A u \in Tasks \ {t} : pc'[u] = pc[u],
             pc' \in [Tasks -> PC], code' \in [Tasks -> {Nil} \cup Codes],
             pc'[t] = "unlock" \/ (pc'[t] = "rmall" /\ \A k \in kept'[t] : unseen(k)')
      PROVE  BucketInv'
  <2>1. TypeOK'
    BY <1>1, <1>3 DEF BucketInv, TypeOK, key
  <2>2. Asking(t)'
    BY <1>1, <1>2, <1>3 DEF Asking
  <2>3. Checking(t)'
    BY <1>3 DEF Checking
  <2>4. \A u \in Tasks \ {t} : Same(u)
    BY <1>1, <1>3 DEF Same
  <2> QED BY <1>1, <1>3, <2>1, <2>2, <2>3, <2>4, InsideInv DEF Inner
<1>4. /\ dirs # {} => Top \in dirs
      /\ special \subseteq dirs
      /\ \A k \in objs \cup mpuls : Home[k] \in dirs
      /\ \A u \in scratch : Home[key(u)] \in dirs
      /\ kept \in [Tasks -> SUBSET Keys] /\ \A u \in Tasks : kept[u] \subseteq objs
      /\ pc \in [Tasks -> PC] /\ code \in [Tasks -> {Nil} \cup Codes]
      /\ \A k \in kept[t] : unseen(k)
  BY <1>1, <1>2 DEF BucketInv, TypeOK, Checking
<1>5. ASSUME NEW k \in objs, objs' = objs \ {k}, kept' = [u \in Tasks |-> kept[u] \ {k}],
             UNCHANGED <<dirs, mpuls, special, scratch, pc, code>>
      PROVE  BucketInv'
  BY <1>1, <1>3, <1>4, <1>5 DEF unseen
<1>6. ASSUME NEW k \in mpuls, mpuls' = mpuls \ {k},
             UNCHANGED <<dirs, objs, special, scratch, pc, code, kept>>
      PROVE  BucketInv'
  BY <1>1, <1>3, <1>4, <1>6 DEF unseen
<1>7. ASSUME NEW s \in scratch, scratch' = scratch \ {s},
             UNCHANGED <<dirs, objs, mpuls, special, pc, code, kept>>
      PROVE  BucketInv'
  BY <1>1, <1>3, <1>4, <1>7 DEF unseen
<1>8. ASSUME NEW d \in dirs \ {Top}, bare(d), dirs' = dirs \ {d}, special' = special \ {d},
             UNCHANGED <<objs, mpuls, scratch, pc, code, kept>>
      PROVE  BucketInv'
  <2>1. /\ \A k \in objs \cup mpuls : Home[k] # d
        /\ \A u \in scratch : Home[key(u)] # d
    BY <1>8, BareDirectory
  <2>2. ASSUME NEW k \in kept[t] PROVE unseen(k)'
    <3>1. Home[k] # d /\ unseen(k)
      BY <1>4, <2>1
    <3> QED BY <1>8, <3>1 DEF unseen
  <2> QED BY <1>1, <1>3, <1>4, <1>8, <2>1, <2>2
<1>9. ASSUME dirs = {Top}, bare(Top), dirs' = {}, special' = {}, finish(t, "OK"),
             UNCHANGED <<objs, mpuls, scratch, kept>>
      PROVE  BucketInv'
  <2>1. objs = {} /\ mpuls = {} /\ scratch = {}
    BY <1>9, BareTree
  <2>2. /\ code' \in [Tasks -> {Nil} \cup Codes] /\ pc' \in [Tasks -> PC] /\ pc'[t] = "unlock"
        /\ \A u \in Tasks \ {t} : pc'[u] = pc[u]
    BY <1>2, <1>9, FinishType DEF Codes
  <2> QED BY <1>1, <1>3, <1>4, <1>9, <2>1, <2>2
<1>10. ASSUME finish(t, "BucketNotEmpty"), UNCHANGED <<dirs, objs, mpuls, special, scratch, kept>>
       PROVE  BucketInv'
  <2>1. /\ code' \in [Tasks -> {Nil} \cup Codes] /\ pc' \in [Tasks -> PC] /\ pc'[t] = "unlock"
        /\ \A u \in Tasks \ {t} : pc'[u] = pc[u]
    BY <1>2, <1>10, FinishType DEF Codes
  <2> QED BY <1>1, <1>3, <1>4, <1>10, <2>1
<1> QED BY <1>5, <1>6, <1>7, <1>8, <1>9, <1>10 DEF Remove_all, tree

LEMMA BucketStep == BucketInv /\ [Next]_vars => BucketInv'
<1> SUFFICES ASSUME BucketInv, [Next]_vars PROVE BucketInv'
  OBVIOUS
<1>1. CASE UNCHANGED vars
  <2>1. UNCHANGED <<dirs, objs, mpuls, special, holder, pc, req, scratch, todo, errors, code, kept>>
    BY <1>1 DEF vars, tree
  <2>2. TypeOK'
    BY <2>1 DEF BucketInv, TypeOK, key
  <2>3. \A t \in Tasks : Asking(t)' /\ Exclusive(t)' /\ Checking(t)'
    BY <2>1 DEF BucketInv, Asking, op, Exclusive, Checking, unseen, Ahead
  <2> QED BY <2>2, <2>3 DEF BucketInv
<1> QED BY <1>1, StartInv, CheckInv, PutInv, DeleteInv, AccessInv, BucketDirInv,
           CheckDirectoryInv, RemoveAllInv DEF Next, Step, Ended

\* The invariant holds in every state: bucket operations exclude each other,
\* scratch files belong to a PutObject before its rename, and the check of
\* DeleteBucket has found or has ahead every object that was there before it.
THEOREM BucketInvariant == Spec => []BucketInv
BY BucketInit, BucketStep, PTL DEF Spec

\* Objects, uploads and scratch files are always in directories that exist,
\* although DeleteBucket removes directories while object operations, which it
\* is not serialized with, make new ones.
THEOREM TypeCorrect == Spec => []TypeOK
<1>1. BucketInv => TypeOK
  BY DEF BucketInv
<1> QED BY <1>1, BucketInvariant, PTL

\* DeleteBucket removes no object that was in the bucket before its check,
\* unless a special file has ended the check above the object.
THEOREM ObjectsAreKept == Spec => ObjectsKept
<1>1. BucketInv /\ [Next]_vars =>
        [\A t \in Tasks, k \in Keys :
           Remove_all(t) /\ k \in kept[t] \cap objs /\ ~ unseen(k) => k \in objs']_vars
  <2> SUFFICES ASSUME BucketInv, NEW t \in Tasks, NEW k \in Keys,
                      Remove_all(t), k \in kept[t], ~ unseen(k)
               PROVE  FALSE
    OBVIOUS
  <2>1. pc[t] = "rmall"
    BY DEF Remove_all
  <2> QED BY <2>1 DEF BucketInv, Checking
<1> QED BY <1>1, BucketInvariant, PTL DEF Spec, ObjectsKept
=============================================================================
