------------------------------ MODULE Listings ------------------------------
(***************************************************************************)
(* ListObjects, ListObjectsV2, ListMultipartUploads, ListBuckets and       *)
(* ListParts of v1/server, asked page by page by one client, while other   *)
(* requests add and remove what is listed: "Listing is performed without   *)
(* serialization" (design.md).                                             *)
(*                                                                         *)
(* A key is a number: its place in the order of fs.WalkDir (of os.ReadDir  *)
(* for buckets, of the catalog for parts).  What matters of its name is    *)
(* whether it has the prefix that is asked for, and its common prefix, a   *)
(* number in 1.. that is 0 for none.  A visit of a file by the walk is a   *)
(* step, and so is the later read of the status of a file to be listed.    *)
(*                                                                         *)
(* Objects with the same common prefix lie together in the order of the    *)
(* walk, as their names begin alike.  Uploads need not: the walk meets     *)
(* .a-1@mpul, .b-1@mpul and a-2/.x@mpul, whose keys have the common        *)
(* prefixes a-, b- and a- with the delimiter "-".                          *)
(***************************************************************************)
EXTENDS Integers, Sequences, SequencesExt, FiniteSets, FiniteSetsExt

CONSTANTS
  N,           \* how many keys there may be
  Dir,         \* Dir[k]: the directory of key k
  Top,         \* the directory of the bucket, which the walk reads first
  Requests,    \* what the client may ask for
  MaxChanges,  \* how often other requests may add or remove a key
  MaxPages     \* how many pages a client asks for before it gives up

Keys == 1..N
Ops == {"ListObjects", "ListObjectsV2", "ListMultipartUploads", "ListBuckets", "ListParts"}
NoCommon == [k \in Keys |-> 0]

\* What has a common prefix of c lies together in the order of the walk.
together(c) ==
  \A i, j, k \in Keys : i < j /\ j < k /\ c[i] = c[k] => c[j] = c[i] \/ c[i] = 0

\* max is -1 when ListParts is asked without MaxParts; after is StartAfter.
\* Buckets and parts have no common prefixes.  A negative limit is not rejected:
\* it is as 0 in a walk, and a slice of buckets or parts panics with it.
Request ==
  [op : Ops, max : Int, after : {0} \cup Keys, match : SUBSET Keys, common : [Keys -> 0..N]]

ASSUME ListingsAssumption ==
  /\ N \in Nat /\ MaxChanges \in Nat /\ MaxPages \in Nat \ {0}
  /\ Requests \subseteq Request
  /\ \A r \in Requests :
       /\ r.after # 0 => r.op = "ListObjectsV2"
       /\ r.op = "ListBuckets" => r.max >= 0
       /\ r.op = "ListParts" => r.max >= -1
       /\ r.op \in {"ListBuckets", "ListParts"} => r.common = NoCommon
       /\ r.op # "ListMultipartUploads" => together(r.common)

VARIABLES
  present,     \* the keys that exist
  changes,     \* how many changes there have been
  begun,       \* history: the keys that existed at first
  added,       \* history: the keys that have been added
  removed,     \* history: the keys that have been removed
  req,         \* what the client asks for
  token,       \* the continuation token, KeyMarker or Marker of the next page
  listing,     \* the entries the client has got: the name (number) and the key
  pages,       \* how many pages it has got
  phase,       \* where the server is with a page
  pos,         \* the walk: the next key
  known,       \* the walk: the files in the directories it has read
  entries,     \* the keys on the page
  count,       \* the walk: entries visited
  markerhit,   \* the walk: the marker has been met
  commonprefix, \* the walk: the common prefix met last
  nextindex,
  nextmarker

bucket == <<present, changes, begun, added, removed>>
client == <<req, token, listing, pages>>
walk == <<pos, known, count, markerhit, commonprefix, nextindex, nextmarker>>
vars == <<bucket, client, phase, entries, walk>>

Init ==
  /\ present \in SUBSET Keys
  /\ changes = 0 /\ begun = present /\ added = {} /\ removed = {}
  /\ req \in Requests
  /\ token = 0 /\ listing = <<>> /\ pages = 0
  /\ phase = "ask"
  /\ pos = 1 /\ known = {} /\ entries = <<>> /\ count = 0 /\ markerhit = FALSE
  /\ commonprefix = 0 /\ nextindex = 0 /\ nextmarker = 0

\* check_common_prefix, which is 0 when there is no delimiter.
check_common_prefix(k) == req.common[k]

Walking == {"ListObjects", "ListObjectsV2", "ListMultipartUploads"}
index == IF req.op \in {"ListObjectsV2", "ListBuckets", "ListParts"} THEN token ELSE 0
marker == IF req.op = "ListObjectsV2" THEN req.after
          ELSE IF req.op \in Walking THEN token ELSE 0

\* The keys of a set in order: the i-th one has i - 1 below it.
below(S, k) == {j \in S : j < k}
Ordered(S) == [i \in 1..Cardinality(S) |-> CHOOSE k \in S : Cardinality(below(S, k)) = i - 1]
-----------------------------------------------------------------------------
\* A listing of objects or uploads starts its walk at the top directory.
Start_walk ==
  /\ phase = "ask" /\ req.op \in Walking
  /\ phase' = "walk"
  /\ pos' = 1
  /\ known' = {k \in present : Dir[k] = Top}
  /\ entries' = <<>> /\ count' = 0 /\ markerhit' = FALSE /\ commonprefix' = 0
  /\ nextindex' = 0 /\ nextmarker' = 0
  /\ UNCHANGED <<bucket, client>>

\* How many entries count for the limit of a page: uploads are limited
\* without their common prefixes.
counted ==
  IF req.op = "ListMultipartUploads"
  THEN Cardinality({i \in DOMAIN entries : check_common_prefix(entries[i]) = 0})
  ELSE Len(entries)

\* The files known to the walk at key pos, whose directory is read when the
\* walk comes to it.
read_dir ==
  IF Dir[pos] = Top \/ \E j \in 1..(pos - 1) : Dir[j] = Dir[pos] THEN known
  ELSE known \cup {k \in present : Dir[k] = Dir[pos]}

\* The key at pos is passed over: there is no such file (now, for objects),
\* it has not the prefix, or its common prefix has just been met.
passed_over ==
  \/ pos \notin read_dir
  \/ req.op # "ListMultipartUploads" /\ pos \notin present
  \/ pos \notin req.match
  \/ check_common_prefix(pos) # 0 /\ check_common_prefix(pos) = commonprefix

\* It comes before the marker or before the index.
too_early ==
  \/ marker # 0 /\ ~ markerhit /\ marker # pos
  \/ count < index

Visit_skip ==
  /\ phase = "walk" /\ pos <= N
  /\ passed_over
  /\ pos' = pos + 1
  /\ known' = read_dir
  /\ UNCHANGED <<bucket, client, phase, entries, count, markerhit, commonprefix,
                 nextindex, nextmarker>>

\* What is done for a key that is not passed over, whatever follows.
Met ==
  /\ phase = "walk" /\ pos <= N
  /\ ~ passed_over
  /\ pos' = pos + 1
  /\ known' = read_dir
  /\ count' = count + 1
  /\ markerhit' = (markerhit \/ (marker # 0 /\ marker = pos))
  /\ commonprefix' = IF check_common_prefix(pos) # 0 THEN check_common_prefix(pos)
                     ELSE commonprefix

Visit_early ==
  /\ Met
  /\ too_early
  /\ UNCHANGED <<bucket, client, phase, entries, nextindex, nextmarker>>

\* Mutant of Visit_entry: a page may have one entry more.
Visit_entry_more ==
  /\ Met
  /\ ~ too_early
  /\ counted <= req.max
  /\ entries' = Append(entries, pos)
  /\ UNCHANGED <<bucket, client, phase, nextindex, nextmarker>>

\* Mutant of Visit_entry: the common prefix is not remembered.
Visit_entry_forgets ==
  /\ phase = "walk" /\ pos <= N
  /\ ~ passed_over /\ ~ too_early
  /\ counted < req.max
  /\ pos' = pos + 1 /\ known' = read_dir /\ count' = count + 1
  /\ markerhit' = (markerhit \/ (marker # 0 /\ marker = pos))
  /\ entries' = Append(entries, pos)
  /\ UNCHANGED <<bucket, client, phase, commonprefix, nextindex, nextmarker>>

\* The key is put on the page.  The info of an upload is read here, and an
\* upload that is gone is left out; a common prefix is not looked into.
Visit_entry ==
  /\ Met
  /\ ~ too_early
  /\ counted < req.max
  /\ entries' = IF pos \in present \/ check_common_prefix(pos) # 0
                THEN Append(entries, pos) ELSE entries
  /\ UNCHANGED <<bucket, client, phase, nextindex, nextmarker>>

\* Mutant of Visit_full: the next page starts one entry later.
Visit_full_late ==
  /\ Met
  /\ ~ too_early
  /\ counted >= req.max
  /\ nextindex' = count + 1
  /\ nextmarker' = pos
  /\ phase' = "fill"
  /\ UNCHANGED <<bucket, client, entries>>

\* Mutant of Visit_full: the marker is the last key that is listed.
Visit_full_last ==
  /\ Met
  /\ ~ too_early
  /\ counted >= req.max
  /\ nextindex' = count
  /\ nextmarker' = IF entries = <<>> THEN pos ELSE Last(entries)
  /\ phase' = "fill"
  /\ UNCHANGED <<bucket, client, entries>>

\* The page is full and the walk ends: the next page starts with this key.
Visit_full ==
  /\ Met
  /\ ~ too_early
  /\ counted >= req.max
  /\ nextindex' = count
  /\ nextmarker' = pos
  /\ phase' = "fill"
  /\ UNCHANGED <<bucket, client, entries>>

Walk_ends ==
  /\ phase = "walk" /\ pos > N
  /\ phase' = "fill"
  /\ UNCHANGED <<bucket, client, entries, walk>>
-----------------------------------------------------------------------------
\* Mutant of List_buckets: the token is one too large.
List_buckets_late ==
  /\ phase = "ask" /\ req.op = "ListBuckets"
  /\ LET all == Ordered(present \cap req.match)
         end == Min({index + req.max, Len(all)})
     IN IF index < Len(all)
        THEN /\ entries' = SubSeq(all, index + 1, end)
             /\ nextindex' = IF end < Len(all) THEN end + 1 ELSE 0
        ELSE entries' = <<>> /\ nextindex' = 0
  /\ phase' = "fill"
  /\ UNCHANGED <<bucket, client, pos, known, count, markerhit, commonprefix, nextmarker>>

\* list_buckets: the directory is read and a slice of it is taken.
List_buckets ==
  /\ phase = "ask" /\ req.op = "ListBuckets"
  /\ LET all == Ordered(present \cap req.match)
         end == Min({index + req.max, Len(all)})
     IN IF index < Len(all)
        THEN /\ entries' = SubSeq(all, index + 1, end)
             /\ nextindex' = IF end < Len(all) THEN end ELSE 0
        ELSE entries' = <<>> /\ nextindex' = 0
  /\ phase' = "fill"
  /\ UNCHANGED <<bucket, client, pos, known, count, markerhit, commonprefix, nextmarker>>

\* ListParts: a slice of the catalog, whose length is the largest part number
\* so far; parts that were not uploaded have empty slots.  With MaxParts, the
\* answer is always truncated.
List_parts ==
  /\ phase = "ask" /\ req.op = "ListParts"
  /\ LET len == Max({0} \cup present)
         start == Min({index, len})
         end == IF req.max = -1 THEN len ELSE Min({index + req.max, len})
     IN /\ entries' = [i \in 1..(end - start) |-> start + i]
        /\ nextindex' = IF req.max = -1 THEN 0 ELSE end
  /\ phase' = "answer"
  /\ UNCHANGED <<bucket, client, pos, known, count, markerhit, commonprefix, nextmarker>>

\* make_list_objects_entries, and the end of list_buckets: the status of each
\* entry is read (by the position pos on the page), and an entry that is gone
\* is left out.  A common prefix is not looked into.
Fill_start ==
  /\ phase = "fill"
  /\ phase' = IF req.op = "ListMultipartUploads" THEN "answer" ELSE "status"
  /\ pos' = 1
  /\ UNCHANGED <<bucket, client, entries, known, count, markerhit, commonprefix,
                 nextindex, nextmarker>>

Fetch_status ==
  /\ phase = "status" /\ pos <= Len(entries)
  /\ IF entries[pos] \in present \/ check_common_prefix(entries[pos]) # 0
     THEN pos' = pos + 1 /\ UNCHANGED entries
     ELSE entries' = RemoveAt(entries, pos) /\ UNCHANGED pos
  /\ UNCHANGED <<bucket, client, phase, known, count, markerhit, commonprefix,
                 nextindex, nextmarker>>

Fetched ==
  /\ phase = "status" /\ pos > Len(entries)
  /\ phase' = "answer"
  /\ UNCHANGED <<bucket, client, entries, walk>>

\* IsTruncated of the answer; that of ListMultipartUploads is by its marker.
truncated ==
  CASE req.op = "ListMultipartUploads" -> nextmarker # 0
    [] req.op = "ListParts" -> req.max # -1
    [] OTHER -> nextindex # 0

\* The client gets the page and asks for the next one, if there is.  (The
\* marker of ListMultipartUploads is returned as KeyMarker.)  The number of a
\* part in ListParts is its place on the page.
Answer ==
  /\ phase = "answer"
  /\ listing' = listing \o [i \in DOMAIN entries |->
       [name |-> IF req.op = "ListParts" THEN i ELSE entries[i], key |-> entries[i]]]
  /\ pages' = pages + 1
  /\ token' = IF req.op \in {"ListObjects", "ListMultipartUploads"} THEN nextmarker ELSE nextindex
  /\ phase' = IF ~ truncated THEN "done" ELSE IF pages' < MaxPages THEN "ask" ELSE "tired"
  /\ UNCHANGED <<bucket, req, entries, walk>>

\* Other requests.
Change(k) ==
  /\ changes < MaxChanges
  /\ phase \notin {"done", "tired"}
  /\ changes' = changes + 1
  /\ IF k \in present
     THEN present' = present \ {k} /\ removed' = removed \cup {k} /\ UNCHANGED added
     ELSE present' = present \cup {k} /\ added' = added \cup {k} /\ UNCHANGED removed
  /\ UNCHANGED <<begun, client, phase, entries, walk>>

Ended == phase \in {"done", "tired"} /\ UNCHANGED vars

Serve ==
  \/ Start_walk \/ Visit_skip \/ Visit_early \/ Visit_entry \/ Visit_full \/ Walk_ends
  \/ List_buckets \/ List_parts \/ Fill_start \/ Fetch_status \/ Fetched \/ Answer

Next == Serve \/ (\E k \in Keys : Change(k)) \/ Ended

\* The goroutine of a request runs, and the client asks on.
Spec == Init /\ [][Next]_vars /\ WF_vars(Serve)
-----------------------------------------------------------------------------
\* Every variable has its type, and a page keeps its limit (common prefixes
\* of uploads do not count).
TypeOK ==
  /\ present \subseteq Keys /\ begun \subseteq Keys
  /\ added \subseteq Keys /\ removed \subseteq Keys
  /\ changes \in 0..MaxChanges
  /\ req \in Requests
  /\ token \in 0..N /\ pages \in 0..MaxPages
  /\ \A i \in DOMAIN listing : listing[i].name \in Keys /\ listing[i].key \in Keys
  /\ phase \in {"ask", "walk", "fill", "status", "answer", "done", "tired"}
  /\ pos \in 1..(N + 1)
  /\ known \subseteq Keys
  /\ \A i \in DOMAIN entries : entries[i] \in Keys
  /\ req.max >= 0 => counted <= req.max
  /\ count \in 0..N /\ nextindex \in 0..N /\ nextmarker \in 0..N
  /\ markerhit \in BOOLEAN
  /\ commonprefix \in 0..N

\* What is listed of the keys P in one page: the keys without a common prefix,
\* and each common prefix by its first key; again where another common prefix
\* has come between.
firsts(P) ==
  {k \in P \cap req.match :
     check_common_prefix(k) # 0 =>
       \A j \in P \cap req.match :
         j < k /\ check_common_prefix(j) = check_common_prefix(k) =>
           \E m \in P \cap req.match :
             j < m /\ m < k /\ check_common_prefix(m) \notin {0, check_common_prefix(k)}}

\* With StartAfter, what comes from that key on, which is itself listed; when
\* the walk does not meet it, nothing is.
wanted(P) ==
  {k \in firsts(P) : req.after # 0 => req.after \in firsts(P) /\ k >= req.after}

listed == {listing[i].key : i \in DOMAIN listing}

\* The pages of a listing put together, while nothing changes, are the listing
\* that one page without a limit would be: each key and each common prefix (as
\* often as it lies apart), in order, whatever the limit of a page (of at least
\* 1), also when a common prefix falls on the end of a page.  (ListParts lists
\* the slots of the catalog.)
PagesWhole ==
  phase = "done" /\ changes = 0 /\ (req.max > 0 \/ req.op = "ListParts" \/ begun = {}) =>
    [i \in DOMAIN listing |-> listing[i].key] =
      IF req.op = "ListParts" THEN [i \in 1..Max({0} \cup begun) |-> i]
      ELSE Ordered(wanted(begun))

\* No key is listed twice, and no common prefix whose keys lie together (for
\* uploads those of delimiter "/"), although keys come and go between the pages
\* and during a walk, when pages are continued by a marker; when they are
\* continued by an index, as long as no key is added.
NoneTwice ==
  req.op \in {"ListObjects", "ListMultipartUploads"} \/ added = {} =>
    \A i, j \in DOMAIN listing :
      i < j => LET k == listing[i].key
                   l == listing[j].key
               IN k < l /\ (together(req.common) =>
                              check_common_prefix(k) # check_common_prefix(l) \/ check_common_prefix(k) = 0)

\* A key that is there all the time is listed although others are added
\* meanwhile, except for one case: with a common prefix, the key at which a
\* marker points may not be the first of its prefix any more, and then the
\* rest is not listed.  (When keys are removed, an index skips others, and a
\* marker that has gone ends the listing.)
StableListed ==
  /\ phase = "done" /\ removed = {} /\ req.max > 0
  /\ req.common = NoCommon \/ (req.op = "ListObjectsV2" /\ req.after = 0)
  => \A k \in wanted(begun) :
       \/ k \in listed
       \/ check_common_prefix(k) # 0
          /\ \E l \in listed : check_common_prefix(l) = check_common_prefix(k)

\* A client that asks for page after page comes to an end.
PagingEnds == <>(phase = "done")
=============================================================================
