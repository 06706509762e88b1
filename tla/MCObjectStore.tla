--------------------------- MODULE MCObjectStore ---------------------------
(***************************************************************************)
(* Instances of ObjectStore for TLC: the requests of each run.             *)
(***************************************************************************)
EXTENDS ObjectStore, TLC

CONSTANTS k1, k2, small, large, x, y

Symmetry == Permutations(Tasks)

If_match(d) == [some |-> d, none |-> Nil]
If_none_match(d) == [some |-> Nil, none |-> d]

Plain(o, k) ==
  [op |-> o, key |-> k, src |-> Nil, data |-> Nil, tags |-> Nil, hdrs |-> Nil,
   cond |-> NoCond, metadata |-> "", tagging |-> ""]
If(r, c) == [r EXCEPT !.cond = c]
Put(k, d, l) == [Plain("PutObject", k) EXCEPT !.data = d, !.tags = l]
Copy(j, k, d, l) ==
  [Plain("CopyObject", k) EXCEPT
     !.src = j, !.tagging = d, !.metadata = d, !.tags = l]
Tag(k, l) == [Plain("PutObjectTagging", k) EXCEPT !.tags = l]

Get(k) == Plain("GetObject", k)
Head(k) == Plain("HeadObject", k)
Delete(k) == Plain("DeleteObject", k)

\* The operations that modify one object, and the one that reads its tags.
Updates ==
  {Put(k1, small, Nil), Put(k1, large, x),
   If(Put(k1, small, y), If_none_match("*")),
   If(Put(k1, large, Nil), If_match(small)),
   Delete(k1), If(Delete(k1), If_match(large)),
   Tag(k1, y), Plain("DeleteObjectTagging", k1),
   Plain("GetObjectTagging", k1)}

\* Updates of one object that fail, and readers of it.
Failures ==
  {Put(k1, small, x), If(Put(k1, large, Nil), If_match(small)), Delete(k1), Tag(k1, y),
   Get(k1), If(Get(k1), If_none_match(small)), If(Head(k1), If_match("*")),
   Plain("GetObjectAttributes", k1)}

\* Copies between two objects and of an object to itself.
Copies ==
  {Copy(k1, k2, "COPY", Nil), Copy(k2, k1, "", Nil), Copy(k1, k1, "REPLACE", y),
   If(Copy(k1, k2, "REPLACE", x), If_match(small)),
   Put(k1, small, Nil), Put(k1, large, x), Delete(k2), Tag(k2, x)}

\* Requests that return from exclusion on all paths, and a reader.
Queueing ==
  {If(Put(k1, large, Nil), If_match(small)), Delete(k1), Tag(k1, x), Get(k1)}

\* A reader that saves an ETag, and tagging.
TagAndGet == {Tag(k1, x), Get(k1)}
=============================================================================
