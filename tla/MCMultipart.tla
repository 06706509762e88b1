---------------------------- MODULE MCMultipart ----------------------------
(***************************************************************************)
(* Instances of Multipart for TLC: the requests of each run.               *)
(***************************************************************************)
EXTENDS Multipart, TLC

CONSTANTS u1, u2, a, b

Symmetry == Permutations(Tasks)

Plain(o, u) ==
  [op |-> o, uid |-> u, no |-> Nil, data |-> Nil, range |-> FALSE,
   list |-> <<>>, fresh |-> FALSE, since |-> Nil]
Create == Plain("CreateMultipartUpload", Nil)
Put(u, n, d) == [Plain("UploadPart", u) EXCEPT !.no = n, !.data = d]
Copy(u, n, r) == [Plain("UploadPartCopy", u) EXCEPT !.no = n, !.range = r]
Abort(u) == Plain("AbortMultipartUpload", u)
Complete(u, l) == [Plain("CompleteMultipartUpload", u) EXCEPT !.list = l]
Fresh(r) == [r EXCEPT !.fresh = TRUE]
Item(n, d) == [no |-> n, etag |-> d]

\* Part 1 was uploaded before.
Catalogs == {[n \in Numbers |-> IF n = 1 THEN a ELSE Nil]}

\* Part 1 always has data a and part 2 data b.
Honest ==
  {Create, Put(u1, 1, a), Put(u2, 2, b), Abort(u1),
   [Abort(u2) EXCEPT !.since = u1],
   Complete(u1, <<Item(1, a)>>), Complete(u1, <<Item(1, b)>>),
   Complete(u2, <<Item(1, a), Item(2, b)>>)}

\* Part 2 is a copy.
Copying ==
  {Create, Put(u1, 1, a), Copy(u1, 2, FALSE), Copy(u1, 2, TRUE), Abort(u1),
   Plain("ListParts", u1),
   Complete(u1, <<Item(1, a)>>), Fresh(Complete(u1, <<Item(1, a), Item(1, a)>>)),
   Complete(u1, <<Item(2, a), Item(1, a)>>), Complete(u1, <<>>)}

\* CompletedAsListed and ImplementsUploads depend on it.
ASSUME ClientsSteady == SteadyParts
=============================================================================
