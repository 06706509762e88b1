----------------------------- MODULE MCBuckets -----------------------------
(***************************************************************************)
(* Instances of Buckets for TLC.                                           *)
(***************************************************************************)
EXTENDS Buckets, TLC

CONSTANTS x, y, top, sub

Symmetry == Permutations(Tasks)

\* Object x is in the top directory and y in a directory below.
Homes == [k \in Keys |-> IF k = x THEN top ELSE sub]
R(o, l) == [op |-> o, keys |-> l]

Traffic ==
  {R("CreateBucket", <<>>), R("DeleteBucket", <<>>), R("HeadBucket", <<>>),
   R("PutObject", <<x>>), R("PutObject", <<y>>), R("CreateMultipartUpload", <<y>>),
   R("DeleteObject", <<x>>), R("DeleteObjects", <<x, y>>)}
=============================================================================
