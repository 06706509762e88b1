------------------------------ MODULE Uploads ------------------------------
(***************************************************************************)
(* What the multipart operations promise about one object: there is at     *)
(* most one upload, with an id and the parts uploaded so far.  A request   *)
(* that is acknowledged has taken effect in one step, and a part is        *)
(* accepted only for the upload that is going on.  Completion makes the    *)
(* object of the parts that the request lists.  Module Multipart is the    *)
(* implementation with a directory of files.                               *)
(***************************************************************************)
CONSTANTS
  Tasks,    \* the requests' goroutines
  Ids,      \* upload ids
  Numbers,  \* part numbers
  Data,     \* contents of parts
  Reqs,     \* requests, see Multipart
  Nil

VARIABLES
  ongoing,  \* the id of the upload, or Nil
  parts,    \* parts[n]: the data of part n, or Nil
  object,   \* the data of the completed object, or Nil
  asked,    \* asked[t]: the request of t
  acked     \* the tasks whose request has been acknowledged

vars == <<ongoing, parts, object, asked, acked>>

NoParts == [n \in Numbers |-> Nil]

Init ==
  /\ ongoing = Nil => parts = NoParts
  /\ object = Nil
  /\ asked = [t \in Tasks |-> Nil]
  /\ acked = {}

Ask(t, r) ==
  /\ asked[t] = Nil
  /\ asked' = [asked EXCEPT ![t] = r]
  /\ UNCHANGED <<ongoing, parts, object, acked>>

\* An upload replaces an earlier one, whose parts are gone.
Create(r) ==
  /\ r.op = "CreateMultipartUpload"
  /\ ongoing' \in Ids
  /\ parts' = NoParts
  /\ UNCHANGED object

Upload(r) ==
  /\ r.op \in {"UploadPart", "UploadPartCopy"}
  /\ ongoing = r.uid
  /\ \E d \in IF r.op = "UploadPart" THEN {r.data} ELSE Data :
       parts' = [parts EXCEPT ![r.no] = d]
  /\ UNCHANGED <<ongoing, object>>

Abort(r) ==
  /\ r.op = "AbortMultipartUpload"
  /\ ongoing = r.uid
  /\ ongoing' = Nil
  /\ parts' = NoParts
  /\ UNCHANGED object

\* The parts that are listed make the object, and the upload is over.
Complete(r) ==
  /\ r.op = "CompleteMultipartUpload"
  /\ object' = [i \in DOMAIN r.list |-> r.list[i].etag]
  /\ ongoing' = Nil
  /\ parts' = NoParts

List(r) ==
  /\ r.op = "ListParts"
  /\ UNCHANGED <<ongoing, parts, object>>

Acknowledge(t) ==
  /\ asked[t] # Nil
  /\ t \notin acked
  /\ \/ Create(asked[t]) \/ Upload(asked[t]) \/ Abort(asked[t])
     \/ Complete(asked[t]) \/ List(asked[t])
  /\ acked' = acked \cup {t}
  /\ UNCHANGED asked

Next == \E t \in Tasks : Acknowledge(t) \/ \E r \in Reqs : Ask(t, r)

Spec == Init /\ [][Next]_vars
=============================================================================
