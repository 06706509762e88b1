------------------------------ MODULE Objects ------------------------------
(***************************************************************************)
(* What the object operations of the server promise: a map from keys to    *)
(* objects, each with its data, tags and metadata headers.  A request that *)
(* is acknowledged has changed its object in one step, under the request's *)
(* conditions; nothing else changes an object.  Module ObjectStore is the  *)
(* implementation with two files per object.  CopyObject is not included:  *)
(* it reads and links its source outside of exclusion, and is not one step.*)
(***************************************************************************)
CONSTANTS
  Tasks,  \* the requests' goroutines
  Keys,   \* object names
  Reqs,   \* requests, see ObjectStore
  Nil     \* no object, no tags, no headers

VARIABLES
  obj,    \* obj[k]: Nil or [data, tags, hdrs]
  asked,  \* asked[t]: the request of t
  acked   \* the tasks whose request has been acknowledged

vars == <<obj, asked, acked>>

\* Existing files become objects without tags and headers.
Init ==
  /\ \A k \in Keys : obj[k] # Nil => obj[k].tags = Nil /\ obj[k].hdrs = Nil
  /\ asked = [t \in Tasks |-> Nil]
  /\ acked = {}

Ask(t, r) ==
  /\ asked[t] = Nil
  /\ asked' = [asked EXCEPT ![t] = r]
  /\ UNCHANGED <<obj, acked>>

\* If-Match and If-None-Match; an ETag stands for the data it is the MD5 of.
Holds(c, o) ==
  /\ c.some # Nil => o # Nil /\ c.some \in {"*", o.data}
  /\ c.none # Nil => o = Nil \/ c.none \notin {"*", o.data}

PutObject(r) ==
  /\ r.op = "PutObject"
  /\ Holds(r.cond, obj[r.key])
  /\ obj' = [obj EXCEPT ![r.key] =
               [data |-> r.data, tags |-> r.tags, hdrs |-> r.hdrs]]

DeleteObject(r) ==
  /\ r.op = "DeleteObject"
  /\ obj[r.key] # Nil
  /\ Holds(r.cond, obj[r.key])
  /\ obj' = [obj EXCEPT ![r.key] = Nil]

PutObjectTagging(r) ==
  /\ r.op = "PutObjectTagging"
  /\ obj[r.key] # Nil
  /\ obj' = [obj EXCEPT ![r.key].tags = r.tags]

DeleteObjectTagging(r) ==
  /\ r.op = "DeleteObjectTagging"
  /\ obj[r.key] # Nil
  /\ obj' = [obj EXCEPT ![r.key].tags = Nil]

\* The other operations change no object.
Read(r) ==
  /\ r.op \in {"GetObject", "HeadObject", "GetObjectTagging", "GetObjectAttributes"}
  /\ UNCHANGED obj

Acknowledge(t) ==
  /\ asked[t] # Nil
  /\ t \notin acked
  /\ \/ PutObject(asked[t])
     \/ DeleteObject(asked[t])
     \/ PutObjectTagging(asked[t])
     \/ DeleteObjectTagging(asked[t])
     \/ Read(asked[t])
  /\ acked' = acked \cup {t}
  /\ UNCHANGED asked

Next == \E t \in Tasks : Acknowledge(t) \/ \E r \in Reqs : Ask(t, r)

Spec == Init /\ [][Next]_vars

(***************************************************************************)
(* With failures and crashes: objects may lose their tags and headers, and *)
(* nothing else.                                                           *)
(***************************************************************************)
Lose ==
  /\ \E S \in SUBSET {k \in Keys : obj[k] # Nil} :
       obj' = [k \in Keys |->
                 IF k \in S THEN [data |-> obj[k].data, tags |-> Nil, hdrs |-> Nil]
                 ELSE obj[k]]
  /\ UNCHANGED <<asked, acked>>

LossySpec == Init /\ [][Next \/ Lose]_vars
=============================================================================
