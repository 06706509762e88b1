----------------------------- MODULE MCListings -----------------------------
(***************************************************************************)
(* Instances of Listings for TLC.                                          *)
(***************************************************************************)
EXTENDS Listings

CONSTANTS top, d, e

\* Keys 2 and 3 are in directory d and key 4 in directory e.
Dirs == [k \in Keys |-> IF k \in {2, 3} THEN d ELSE IF k = 4 THEN e ELSE top]
Slash == [k \in Keys |-> IF k \in {2, 3} THEN 1 ELSE IF k = 4 THEN 2 ELSE 0]

R(o, m) == [op |-> o, max |-> m, after |-> 0, match |-> Keys, common |-> NoCommon]

\* Uploads of a-1, D/x, D/y and a-2/z, or of a-1, D/x-1, D/y and a-2/z, with the
\* delimiter "-": key 4 has the common prefix of key 1.
Dash == <<1, 0, 0, 1, 0>>
Scattered == <<1, 2, 0, 1, 0>>
U(m, c) == [R("ListMultipartUploads", m) EXCEPT !.match = 1..4, !.common = c]

Asked ==
  {R(o, 1) : o \in Ops \ {"ListParts"}} \cup {R(o, 2) : o \in Ops \ {"ListParts"}}
  \cup {[R(o, m) EXCEPT !.common = Slash] : o \in Walking, m \in {1, 2}}
  \cup {[R(o, 1) EXCEPT !.match = {2, 3}] : o \in Ops \ {"ListParts"}}
  \cup {[R("ListObjectsV2", 1) EXCEPT !.after = 2],
        [R("ListObjectsV2", 1) EXCEPT !.after = 3, !.common = Slash]}
  \cup {U(m, c) : m \in {1, 2}, c \in {Dash, Scattered}}
  \cup {R("ListObjectsV2", 0), R("ListParts", -1)}
=============================================================================
