-------------------------- MODULE MCChunkedReader --------------------------
(***************************************************************************)
(* Uploads for ChunkedReader.                                              *)
(***************************************************************************)
EXTENDS ChunkedReader, SequencesExt

\* A chunk of the data first..last.
chunk(first, last, sig) ==
  <<head(last - first + 1, sig)>> \o [i \in 1..(last - first + 1) |-> data(first - 1 + i)] \o <<CR, LF>>

\* n blocks of data in one chunk or in two, with the first k in the first.
chunks(n, k, sig) ==
  IF n = 0 THEN <<>>
  ELSE IF k = 0 THEN chunk(1, n, sig)
  ELSE chunk(1, k, sig) \o chunk(k + 1, n, sig)

payload(n) == [i \in 1..n |-> data(i)]

Raw(n) ==
  [te |-> FALSE, trailer |-> FALSE, ce |-> FALSE, sha |-> "UNSIGNED-PAYLOAD", length |-> n,
   told |-> FALSE, decoded |-> 0, payload |-> payload(n), stream |-> payload(n)]

Http1(n, k, tr) ==
  [Raw(n) EXCEPT !.te = TRUE, !.trailer = tr, !.length = -1,
    !.stream = chunks(n, k, FALSE) \o <<head(0, FALSE)>> \o (IF tr THEN <<TRAILER>> ELSE <<CR, LF>>)]

Aws(n, k, sig, tr) ==
  LET s == chunks(n, k, sig) \o <<head(0, sig)>> \o (IF tr THEN <<TRAILER>> ELSE <<CR, LF>>)
  IN [Raw(n) EXCEPT !.te = TRUE, !.ce = TRUE, !.told = TRUE, !.decoded = n, !.length = Len(s), !.stream = s,
       !.sha = IF sig THEN IF tr THEN "STREAMING-AWS4-HMAC-SHA256-PAYLOAD-TRAILER"
                           ELSE "STREAMING-AWS4-HMAC-SHA256-PAYLOAD"
               ELSE "STREAMING-UNSIGNED-PAYLOAD-TRAILER"]

\* The last unit, a trailer, is replaced by s.
Untrailed(u, s) == [u EXCEPT !.stream = Front(u.stream) \o s]

Good ==
  {Raw(n) : n \in {0, 3}}
  \cup {Http1(n, k, tr) : n \in {0, 3}, k \in 0..2, tr \in BOOLEAN}
  \cup {Aws(n, k, TRUE, tr) : n \in {0, 4}, k \in 0..2, tr \in BOOLEAN}
  \cup {Aws(n, k, FALSE, TRUE) : n \in {0, 4}, k \in 0..2}
  \cup {Untrailed(Http1(2, 1, TRUE), s) : s \in {<<CR, LF>>, <<LF>>}}
  \cup {Untrailed(Aws(2, 0, FALSE, TRUE), s) : s \in {<<CR, LF>>, <<LF>>}}
  \cup {[Aws(2, 1, TRUE, FALSE) EXCEPT !.decoded = -1]}

\* Headers and streams that do not agree.
Wrong ==
  {[Aws(2, 1, TRUE, FALSE) EXCEPT !.decoded = 3, !.payload = payload(3)],
   [Aws(2, 1, TRUE, FALSE) EXCEPT !.told = FALSE],
   [Aws(2, 1, TRUE, FALSE) EXCEPT !.decoded = -2],
   [Http1(1, 0, FALSE) EXCEPT !.stream = chunk(1, 1, FALSE) \o <<head(-1, FALSE)>>],
   Untrailed(Http1(2, 1, TRUE), <<>>), Untrailed(Http1(2, 1, TRUE), <<CR>>),
   Untrailed(Http1(2, 1, TRUE), <<head(0, FALSE)>>),
   Untrailed(Http1(2, 1, TRUE), <<CR, CR>>),
   [Aws(2, 1, FALSE, TRUE) EXCEPT !.sha = "STREAMING-AWS4-HMAC-SHA256-PAYLOAD"],
   [Aws(2, 1, TRUE, TRUE) EXCEPT !.ce = FALSE],
   [Aws(2, 1, TRUE, TRUE) EXCEPT !.sha = "unknown"],
   [Aws(2, 1, TRUE, TRUE) EXCEPT !.trailer = TRUE],
   [Raw(2) EXCEPT !.te = TRUE],
   [Raw(2) EXCEPT !.length = 3, !.payload = payload(3)]}

All == Good \cup Wrong

ASSUME UploadsMeant == \A u \in All : meant(u) /\ (complete(u) <=> u \in Good)
=============================================================================
