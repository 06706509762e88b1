--------------------------- MODULE ChunkedReader ---------------------------
(***************************************************************************)
(* The body of one upload: make_chunked_reader, Chunked_reader and the     *)
(* io.Copy of copy_content_stream in v1/server, on a connection that       *)
(* returns as many bytes as it likes and may break.                        *)
(*                                                                         *)
(* A stream is a sequence of units: a chunk header with its CR LF, a block *)
(* of data, a CR, an LF, and a trailer with the empty line at its end.  A  *)
(* header is one unit because it is peeked before it is read, and a        *)
(* trailer because textproto.Reader waits for all of its lines.  A CR LF   *)
(* after a chunk is two units because it is read without a peek.  Lengths  *)
(* count units.                                                            *)
(*                                                                         *)
(* The stream is the body as net/http gives it to the handler, and its end *)
(* is the EOF of that body.  "It assumes Golang's http server does NOT     *)
(* handle http1-chunked streams" (chunked-reader.go); where it does, the   *)
(* stream of such an upload is its data without headers.                   *)
(*                                                                         *)
(* With Nesting, the stream is what an inner chunked reader returns, which *)
(* is again a connection that returns as much as it likes.                 *)
(***************************************************************************)
EXTENDS Integers, Sequences, FiniteSets, FiniteSetsExt

CONSTANTS
  Uploads,   \* the uploads of clients: headers and stream
  Nesting,   \* the configuration nesting_chunked_stream
  Forbid,    \* the configuration forbid_last_chunk_crlf
  MaxRead,   \* a read of the connection returns at most so many units
  PeekSize,  \* how many units a peek of chunk_header_peek bytes waits for
  CopySize   \* the size of the buffer of io.Copy

\* The keywords of X-Amz-Content-Sha256; "hex" is a hash value.
Shas == {"hex", "UNSIGNED-PAYLOAD", "STREAMING-UNSIGNED-PAYLOAD-TRAILER",
         "STREAMING-AWS4-HMAC-SHA256-PAYLOAD",
         "STREAMING-AWS4-HMAC-SHA256-PAYLOAD-TRAILER", "unknown"}

head(n, signed) == [type |-> "head", size |-> n, signed |-> signed]
data(i) == [type |-> "data", no |-> i]
CR == [type |-> "cr"]
LF == [type |-> "lf"]
TRAILER == [type |-> "trailer"]

\* strconv.ParseInt takes a negative size of a chunk.
Unit ==
  [type : {"head"}, size : Int, signed : BOOLEAN] \cup [type : {"data"}, no : Nat]
    \cup {CR, LF, TRAILER}

\* An upload: Transfer-Encoding and Content-Encoding are the chunked ones,
\* Trailer is given, the length of Content-Length (-1 when missing), whether
\* X-Amz-Decoded-Content-Length is told as a number (ParseInt takes negative
\* ones) and that number, the payload that is meant, and the stream.
ASSUME ChunkedReaderAssumption ==
  /\ \A u \in Uploads :
       /\ u.te \in BOOLEAN /\ u.trailer \in BOOLEAN /\ u.ce \in BOOLEAN
       /\ u.sha \in Shas
       /\ u.length \in Nat \cup {-1} /\ u.told \in BOOLEAN /\ u.decoded \in Int
       /\ u.payload \in Seq(Unit) /\ u.stream \in Seq(Unit)
  /\ Nesting \in BOOLEAN /\ Forbid \in BOOLEAN
  /\ MaxRead \in Nat \ {0} /\ PeekSize \in Nat \ {0} /\ CopySize \in Nat \ {0}

VARIABLES
  up,            \* the upload
  stream,        \* what the connection still has to return
  cut,           \* the connection has broken
  buf,           \* the buffer of the bufio.Reader
  at,            \* where the goroutine is
  hunting,       \* m_hunting_header
  chunk_length,
  chunk_n,
  content_n,
  payload_n,
  held,          \* data of a Read() that has not returned yet
  out,           \* the scratch file
  trailer,       \* the trailer has replaced headers of the request
  split,         \* history: a CR was read without its LF
  result

conn == <<up, stream, cut, buf>>
counts == <<hunting, chunk_length, chunk_n, content_n, payload_n>>
vars == <<conn, at, counts, held, out, trailer, split, result>>

Init ==
  /\ up \in Uploads
  /\ stream = up.stream
  /\ cut = FALSE /\ buf = <<>> /\ at = "make"
  /\ hunting = TRUE /\ chunk_length = 0 /\ chunk_n = 0 /\ content_n = 0 /\ payload_n = 0
  /\ held = <<>> /\ out = <<>> /\ trailer = FALSE /\ split = FALSE /\ result = "none"
-----------------------------------------------------------------------------
\* check_chunked_awss3: the headers must agree.
signing(u) == u.sha \in {"STREAMING-AWS4-HMAC-SHA256-PAYLOAD",
                          "STREAMING-AWS4-HMAC-SHA256-PAYLOAD-TRAILER"}
trailing(u) == u.sha \in {"STREAMING-UNSIGNED-PAYLOAD-TRAILER",
                           "STREAMING-AWS4-HMAC-SHA256-PAYLOAD-TRAILER"}
check_chunked_awss3(u) ==
  IF u.sha = "unknown" \/ (u.ce # (signing(u) \/ trailing(u))) THEN "error"
  ELSE IF u.ce THEN "yes" ELSE "no"

\* make_chunked_reader and the checks of New_chunked_reader: aws-chunked
\* comes first, and http1-chunked is ignored then, unless it is nested.
reader(u) ==
  CASE check_chunked_awss3(u) = "error" -> "error"
    [] check_chunked_awss3(u) = "yes" ->
         IF (Nesting /\ u.te /\ u.trailer /\ trailing(u)) \/ ~ u.told
         THEN "error" ELSE "Chunked_AWSS3"
    [] OTHER -> IF u.te THEN "Chunked_HTTP1" ELSE "Chunked_NO"

signed(u) == reader(u) = "Chunked_AWSS3" /\ signing(u)
trailed(u) == IF reader(u) = "Chunked_AWSS3" THEN trailing(u) ELSE u.trailer
payload_length(u) ==
  CASE reader(u) = "Chunked_AWSS3" -> u.decoded
    [] reader(u) = "Chunked_HTTP1" -> -1
    [] OTHER -> u.length

finish(r) == result' = r /\ at' = "done"
fail(r) ==
  /\ finish(r)
  /\ UNCHANGED <<conn, counts, held, out, trailer, split>>

Make_chunked_reader ==
  /\ at = "make"
  /\ IF reader(up) = "error" THEN fail("InvalidRequest")
     ELSE /\ at' = IF reader(up) = "Chunked_NO" THEN "raw" ELSE "look"
          /\ UNCHANGED <<conn, counts, held, out, trailer, split, result>>

\* At the last chunk, two bytes more are tried when Content-Length has them.
extra_crlf == up.length = content_n + 2 /\ ~ Forbid

\* How much the buffer must have for the next step.
wants ==
  CASE at \in {"look", "header"} -> PeekSize
    [] at \in {"body", "crlf", "trailer", "blank", "raw"} -> 1
    [] at = "last" /\ extra_crlf -> 1
    [] OTHER -> 0

\* A read needs the connection.
Waiting == Len(buf) < wants

\* One read of the connection by the bufio.Reader.
Fill ==
  /\ Waiting
  /\ stream # <<>> /\ ~ cut
  /\ \E n \in 1..Min({MaxRead, Len(stream)}) :
       /\ buf' = buf \o SubSeq(stream, 1, n)
       /\ stream' = SubSeq(stream, n + 1, Len(stream))
  /\ UNCHANGED <<up, cut, at, counts, held, out, trailer, split, result>>

\* Mutant of Fill_error: the end of the stream is taken for the last chunk.
Fill_error_last ==
  /\ Waiting /\ at # "last"
  /\ cut \/ (stream = <<>> /\ buf = <<>>)
  /\ IF at = "header" THEN at' = "eof" /\ UNCHANGED result
     ELSE IF at = "raw" /\ ~ cut THEN at' = "eof" /\ UNCHANGED result
     ELSE finish(IF at = "look" THEN "InvalidRequest" ELSE "InternalError")
  /\ UNCHANGED <<conn, counts, held, out, trailer, split>>

\* Mutant of Fill_error: a peek that meets the end is tried again.
Fill_error_again ==
  /\ Waiting /\ at # "last"
  /\ cut \/ (stream = <<>> /\ buf = <<>>)
  /\ IF at = "header" THEN UNCHANGED <<at, result>>
     ELSE IF at = "raw" /\ ~ cut THEN at' = "eof" /\ UNCHANGED result
     ELSE finish(IF at = "look" THEN "InvalidRequest" ELSE "InternalError")
  /\ UNCHANGED <<conn, counts, held, out, trailer, split>>

\* The connection has no more: an error, in a chunked stream and, when the
\* connection has broken, in any.  A peek that meets an EOF, or a break that
\* is io.ErrUnexpectedEOF, goes on with what the buffer has, and with nothing
\* there is no header; on other breaks it fails.
Fill_error ==
  /\ Waiting /\ at # "last"
  /\ cut \/ (stream = <<>> /\ buf = <<>>)
  /\ IF at = "raw" /\ ~ cut THEN at' = "eof" /\ UNCHANGED result
     ELSE finish(IF at = "look" THEN "InvalidRequest" ELSE "InternalError")
  /\ UNCHANGED <<conn, counts, held, out, trailer, split>>

\* The client or the network breaks the connection.
Cut ==
  /\ ~ cut /\ stream # <<>>
  /\ cut' = TRUE
  /\ UNCHANGED <<up, stream, buf, at, counts, held, out, trailer, split, result>>
-----------------------------------------------------------------------------
\* lookat_chunk_header: the peek has all it waits for, or there is no more.
peeked == buf # <<>> /\ (Len(buf) >= PeekSize \/ stream = <<>> \/ cut)
good_header == buf[1].type = "head" /\ (signed(up) => buf[1].signed)

\* New_chunked_reader looks at the first header.
Look_at_header ==
  /\ at = "look" /\ peeked
  /\ IF good_header
     THEN /\ at' = "header"
          /\ UNCHANGED <<conn, counts, held, out, trailer, split, result>>
     ELSE fail("InvalidRequest")

\* Mutant of Read_chunk_header: the count is not reset.
Read_header_no_reset ==
  /\ at = "header" /\ peeked
  /\ IF ~ good_header THEN fail("InternalError")
     ELSE IF buf[1].size < 0 THEN fail("panic")
     ELSE /\ buf' = Tail(buf)
          /\ content_n' = content_n + 1
          /\ chunk_length' = buf[1].size
          /\ hunting' = FALSE
          /\ at' = IF buf[1].size # 0 THEN "body" ELSE IF trailed(up) THEN "trailer" ELSE "last"
          /\ UNCHANGED <<up, stream, cut, chunk_n, payload_n, held, out, trailer, split, result>>

\* Read() with m_hunting_header: read_chunk_header.  With a negative size, the
\* slice at the begin of read_chunk_body panics, and the request is over.
Read_chunk_header ==
  /\ at = "header" /\ peeked
  /\ IF ~ good_header THEN fail("InternalError")
     ELSE IF buf[1].size < 0 THEN fail("panic")
     ELSE /\ buf' = Tail(buf)
          /\ content_n' = content_n + 1
          /\ chunk_length' = buf[1].size
          /\ chunk_n' = 0
          /\ hunting' = FALSE
          /\ at' = IF buf[1].size # 0 THEN "body" ELSE IF trailed(up) THEN "trailer" ELSE "last"
          /\ UNCHANGED <<up, stream, cut, payload_n, held, out, trailer, split, result>>

\* read_chunk_header at the last chunk: an extra CR LF, or a part of it, may
\* be read, and errors are ignored.  (What is left in the buffer is not used.)
Read_last_crlf ==
  /\ at = "last"
  /\ ~ Waiting \/ stream = <<>> \/ cut
  /\ at' = "eof"
  /\ content_n' = IF extra_crlf THEN content_n + 2 ELSE content_n
  /\ UNCHANGED <<conn, hunting, chunk_length, chunk_n, payload_n, held, out, trailer, split, result>>

\* Mutant of Read_chunk_trailer: the trailer is taken for an error.
Read_trailer_bad ==
  /\ at = "trailer" /\ buf # <<>>
  /\ fail("InternalError")

\* read_chunk_trailer replaces headers of the request.  ReadMIMEHeader takes
\* an empty line as a trailer without headers, and anything else as an error.
Read_chunk_trailer ==
  /\ at = "trailer" /\ buf # <<>>
  /\ IF buf[1].type \notin {"trailer", "cr", "lf"} THEN fail("InternalError")
     ELSE /\ trailer' = (buf[1].type = "trailer")
          /\ buf' = Tail(buf)
          /\ at' = IF buf[1].type = "cr" THEN "blank" ELSE "eof"
          /\ UNCHANGED <<up, stream, cut, counts, held, out, split, result>>

\* An empty line has an LF after its CR.
Read_empty_line ==
  /\ at = "blank" /\ buf # <<>>
  /\ IF buf[1] # LF THEN fail("InternalError")
     ELSE /\ buf' = Tail(buf)
          /\ at' = "eof"
          /\ UNCHANGED <<up, stream, cut, counts, held, out, trailer, split, result>>

\* Mutant of Read_chunk_body: the end of the chunk is not minded.
Read_body_over ==
  /\ at = "body" /\ buf # <<>>
  /\ LET n == Min({CopySize, Len(buf)})
     IN /\ held' = SubSeq(buf, 1, n)
        /\ buf' = SubSeq(buf, n + 1, Len(buf))
        /\ chunk_n' = chunk_n + n
        /\ at' = IF chunk_n + n >= chunk_length THEN "crlf" ELSE "return"
  /\ UNCHANGED <<up, stream, cut, hunting, chunk_length, content_n, payload_n, out, trailer, split, result>>

\* read_chunk_body: what the buffer has, up to the end of the chunk.
Read_chunk_body ==
  /\ at = "body" /\ buf # <<>>
  /\ LET n == Min({CopySize, chunk_length - chunk_n, Len(buf)})
     IN /\ held' = SubSeq(buf, 1, n)
        /\ buf' = SubSeq(buf, n + 1, Len(buf))
        /\ chunk_n' = chunk_n + n
        /\ at' = IF chunk_n + n = chunk_length THEN "crlf" ELSE "return"
  /\ UNCHANGED <<up, stream, cut, hunting, chunk_length, content_n, payload_n, out, trailer, split, result>>

\* consume_cr_lf at the end of a chunk reads what the buffer has, without a
\* second try.
Consume_cr_lf ==
  /\ at = "crlf" /\ buf # <<>>
  /\ IF Len(buf) >= 2 /\ buf[1] = CR /\ buf[2] = LF
     THEN /\ buf' = SubSeq(buf, 3, Len(buf))
          /\ at' = "return"
          /\ hunting' = TRUE
          /\ content_n' = content_n + chunk_length + 2
          /\ payload_n' = payload_n + chunk_length
          /\ UNCHANGED <<split, result>>
     ELSE /\ split' = (split \/ buf = <<CR>>)
          /\ finish("InternalError")
          /\ UNCHANGED <<buf, hunting, content_n, payload_n>>
  /\ UNCHANGED <<up, stream, cut, chunk_length, chunk_n, held, out, trailer>>

\* Read() returns and io.Copy writes what it got, and reads again.
Read_returns ==
  /\ at = "return"
  /\ out' = out \o held
  /\ held' = <<>>
  /\ at' = IF hunting THEN "header" ELSE "body"
  /\ UNCHANGED <<conn, counts, trailer, split, result>>

\* A body that is not chunked, up to its length.
Read_raw ==
  /\ at = "raw" /\ buf # <<>>
  /\ out' = out \o (IF up.length = -1 THEN buf ELSE SubSeq(buf, 1, Min({Len(buf), up.length - Len(out)})))
  /\ buf' = <<>>
  /\ at' = IF Len(out') = up.length THEN "eof" ELSE "raw"
  /\ UNCHANGED <<up, stream, cut, counts, held, trailer, split, result>>

\* io.Copy ends, and copy_content_stream compares the length.
Copied ==
  /\ at = "eof"
  /\ finish(IF payload_length(up) # -1 /\ Len(out) # payload_length(up)
            THEN "IncompleteBody" ELSE "OK")
  /\ UNCHANGED <<conn, counts, held, out, trailer, split>>

Ended == at = "done" /\ UNCHANGED vars

Read ==
  \/ Make_chunked_reader \/ Fill_error \/ Look_at_header \/ Read_chunk_header
  \/ Read_last_crlf \/ Read_chunk_trailer \/ Read_empty_line \/ Read_chunk_body
  \/ Consume_cr_lf \/ Read_returns \/ Read_raw \/ Copied

Next == Read \/ Fill \/ Cut \/ Ended

\* The goroutine runs when it has what it needs; that the client sends more is
\* not granted.
Spec == Init /\ [][Next]_vars /\ WF_vars(Read)
-----------------------------------------------------------------------------
\* Every variable has its type, and a chunk is not read past its end
\* (bbs_assert in read_chunk_body).
TypeOK ==
  /\ up \in Uploads
  /\ stream \in Seq(Unit) /\ buf \in Seq(Unit) /\ held \in Seq(Unit) /\ out \in Seq(Unit)
  /\ cut \in BOOLEAN /\ hunting \in BOOLEAN /\ trailer \in BOOLEAN /\ split \in BOOLEAN
  /\ at \in {"make", "look", "header", "body", "crlf", "last", "trailer", "blank", "return",
             "raw", "eof", "done"}
  /\ chunk_length \in Nat /\ chunk_n \in 0..chunk_length
  /\ content_n \in Nat /\ payload_n \in Nat
  /\ result \in {"none", "OK", "InvalidRequest", "InternalError", "IncompleteBody", "panic"}

\* How many blocks of data come before unit i of a stream.
before(s, i) == Cardinality({j \in 1..(i - 1) : s[j].type = "data"})

\* The data after a header, as far as the stream goes, is the payload from
\* there.  A last chunk, or for aws-chunked the decoded length if it is not
\* negative, tells the length of the payload.  The body that is not chunked is the payload, or a
\* part of it when there is a length.
meant(u) ==
  LET s == u.stream
      p == u.payload
  IN IF u.ce \/ u.te
     THEN /\ u.ce /\ u.told /\ u.decoded >= 0 => u.decoded = Len(p)
          /\ \A i \in DOMAIN s : s[i].type = "head" =>
               /\ \A j \in 1..s[i].size : i + j <= Len(s) =>
                    /\ s[i + j].type = "data"
                    /\ before(s, i) + j <= Len(p) /\ s[i + j] = p[before(s, i) + j]
               /\ s[i].size = 0 /\ (u.ce => u.decoded < 0) => before(s, i) = Len(p)
     ELSE /\ Len(s) <= Len(p) /\ \A i \in DOMAIN s : s[i] = p[i]
          /\ IF u.length = -1 THEN Len(s) = Len(p) ELSE u.length = Len(p)

trailer_at(s, i) == i <= Len(s) /\ s[i] = TRAILER
empty_line(s, i) ==
  \/ i <= Len(s) /\ s[i] = LF
  \/ i + 1 <= Len(s) /\ s[i] = CR /\ s[i + 1] = LF

\* A unit that is a header as the reader wants it.
header_at(u, i) ==
  /\ i <= Len(u.stream)
  /\ u.stream[i].type = "head" /\ (signed(u) => u.stream[i].signed)

\* The headers of the request agree, and the stream is complete: chunk after
\* chunk, each with its CR LF, to the last one with all of the payload and,
\* where one is announced, a trailer, or an empty line for none.
complete(u) ==
  LET s == u.stream
      p == u.payload
  IN CASE reader(u) = "error" -> FALSE
       [] reader(u) = "Chunked_NO" -> Len(s) = Len(p)
       [] OTHER ->
            /\ header_at(u, 1)
            /\ payload_length(u) \in {-1, Len(p)}
            /\ \A i \in DOMAIN s : s[i].type = "head" =>
                 IF s[i].size = 0
                 THEN before(s, i) = Len(p) /\ (trailed(u) => trailer_at(s, i + 1) \/ empty_line(s, i + 1))
                 ELSE /\ s[i].size > 0
                      /\ header_at(u, i + s[i].size + 3)
                      /\ s[i + s[i].size + 1] = CR /\ s[i + s[i].size + 2] = LF

\* What comes to the scratch file is data of the payload, in order, without
\* a gap and without a header, a CR LF or a trailer, however the stream is
\* divided into reads.
OnlyPayload ==
  /\ Len(out) + Len(held) <= Len(up.payload)
  /\ out \o held = SubSeq(up.payload, 1, Len(out) + Len(held))

announced == reader(up) # "Chunked_NO" /\ trailed(up)

\* After the last chunk of a stream there is an empty line.
untrailed(u) ==
  \E i \in DOMAIN u.stream :
    u.stream[i].type = "head" /\ u.stream[i].size = 0 /\ empty_line(u.stream, i + 1)

\* An upload that is accepted is complete, although the connection may break
\* anywhere, at the end of a chunk too, and an http1-chunked stream has no
\* length.  A trailer is taken only if it is announced, and one that is
\* announced is missed only if there is an empty line in its place.
WholeWhenOK ==
  result = "OK" =>
    out = up.payload /\ (trailer => announced) /\ (announced => trailer \/ untrailed(up))

\* An upload with the right headers and a complete stream fails for one reason
\* only: a read that ends between a CR and its LF.
ErrorsExplained ==
  result \notin {"none", "OK"} => cut \/ split \/ ~ complete(up)

\* The client is silent, and has neither sent all nor broken the connection.
Stalled == Waiting /\ stream # <<>> /\ ~ cut

\* The reader hangs only on a client that does not send what it waits for,
\* for which there is no limit ("Baby-server would wait indefinitely in
\* service", design.md): otherwise the request ends.
ReadEnds == <>(at = "done") \/ <>[]Stalled
=============================================================================
