------------------------ MODULE ChunkedReaderProofs ------------------------
(***************************************************************************)
(* Proofs about the body of an upload, for any uploads whose streams mean  *)
(* their payloads, any sizes of chunks and buffers, and any division of    *)
(* the stream into reads.                                                  *)
(***************************************************************************)
EXTENDS ChunkedReader, FiniteSetTheorems, SequenceTheorems, TLAPS

\* How many units have been taken from the stream, and got for the payload.
consumed == Len(up.stream) - Len(stream) - Len(buf)
written == Len(out) + Len(held)

\* The buffer and the connection have the rest of the stream.
Flow ==
  /\ consumed \in Nat
  /\ \A i \in 1..Len(buf) : buf[i] = up.stream[consumed + i]
  /\ \A i \in 1..Len(stream) : stream[i] = up.stream[consumed + Len(buf) + i]

\* The scratch file and what is held make a prefix of the payload.
Prefix ==
  /\ written <= Len(up.payload)
  /\ \A i \in 1..Len(out) : out[i] = up.payload[i]
  /\ \A i \in 1..Len(held) : held[i] = up.payload[Len(out) + i]
  /\ at \notin {"crlf", "return", "done"} => held = <<>>
  /\ at \notin {"eof", "done"} => trailer = FALSE

Chunked == reader(up) \in {"Chunked_AWSS3", "Chunked_HTTP1"}

\* Where a header is expected, in a chunk, and at the last chunk.
Between == at \in {"look", "header"} \/ (at = "return" /\ hunting)
Within == at \in {"body", "crlf", "last", "trailer"} \/ (at = "return" /\ ~ hunting)

\* Before a header all data of the stream so far is got.
Headed ==
  /\ at \in {"make", "look"} => consumed = 0 /\ written = 0
  /\ at \in {"make", "look", "header"} => hunting
  /\ Between =>
       /\ Chunked
       /\ before(up.stream, consumed + 1) = written
       /\ complete(up) => header_at(up, consumed + 1)

\* In a chunk, with its header at h, so is what is read of the chunk.
chunk_from(h) ==
  /\ up.stream[h].type = "head" /\ up.stream[h].size = chunk_length
  /\ consumed = h + chunk_n
  /\ before(up.stream, h) + chunk_n = written

InChunk ==
  Within =>
    /\ Chunked
    /\ ~ hunting
    /\ \E h \in 1..Len(up.stream) : chunk_from(h)
    /\ at \in {"body", "return"} => chunk_n < chunk_length
    /\ at = "crlf" => chunk_n = chunk_length /\ chunk_length # 0
    /\ at \in {"last", "trailer"} => chunk_length = 0 /\ (trailed(up) <=> at = "trailer")

\* After the last chunk, a CR has come in place of the trailer.
Blank ==
  at = "blank" =>
    /\ Chunked /\ trailed(up)
    /\ payload_length(up) = -1 \/ complete(up) => Len(out) = Len(up.payload)
    /\ \E h \in 1..Len(up.stream) :
         /\ up.stream[h].type = "head" /\ up.stream[h].size = 0
         /\ consumed = h + 1 /\ up.stream[h + 1] = CR

\* A body that is not chunked goes to the scratch file.
Unchunked ==
  at = "raw" =>
    /\ reader(up) = "Chunked_NO"
    /\ Len(out) = consumed
    /\ up.length # -1 => Len(out) <= up.length

\* A trailer is one that was announced, or there is an empty line for it.
Trailed == (trailer => announced) /\ (announced => trailer \/ untrailed(up))

\* At the end all is there, if no length is given to be compared, or the
\* stream is complete.
AtEnd ==
  at = "eof" =>
    /\ reader(up) # "error"
    /\ Trailed
    /\ payload_length(up) = -1 \/ complete(up) => Len(out) = Len(up.payload)

Ending ==
  /\ at = "done" <=> result # "none"
  /\ result = "OK" => Len(out) = Len(up.payload) /\ Trailed
  /\ ErrorsExplained

ReaderInv ==
  TypeOK /\ Flow /\ Prefix /\ Headed /\ InChunk /\ Blank /\ Unchunked /\ AtEnd /\ Ending

\* The streams mean their payloads.
Meant == \A u \in Uploads : meant(u)
-----------------------------------------------------------------------------
LEMMA MinTwo ==
  ASSUME NEW a \in Int, NEW b \in Int
  PROVE  Min({a, b}) \in {a, b} /\ Min({a, b}) <= a /\ Min({a, b}) <= b
<1>1. \E x \in {a, b} : \A y \in {a, b} : x <= y
  OBVIOUS
<1> QED BY <1>1 DEF Min

LEMMA MinThree ==
  ASSUME NEW a \in Int, NEW b \in Int, NEW c \in Int
  PROVE  /\ Min({a, b, c}) \in {a, b, c}
         /\ Min({a, b, c}) <= a /\ Min({a, b, c}) <= b /\ Min({a, b, c}) <= c
<1>1. \E x \in {a, b, c} : \A y \in {a, b, c} : x <= y
  OBVIOUS
<1> QED BY <1>1 DEF Min

LEMMA UnitHead ==
  ASSUME NEW x \in Unit, x.type = "head" PROVE x.size \in Int /\ x.signed \in BOOLEAN
BY DEF Unit, CR, LF, TRAILER

LEMMA ReaderKinds ==
  ASSUME NEW u \in Uploads
  PROVE  /\ reader(u) \in {"error", "Chunked_AWSS3", "Chunked_HTTP1", "Chunked_NO"}
         /\ reader(u) = "Chunked_AWSS3" => u.ce /\ u.told
         /\ reader(u) = "Chunked_HTTP1" => u.te /\ ~ u.ce
         /\ reader(u) = "Chunked_NO" => ~ u.te /\ ~ u.ce
BY ChunkedReaderAssumption DEF reader, check_chunked_awss3, signing, trailing

\* A length to be compared is that of the payload, or none.
LEMMA LengthMeant ==
  ASSUME Meant, NEW u \in Uploads, payload_length(u) # -1, reader(u) # "error"
  PROVE  payload_length(u) = Len(u.payload) \/ payload_length(u) < 0
<1>1. meant(u)
  BY DEF Meant
<1>2. CASE reader(u) = "Chunked_AWSS3"
  <2>1. u.ce /\ u.told /\ u.decoded \in Int /\ payload_length(u) = u.decoded
    BY <1>2, ReaderKinds, ChunkedReaderAssumption DEF payload_length
  <2> QED BY <1>1, <2>1 DEF meant
<1>3. CASE reader(u) = "Chunked_NO"
  <2>1. ~ u.ce /\ ~ u.te /\ payload_length(u) = u.length
    BY <1>3, ReaderKinds DEF payload_length
  <2> QED BY <1>1, <2>1 DEF meant
<1>4. CASE reader(u) = "Chunked_HTTP1"
  BY <1>4 DEF payload_length
<1> QED BY <1>2, <1>3, <1>4, ReaderKinds

LEMMA BeforeFirst == \A s : before(s, 1) = 0
<1> SUFFICES ASSUME NEW s PROVE before(s, 1) = 0
  OBVIOUS
<1>1. {j \in 1..(1 - 1) : s[j].type = "data"} = {}
  OBVIOUS
<1> QED BY <1>1, FS_EmptySet DEF before

LEMMA BeforeType == ASSUME NEW s, NEW i \in Nat PROVE before(s, i) \in Nat
<1>1. IsFiniteSet(1..(i - 1))
  BY FS_Interval
<1>2. IsFiniteSet({j \in 1..(i - 1) : s[j].type = "data"})
  BY <1>1, FS_Subset
<1> QED BY <1>2, FS_CardinalityType DEF before

\* A chunk of n blocks has n blocks of data, and its header and its CR LF none.
LEMMA BeforeChunk ==
  ASSUME NEW s, NEW h \in Nat \ {0}, NEW n \in Nat, s[h].type = "head",
         \A j \in 1..n : s[h + j].type = "data", s[h + n + 1] = CR, s[h + n + 2] = LF
  PROVE  before(s, h + n + 3) = before(s, h) + n
<1> DEFINE A == {j \in 1..(h - 1) : s[j].type = "data"}
           B == (h + 1)..(h + n)
           C == {j \in 1..((h + n + 3) - 1) : s[j].type = "data"}
<1>1. s[h].type # "data" /\ s[h + n + 1].type # "data" /\ s[h + n + 2].type # "data"
  BY DEF CR, LF
<1>2. \A j \in B : s[j].type = "data"
  <2> TAKE j \in B
  <2>1. j - h \in 1..n /\ j = h + (j - h)
    OBVIOUS
  <2> QED BY <2>1
<1>3. C = A \cup B
  <2>1. ASSUME NEW j \in C PROVE j \in A \cup B
    <3>1. j \in 1..(h - 1) \/ j = h \/ j \in B \/ j = h + n + 1 \/ j = h + n + 2
      BY <2>1
    <3> QED BY <1>1, <2>1, <3>1
  <2>2. ASSUME NEW j \in A \cup B PROVE j \in C
    BY <1>2, <2>2
  <2> QED BY <2>1, <2>2
<1>4. IsFiniteSet(A) /\ IsFiniteSet(B) /\ Cardinality(B) = n
  <2>1. IsFiniteSet(1..(h - 1))
    BY FS_Interval
  <2>2. IsFiniteSet(A)
    BY <2>1, FS_Subset
  <2>3. IsFiniteSet(B) /\ Cardinality(B) = n
    <3> DEFINE a == h + 1
               b == h + n
    <3>1. a \in Int /\ b \in Int /\ n = IF a > b THEN 0 ELSE b - a + 1
      OBVIOUS
    <3> HIDE DEF a, b
    <3>2. IsFiniteSet(a..b) /\ Cardinality(a..b) = n
      BY <3>1, FS_Interval
    <3> QED BY <3>2 DEF a, b
  <2> QED BY <2>2, <2>3
<1>5. A \cap B = {}
  OBVIOUS
<1>6. Cardinality(C) = Cardinality(A) + Cardinality(B) - Cardinality(A \cap B)
  BY <1>3, <1>4, FS_Union
<1>7. Cardinality(A) \in Nat
  BY <1>4, FS_CardinalityType
<1>8. before(s, h) = Cardinality(A) /\ before(s, h + n + 3) = Cardinality(C)
  BY DEF before
<1>9. Cardinality(A \cap B) = 0
  BY <1>5, FS_EmptySet
<1> HIDE DEF A, B, C
<1> QED BY <1>4, <1>6, <1>7, <1>8, <1>9
-----------------------------------------------------------------------------
Errors == {"InvalidRequest", "InternalError", "IncompleteBody", "panic"}

LEMMA UploadType ==
  ASSUME NEW u \in Uploads
  PROVE  /\ u.payload \in Seq(Unit) /\ u.stream \in Seq(Unit)
         /\ Len(u.payload) \in Nat /\ Len(u.stream) \in Nat
         /\ u.length \in Nat \cup {-1}
<1>1. u.payload \in Seq(Unit) /\ u.stream \in Seq(Unit) /\ u.length \in Nat \cup {-1}
  BY ChunkedReaderAssumption
<1> QED BY <1>1, LenProperties

LEMMA ReaderInit == Init => ReaderInv
<1> SUFFICES ASSUME Init PROVE ReaderInv
  OBVIOUS
<1>1. up \in Uploads /\ stream = up.stream /\ buf = <<>> /\ held = <<>> /\ out = <<>>
  BY DEF Init
<1>2. up.stream \in Seq(Unit) /\ Len(up.stream) \in Nat /\ Len(up.payload) \in Nat
  BY <1>1, UploadType
<1> DEFINE none == <<>>
<1>0. none \in Seq(Unit) /\ Len(none) = 0
  BY EmptySeq
<1> HIDE DEF none
<1>3. consumed = 0 /\ written = 0
  <2>1. buf = none /\ held = none /\ out = none /\ stream = up.stream
    BY <1>1 DEF none
  <2>2. Len(stream) = Len(up.stream) /\ Len(buf) = 0 /\ Len(held) = 0 /\ Len(out) = 0
    BY <1>0, <2>1, Zenon
  <2> QED BY <1>2, <2>2 DEF consumed, written
<1>4. TypeOK
  <2>1. stream \in Seq(Unit) /\ buf \in Seq(Unit) /\ held \in Seq(Unit) /\ out \in Seq(Unit)
    BY <1>0, <1>1, <1>2, Zenon DEF none
  <2>2. /\ up \in Uploads /\ at = "make" /\ result = "none" /\ chunk_length = 0
        /\ chunk_n = 0 /\ content_n = 0 /\ payload_n = 0
    BY Zenon DEF Init
  <2>3. chunk_length \in Nat /\ chunk_n \in 0..chunk_length /\ content_n \in Nat /\ payload_n \in Nat
    BY <2>2
  <2>4. cut \in BOOLEAN /\ hunting \in BOOLEAN /\ trailer \in BOOLEAN /\ split \in BOOLEAN
    BY Zenon DEF Init
  <2> QED BY <2>1, <2>2, <2>3, <2>4, Zenon DEF TypeOK
<1>5. Flow
  BY <1>1, <1>2, <1>3 DEF Flow
<1>6. Prefix
  BY <1>1, <1>2, <1>3 DEF Prefix, Init
<1>7. Headed /\ InChunk /\ Blank /\ Unchunked /\ AtEnd /\ Ending
  BY <1>3 DEF Init, Headed, Between, InChunk, Within, Blank, Unchunked, AtEnd, Ending, ErrorsExplained, Trailed, announced
<1> QED BY <1>4, <1>5, <1>6, <1>7 DEF ReaderInv

\* A step that takes nothing from the stream.
LEMMA FlowSame ==
  ASSUME Flow, UNCHANGED <<up, stream, buf>> PROVE Flow' /\ consumed' = consumed
BY DEF Flow, consumed

\* The reader ends with an error, for a reason.
LEMMA Failing ==
  ASSUME ReaderInv, NEW r \in Errors, finish(r), cut \/ split' \/ ~ complete(up),
         UNCHANGED <<conn, counts, held, out, trailer>>, split' \in BOOLEAN
  PROVE  ReaderInv'
<1>1. at' = "done" /\ result' = r
      /\ UNCHANGED <<up, stream, cut, buf, hunting, chunk_length, chunk_n, content_n, payload_n>>
  BY DEF finish, conn, counts
<1>2. TypeOK'
  BY <1>1 DEF ReaderInv, TypeOK, Errors
<1>3. Flow'
  BY <1>1, FlowSame DEF ReaderInv
<1>4. Prefix'
  BY <1>1 DEF ReaderInv, Prefix, written
<1>5. Headed' /\ InChunk' /\ Blank' /\ Unchunked' /\ AtEnd' /\ Ending'
  BY <1>1 DEF Headed, Between, InChunk, Within, Blank, Unchunked, AtEnd, Ending, ErrorsExplained, Trailed, announced, Errors
<1> QED BY <1>2, <1>3, <1>4, <1>5 DEF ReaderInv

LEMMA MakeInv == ASSUME ReaderInv, Make_chunked_reader PROVE ReaderInv'
<1>1. CASE reader(up) = "error"
  <2>1. ~ complete(up)
    BY <1>1 DEF complete
  <2>2. finish("InvalidRequest") /\ UNCHANGED <<conn, counts, held, out, trailer, split>>
    BY <1>1 DEF Make_chunked_reader, fail
  <2> QED BY <2>1, <2>2, Failing DEF Errors, ReaderInv, TypeOK
<1>2. CASE reader(up) # "error"
  <2>1. /\ at = "make" /\ at' = IF reader(up) = "Chunked_NO" THEN "raw" ELSE "look"
        /\ UNCHANGED <<up, stream, cut, buf, hunting, chunk_length, chunk_n, content_n,
                       payload_n, held, out, trailer, split, result>>
    BY <1>2 DEF Make_chunked_reader, conn, counts
  <2>2. up \in Uploads /\ consumed = 0 /\ written = 0 /\ Len(out) = 0 /\ hunting
    <3>1. up \in Uploads /\ consumed = 0 /\ written = 0 /\ out \in Seq(Unit) /\ held \in Seq(Unit)
          /\ hunting
      BY <2>1 DEF ReaderInv, TypeOK, Headed
    <3> QED BY <3>1 DEF written
  <2>3. TypeOK'
    BY <2>1 DEF ReaderInv, TypeOK
  <2>4. Flow' /\ consumed' = 0 /\ written' = 0
    BY <2>1, <2>2, FlowSame DEF ReaderInv, written
  <2>5. Prefix'
    BY <2>1 DEF ReaderInv, Prefix, written
  <2>6. Headed'
    <3>1. complete(up) /\ at' = "look" => header_at(up, 1)
      BY <1>2, <2>1 DEF complete
    <3>2. at' = "look" => Chunked
      BY <1>2, <2>1, <2>2, ReaderKinds DEF Chunked
    <3> QED BY <2>1, <2>2, <2>4, <3>1, <3>2, BeforeFirst DEF Headed, Between, Chunked
  <2>7. Unchunked'
    <3>1. up.length \in Nat \cup {-1}
      BY <2>2, UploadType
    <3> QED BY <2>1, <2>2, <2>4, <3>1 DEF Unchunked
  <2>8. InChunk' /\ Blank' /\ AtEnd' /\ Ending'
    BY <2>1 DEF InChunk, Within, Blank, AtEnd, Ending, ReaderInv, ErrorsExplained
  <2> QED BY <2>3, <2>4, <2>5, <2>6, <2>7, <2>8 DEF ReaderInv
<1> QED BY <1>1, <1>2

LEMMA FillInv == ASSUME ReaderInv, Fill PROVE ReaderInv'
<1>1. PICK n \in 1..Min({MaxRead, Len(stream)}) :
        /\ buf' = buf \o SubSeq(stream, 1, n)
        /\ stream' = SubSeq(stream, n + 1, Len(stream))
  BY DEF Fill
<1>2. /\ UNCHANGED <<up, cut, at, hunting, chunk_length, chunk_n, content_n, payload_n,
                     held, out, trailer, split, result>>
  BY DEF Fill, counts
<1>3. /\ up \in Uploads /\ stream \in Seq(Unit) /\ Len(stream) \in Nat /\ Len(up.stream) \in Nat
      /\ buf \in Seq(Unit) /\ Len(buf) \in Nat
  BY UploadType, LenProperties DEF ReaderInv, TypeOK
<1>4. n \in 1..Len(stream)
  <2>1. MaxRead \in Int
    BY ChunkedReaderAssumption
  <2> DEFINE l == Len(stream)
             m == Min({MaxRead, l})
  <2>2. l \in Int
    BY <1>3
  <2>3. m \in {MaxRead, l} /\ m <= l
    <3> HIDE DEF l
    <3> QED BY <2>1, <2>2, MinTwo
  <2>4. n \in 1..m
    BY <1>1
  <2> HIDE DEF m
  <2> QED BY <1>3, <2>1, <2>3, <2>4
<1>5. /\ buf' \in Seq(Unit) /\ Len(buf') = Len(buf) + n
      /\ \A i \in 1..Len(buf') : buf'[i] = IF i <= Len(buf) THEN buf[i] ELSE stream[i - Len(buf)]
  <2> DEFINE t == SubSeq(stream, 1, n)
  <2>1. t \in Seq(Unit) /\ Len(t) = n /\ \A i \in 1..n : t[i] = stream[i]
    BY <1>3, <1>4
  <2>2. buf' = buf \o t
    BY <1>1
  <2> HIDE DEF t
  <2>3. /\ buf' \in Seq(Unit) /\ Len(buf') = Len(buf) + n
        /\ \A i \in 1..(Len(buf) + n) : buf'[i] = IF i <= Len(buf) THEN buf[i] ELSE t[i - Len(buf)]
    <3>1. /\ buf \o t \in Seq(Unit) /\ Len(buf \o t) = Len(buf) + Len(t)
          /\ \A i \in 1..(Len(buf) + Len(t)) :
               (buf \o t)[i] = IF i <= Len(buf) THEN buf[i] ELSE t[i - Len(buf)]
      BY <1>3, <2>1, ConcatProperties
    <3>2. Len(t) = n
      BY <2>1
    <3> QED BY <2>2, <3>1, <3>2, Zenon
  <2>4. \A i \in 1..(Len(buf) + n) : ~ (i <= Len(buf)) => i - Len(buf) \in 1..n
    BY <1>3, <1>4
  <2> QED BY <2>1, <2>3, <2>4
<1>6. /\ stream' \in Seq(Unit) /\ Len(stream') = Len(stream) - n
      /\ \A i \in 1..Len(stream') : stream'[i] = stream[n + i]
  BY <1>1, <1>3, <1>4
<1>7. consumed' = consumed
  BY <1>2, <1>3, <1>4, <1>5, <1>6 DEF consumed
<1>8. Flow'
  <2> DEFINE b == Len(buf)
             c == consumed
  <2>1. \A i \in 1..Len(stream) : stream[i] = up.stream[c + b + i]
    BY DEF ReaderInv, Flow
  <2>2. c \in Nat /\ b \in Nat
    BY <1>3 DEF ReaderInv, Flow
  <2>3. (\A i \in 1..Len(buf) : buf[i] = up.stream[consumed + i])'
    <3> SUFFICES ASSUME NEW i \in 1..Len(buf') PROVE buf'[i] = up.stream[c + i]
      BY <1>2, <1>7
    <3>1. CASE i <= b
      <4>1. i \in 1..b /\ buf'[i] = buf[i]
        BY <1>5, <2>2, <3>1
      <4> QED BY <4>1 DEF ReaderInv, Flow
    <3>2. CASE ~ (i <= b)
      <4> DEFINE j == i - b
      <4>1. j \in 1..Len(stream) /\ c + b + j = c + i
        BY <1>3, <1>4, <1>5, <2>2, <3>2
      <4>2. buf'[i] = stream[j]
        BY <1>5, <3>2
      <4> HIDE DEF j, b, c
      <4> QED BY <2>1, <4>1, <4>2
    <3> QED BY <3>1, <3>2
  <2>4. (\A i \in 1..Len(stream) : stream[i] = up.stream[consumed + Len(buf) + i])'
    <3> SUFFICES ASSUME NEW i \in 1..Len(stream')
                 PROVE  stream'[i] = up.stream[c + (b + n) + i]
      BY <1>2, <1>5, <1>7
    <3>1. n + i \in 1..Len(stream)
      BY <1>3, <1>4, <1>6
    <3>2. c + b + (n + i) = c + (b + n) + i
      <4> HIDE DEF b, c
      <4> QED BY <1>4, <1>6, <2>2
    <3> QED BY <1>6, <2>1, <3>1, <3>2
  <2> QED BY <1>7, <2>2, <2>3, <2>4 DEF Flow
<1>9. TypeOK'
  BY <1>2, <1>5, <1>6 DEF ReaderInv, TypeOK
<1>10. Prefix' /\ Headed' /\ InChunk' /\ Blank' /\ Unchunked' /\ AtEnd' /\ Ending'
  BY <1>2, <1>7 DEF ReaderInv, Prefix, written, Headed, Between, Chunked, InChunk, Within, chunk_from,
                    Blank, Unchunked, AtEnd, Ending, ErrorsExplained, Trailed, announced
<1> QED BY <1>8, <1>9, <1>10 DEF ReaderInv

LEMMA CutInv == ASSUME ReaderInv, Cut \/ UNCHANGED vars PROVE ReaderInv'
<1>1. /\ UNCHANGED <<up, stream, buf, at, hunting, chunk_length, chunk_n, content_n, payload_n,
                     held, out, trailer, split, result>>
      /\ cut' = TRUE \/ cut' = cut
  BY DEF Cut, vars, conn, counts
<1>2. Flow' /\ consumed' = consumed
  BY <1>1, FlowSame DEF ReaderInv
<1>3. TypeOK'
  BY <1>1 DEF ReaderInv, TypeOK
<1>4. Prefix' /\ Headed' /\ InChunk' /\ Blank' /\ Unchunked' /\ AtEnd' /\ Ending'
  BY <1>1, <1>2 DEF ReaderInv, Prefix, written, Headed, Between, Chunked, InChunk, Within,
                    chunk_from, Blank, Unchunked, AtEnd, Ending, ErrorsExplained, Trailed, announced
<1> QED BY <1>2, <1>3, <1>4 DEF ReaderInv

\* What is known of the chunk of a header.
LEMMA CompleteChunk ==
  ASSUME NEW u \in Uploads, complete(u), reader(u) \in {"Chunked_AWSS3", "Chunked_HTTP1"},
         NEW h \in 1..Len(u.stream), u.stream[h].type = "head"
  PROVE  IF u.stream[h].size = 0
         THEN /\ before(u.stream, h) = Len(u.payload)
              /\ trailed(u) => trailer_at(u.stream, h + 1) \/ empty_line(u.stream, h + 1)
         ELSE /\ u.stream[h].size > 0
              /\ header_at(u, h + u.stream[h].size + 3)
              /\ u.stream[h + u.stream[h].size + 1] = CR
              /\ u.stream[h + u.stream[h].size + 2] = LF
<1>1. h \in DOMAIN u.stream
  BY UploadType, LenProperties
<1>2. \A i \in DOMAIN u.stream : u.stream[i].type = "head" =>
        IF u.stream[i].size = 0
        THEN /\ before(u.stream, i) = Len(u.payload)
             /\ trailed(u) => trailer_at(u.stream, i + 1) \/ empty_line(u.stream, i + 1)
        ELSE /\ u.stream[i].size > 0
             /\ header_at(u, i + u.stream[i].size + 3)
             /\ u.stream[i + u.stream[i].size + 1] = CR
             /\ u.stream[i + u.stream[i].size + 2] = LF
  BY DEF complete
<1> QED BY <1>1, <1>2, Zenon

LEMMA MeantChunk ==
  ASSUME Meant, NEW u \in Uploads, reader(u) \in {"Chunked_AWSS3", "Chunked_HTTP1"},
         NEW h \in 1..Len(u.stream), u.stream[h].type = "head"
  PROVE  /\ \A j \in 1..u.stream[h].size : h + j <= Len(u.stream) =>
              /\ u.stream[h + j].type = "data"
              /\ before(u.stream, h) + j <= Len(u.payload)
              /\ u.stream[h + j] = u.payload[before(u.stream, h) + j]
         /\ u.stream[h].size = 0 /\ payload_length(u) = -1 =>
              before(u.stream, h) = Len(u.payload)
<1>1. h \in DOMAIN u.stream
  BY UploadType, LenProperties
<1>2. u.ce \/ u.te
  BY ReaderKinds
<1>3. \A i \in DOMAIN u.stream : u.stream[i].type = "head" =>
        /\ \A j \in 1..u.stream[i].size : i + j <= Len(u.stream) =>
             /\ u.stream[i + j].type = "data"
             /\ before(u.stream, i) + j <= Len(u.payload)
             /\ u.stream[i + j] = u.payload[before(u.stream, i) + j]
        /\ u.stream[i].size = 0 /\ (u.ce => u.decoded < 0) =>
             before(u.stream, i) = Len(u.payload)
  BY <1>2, Zenon DEF Meant, meant
<1>4. payload_length(u) = -1 => (u.ce => u.decoded < 0)
  BY ReaderKinds DEF payload_length
<1> QED BY <1>1, <1>3, <1>4, Zenon

LEMMA Lengths ==
  ASSUME ReaderInv
  PROVE  /\ up \in Uploads /\ up.stream \in Seq(Unit)
         /\ Len(up.stream) \in Nat /\ Len(up.payload) \in Nat
         /\ Len(stream) \in Nat /\ Len(buf) \in Nat /\ Len(out) \in Nat /\ Len(held) \in Nat
         /\ consumed \in Nat /\ chunk_length \in Nat /\ chunk_n \in 0..chunk_length
<1>1. /\ up \in Uploads
      /\ stream \in Seq(Unit) /\ buf \in Seq(Unit) /\ out \in Seq(Unit) /\ held \in Seq(Unit)
      /\ consumed \in Nat /\ chunk_length \in Nat /\ chunk_n \in 0..chunk_length
  BY DEF ReaderInv, TypeOK, Flow
<1> QED BY <1>1, UploadType, LenProperties

\* At the end of a stream that is complete the reader does not wait for more.
LEMMA FillErrorInv == ASSUME Meant, ReaderInv, Fill_error PROVE ReaderInv'
<1>1. Waiting /\ at # "last" /\ (cut \/ (stream = <<>> /\ buf = <<>>))
      /\ UNCHANGED <<conn, counts, held, out, trailer, split>>
  BY DEF Fill_error
<1>2. at \in {"look", "header", "body", "crlf", "trailer", "blank", "raw"}
  <2>1. Len(buf) \in Nat
    BY Lengths
  <2> QED BY <1>1, <2>1 DEF Waiting, wants
<1>3. ASSUME ~ cut PROVE consumed = Len(up.stream)
  <2>1. Len(stream) = 0 /\ Len(buf) = 0
    BY <1>1, <1>3, EmptySeq
  <2> QED BY <2>1, Lengths DEF consumed
<1>4. CASE at = "raw" /\ ~ cut
  <2>1. /\ at' = "eof"
        /\ UNCHANGED <<up, stream, cut, buf, hunting, chunk_length, chunk_n, content_n, payload_n,
                       held, out, trailer, split, result>>
    BY <1>1, <1>4 DEF Fill_error, conn, counts
  <2>2. reader(up) = "Chunked_NO" /\ Len(out) = Len(up.stream) /\ trailer = FALSE
    BY <1>1, <1>3, <1>4 DEF ReaderInv, Unchunked, Prefix
  <2>3. payload_length(up) = -1 \/ complete(up) => Len(out) = Len(up.payload)
    <3>1. ~ up.te /\ ~ up.ce /\ meant(up)
      BY <2>2, Lengths, ReaderKinds DEF Meant
    <3>2. payload_length(up) = up.length
      BY <2>2 DEF payload_length
    <3>3. up.length = -1 => Len(up.stream) = Len(up.payload)
      BY <3>1 DEF meant
    <3>4. complete(up) => Len(up.stream) = Len(up.payload)
      BY <2>2 DEF complete
    <3> QED BY <2>2, <3>2, <3>3, <3>4
  <2>4. AtEnd'
    BY <2>1, <2>2, <2>3 DEF AtEnd, Trailed, announced
  <2>5. TypeOK'
    BY <2>1 DEF ReaderInv, TypeOK
  <2>6. Flow'
    BY <2>1, FlowSame DEF ReaderInv
  <2>7. Prefix'
    BY <1>4, <2>1 DEF ReaderInv, Prefix, written
  <2>8. Headed' /\ InChunk' /\ Blank' /\ Unchunked' /\ Ending'
    BY <1>4, <2>1 DEF ReaderInv, Headed, Between, InChunk, Within, Blank, Unchunked, Ending, ErrorsExplained, Trailed, announced
  <2> QED BY <2>4, <2>5, <2>6, <2>7, <2>8 DEF ReaderInv
<1>5. CASE ~ (at = "raw" /\ ~ cut)
  <2>1. \E r \in Errors : finish(r)
    BY <1>5 DEF Fill_error, Errors
  <2>2. cut \/ ~ complete(up)
    <3> SUFFICES ASSUME ~ cut, complete(up) PROVE FALSE
      OBVIOUS
    <3>1. consumed = Len(up.stream)
      BY <1>1, <1>3
    <3>2. CASE at \in {"look", "header"}
      <4>1. header_at(up, consumed + 1)
        BY <3>2 DEF ReaderInv, Headed, Between
      <4> QED BY <3>1, <4>1, Lengths DEF header_at
    <3>3. CASE at \in {"body", "crlf", "trailer"}
      <4>1. PICK h \in 1..Len(up.stream) : chunk_from(h)
        BY <3>3 DEF ReaderInv, InChunk, Within
      <4>2. Chunked /\ up.stream[h].type = "head" /\ up.stream[h].size = chunk_length
            /\ consumed = h + chunk_n
        BY <3>3, <4>1 DEF ReaderInv, InChunk, Within, chunk_from
      <4>3. CASE chunk_length = 0
        <5>1. trailed(up)
          BY <3>3, <4>3, Lengths DEF ReaderInv, InChunk, Within
        <5>2. h < Len(up.stream)
          BY <4>2, <4>3, <5>1, Lengths, CompleteChunk DEF Chunked, trailer_at, empty_line
        <5> QED BY <3>1, <4>2, <4>3, <5>2, Lengths
      <4>4. CASE chunk_length # 0
        <5>1. header_at(up, h + chunk_length + 3)
          BY <4>2, <4>4, Lengths, CompleteChunk DEF Chunked
        <5> QED BY <3>1, <4>2, <5>1, Lengths DEF header_at
      <4> QED BY <4>3, <4>4
    <3>4. CASE at = "blank"
      <4>1. PICK h \in 1..Len(up.stream) :
              /\ up.stream[h].type = "head" /\ up.stream[h].size = 0
              /\ consumed = h + 1 /\ up.stream[h + 1] = CR
        BY <3>4 DEF ReaderInv, Blank
      <4>2. trailer_at(up.stream, h + 1) \/ empty_line(up.stream, h + 1)
        BY <3>4, <4>1, CompleteChunk, Lengths DEF ReaderInv, Blank, Chunked
      <4>3. h + 1 + 1 <= Len(up.stream)
        BY <4>1, <4>2 DEF trailer_at, empty_line, CR, LF, TRAILER
      <4> QED BY <3>1, <4>1, <4>3, Lengths
    <3> QED BY <1>2, <1>5, <3>2, <3>3, <3>4
  <2> QED BY <1>1, <2>1, <2>2, Failing DEF ReaderInv, TypeOK
<1> QED BY <1>4, <1>5

LEMMA LookInv == ASSUME ReaderInv, Look_at_header PROVE ReaderInv'
<1>1. at = "look" /\ buf # <<>>
  BY DEF Look_at_header, peeked
<1>2. Len(buf) >= 1 /\ buf[1] = up.stream[consumed + 1] /\ consumed + 1 <= Len(up.stream)
  <2>1. Len(buf) >= 1
    BY <1>1, EmptySeq, Lengths DEF ReaderInv, TypeOK
  <2> QED BY <2>1, Lengths DEF ReaderInv, Flow, consumed
<1>3. CASE ~ good_header
  <2>1. ~ complete(up)
    BY <1>1, <1>2, <1>3 DEF good_header, header_at, ReaderInv, Headed, Between
  <2>2. finish("InvalidRequest") /\ UNCHANGED <<conn, counts, held, out, trailer, split>>
    BY <1>3 DEF Look_at_header, fail
  <2> QED BY <2>1, <2>2, Failing DEF Errors, ReaderInv, TypeOK
<1>4. CASE good_header
  <2>1. /\ at' = "header"
        /\ UNCHANGED <<up, stream, cut, buf, hunting, chunk_length, chunk_n, content_n, payload_n,
                       held, out, trailer, split, result>>
    BY <1>4 DEF Look_at_header, conn, counts
  <2>2. TypeOK'
    BY <2>1 DEF ReaderInv, TypeOK
  <2>3. Flow' /\ consumed' = consumed
    BY <2>1, FlowSame DEF ReaderInv
  <2>4. Prefix'
    BY <1>1, <2>1 DEF ReaderInv, Prefix, written
  <2>5. Headed'
    BY <1>1, <2>1, <2>3 DEF ReaderInv, Headed, Between, Chunked, written
  <2>6. InChunk' /\ Blank' /\ Unchunked' /\ AtEnd' /\ Ending'
    BY <1>1, <2>1 DEF ReaderInv, InChunk, Within, Blank, Unchunked, AtEnd, Ending, ErrorsExplained, Trailed, announced
  <2> QED BY <2>2, <2>3, <2>4, <2>5, <2>6 DEF ReaderInv
<1> QED BY <1>3, <1>4
-----------------------------------------------------------------------------
LEMMA Front ==
  ASSUME ReaderInv, buf # <<>>
  PROVE  /\ Len(buf) >= 1 /\ consumed + Len(buf) <= Len(up.stream)
         /\ \A i \in 1..Len(buf) : buf[i] = up.stream[consumed + i] /\ buf[i] \in Unit
<1>1. Len(buf) >= 1
  BY EmptySeq, Lengths DEF ReaderInv, TypeOK
<1>2. \A i \in 1..Len(buf) : buf[i] \in Unit
  BY ElementOfSeq DEF ReaderInv, TypeOK
<1> QED BY <1>1, <1>2, Lengths DEF ReaderInv, Flow, consumed

\* What is left of a sequence after its first k elements.
LEMMA Rest ==
  ASSUME NEW s \in Seq(Unit), NEW k \in Nat, k <= Len(s)
  PROVE  /\ SubSeq(s, k + 1, Len(s)) \in Seq(Unit)
         /\ Len(SubSeq(s, k + 1, Len(s))) = Len(s) - k
         /\ \A i \in 1..(Len(s) - k) : SubSeq(s, k + 1, Len(s))[i] = s[k + i]
OBVIOUS

\* A step that takes k units from the buffer.
LEMMA Taken ==
  ASSUME ReaderInv, NEW k \in 0..Len(buf), Len(buf') = Len(buf) - k,
         \A i \in 1..Len(buf') : buf'[i] = buf[k + i], UNCHANGED <<up, stream>>
  PROVE  Flow' /\ consumed' = consumed + k
<1>1. consumed' = consumed + k
  BY Lengths DEF consumed
<1>2. (\A i \in 1..Len(buf) : buf[i] = up.stream[consumed + i])'
  <2> SUFFICES ASSUME NEW i \in 1..Len(buf') PROVE buf'[i] = up.stream[consumed + k + i]
    BY <1>1
  <2>1. k + i \in 1..Len(buf) /\ consumed + (k + i) = consumed + k + i
    BY Lengths
  <2>2. buf[k + i] = up.stream[consumed + (k + i)]
    BY <2>1 DEF ReaderInv, Flow
  <2> QED BY <2>1, <2>2
<1>3. (\A i \in 1..Len(stream) : stream[i] = up.stream[consumed + Len(buf) + i])'
  <2> SUFFICES ASSUME NEW i \in 1..Len(stream)
               PROVE  stream[i] = up.stream[(consumed + k) + (Len(buf) - k) + i]
    BY <1>1
  <2>1. (consumed + k) + (Len(buf) - k) + i = consumed + Len(buf) + i
    BY Lengths
  <2> QED BY <2>1 DEF ReaderInv, Flow
<1>4. consumed' \in Nat
  BY <1>1, Lengths
<1> QED BY <1>1, <1>2, <1>3, <1>4, Zenon DEF Flow

LEMMA TailTaken ==
  ASSUME ReaderInv, buf # <<>>, buf' = Tail(buf), UNCHANGED <<up, stream>>
  PROVE  Flow' /\ consumed' = consumed + 1 /\ buf' \in Seq(Unit)
<1>1. buf \in Seq(Unit)
  BY DEF ReaderInv, TypeOK
<1>2. /\ buf' \in Seq(Unit) /\ Len(buf') = Len(buf) - 1
      /\ \A i \in 1..Len(buf') : buf'[i] = buf[i + 1]
  BY <1>1, HeadTailProperties
<1>3. 1 \in 0..Len(buf)
  BY Front, Lengths
<1>4. \A i \in 1..Len(buf') : buf'[i] = buf[1 + i]
  BY <1>2
<1> QED BY <1>2, <1>3, <1>4, Taken

LEMMA HeaderInv == ASSUME ReaderInv, Read_chunk_header PROVE ReaderInv'
<1>1. at = "header" /\ buf # <<>>
  BY DEF Read_chunk_header, peeked
<1>2. /\ Len(buf) >= 1 /\ consumed + 1 <= Len(up.stream)
      /\ buf[1] = up.stream[consumed + 1] /\ buf[1] \in Unit
  BY <1>1, Front, Lengths
<1>3. CASE ~ good_header
  <2>1. ~ complete(up)
    BY <1>1, <1>2, <1>3 DEF good_header, header_at, ReaderInv, Headed, Between
  <2>2. finish("InternalError") /\ UNCHANGED <<conn, counts, held, out, trailer, split>>
    BY <1>3 DEF Read_chunk_header, fail
  <2> QED BY <2>1, <2>2, Failing DEF Errors, ReaderInv, TypeOK
<1>5. CASE good_header /\ buf[1].size < 0
  <2>1. ~ complete(up)
    <3>1. Chunked /\ consumed + 1 \in 1..Len(up.stream)
      BY <1>1, <1>2, Lengths DEF ReaderInv, Headed, Between
    <3>2. up.stream[consumed + 1].type = "head" /\ up.stream[consumed + 1].size < 0
          /\ up.stream[consumed + 1].size \in Int
      BY <1>2, <1>5, UnitHead DEF good_header
    <3> QED BY <3>1, <3>2, CompleteChunk, Lengths DEF Chunked
  <2>2. finish("panic") /\ UNCHANGED <<conn, counts, held, out, trailer, split>>
    BY <1>5 DEF Read_chunk_header, fail
  <2> QED BY <2>1, <2>2, Failing DEF Errors, ReaderInv, TypeOK
<1>4. CASE good_header /\ ~ (buf[1].size < 0)
  <2>1. /\ buf' = Tail(buf) /\ content_n' = content_n + 1 /\ chunk_length' = buf[1].size
        /\ chunk_n' = 0 /\ hunting' = FALSE
        /\ at' = IF buf[1].size # 0 THEN "body" ELSE IF trailed(up) THEN "trailer" ELSE "last"
        /\ UNCHANGED <<up, stream, cut, payload_n, held, out, trailer, split, result>>
    BY <1>4 DEF Read_chunk_header
  <2>2. buf[1].type = "head" /\ buf[1].size \in Nat
    BY <1>2, <1>4, UnitHead DEF good_header
  <2>3. Flow' /\ consumed' = consumed + 1 /\ buf' \in Seq(Unit)
    BY <1>1, <2>1, TailTaken
  <2>4. TypeOK'
    <3>1. chunk_length' \in Nat /\ chunk_n' \in 0..chunk_length' /\ content_n' \in Nat
      BY <2>1, <2>2 DEF ReaderInv, TypeOK
    <3>2. at' \in {"body", "trailer", "last"} /\ hunting' \in BOOLEAN
      BY <2>1
    <3> QED BY <2>1, <2>3, <3>1, <3>2 DEF ReaderInv, TypeOK
  <2>5. Prefix'
    BY <1>1, <2>1 DEF ReaderInv, Prefix, written
  <2>6. Chunked /\ before(up.stream, consumed + 1) = written /\ written \in Nat
    BY <1>1, Lengths DEF ReaderInv, Headed, Between, written
  <2>8. InChunk'
    <3>1. \E h \in 1..Len(up.stream') : chunk_from(h)'
      <4>1. consumed + 1 \in 1..Len(up.stream')
        BY <1>2, <2>1, Lengths
      <4> DEFINE h == consumed + 1
      <4>2. /\ up'.stream[h].type = "head" /\ up'.stream[h].size = chunk_length'
            /\ consumed' = h + chunk_n'
            /\ before(up'.stream, h) + chunk_n' = written'
        BY <1>2, <2>1, <2>2, <2>3, <2>6, Lengths DEF written
      <4> QED BY <4>1, <4>2 DEF chunk_from
    <3> QED BY <2>1, <2>2, <2>6, <3>1 DEF InChunk, Within, Chunked
  <2>9. Headed' /\ Blank' /\ Unchunked' /\ AtEnd' /\ Ending'
    BY <1>1, <2>1 DEF ReaderInv, Headed, Between, Blank, Unchunked, AtEnd, Ending, ErrorsExplained, Trailed, announced
  <2> QED BY <2>3, <2>4, <2>5, <2>8, <2>9 DEF ReaderInv
<1> QED BY <1>3, <1>4, <1>5

\* The last chunk comes after all of the payload.
LEMMA LastChunk ==
  ASSUME Meant, ReaderInv, at \in {"last", "trailer"}
  PROVE  /\ Chunked /\ held = <<>> /\ trailer = FALSE /\ (trailed(up) <=> at = "trailer")
         /\ payload_length(up) = -1 \/ complete(up) => Len(out) = Len(up.payload)
         /\ consumed \in 1..Len(up.stream)
         /\ up.stream[consumed].type = "head" /\ up.stream[consumed].size = 0
         /\ at = "trailer" /\ complete(up) =>
              trailer_at(up.stream, consumed + 1) \/ empty_line(up.stream, consumed + 1)
<1>1. /\ Chunked /\ chunk_length = 0 /\ (trailed(up) <=> at = "trailer")
      /\ \E h \in 1..Len(up.stream) : chunk_from(h)
  BY DEF ReaderInv, InChunk, Within
<1>2. PICK h \in 1..Len(up.stream) : chunk_from(h)
  BY <1>1
<1>3. held = <<>> /\ trailer = FALSE
  BY DEF ReaderInv, Prefix
<1>4. Len(held) = 0 /\ chunk_n = 0
  BY <1>1, <1>3, EmptySeq, Lengths
<1>5. up.stream[h].type = "head" /\ up.stream[h].size = 0 /\ consumed = h
      /\ before(up.stream, h) = Len(out)
  BY <1>1, <1>2, <1>4, BeforeType, Lengths DEF chunk_from, written
<1>7. payload_length(up) = -1 => before(up.stream, h) = Len(up.payload)
  BY <1>1, <1>5, MeantChunk, Lengths DEF Chunked
<1>8. complete(up) =>
        /\ before(up.stream, h) = Len(up.payload)
        /\ trailed(up) => trailer_at(up.stream, h + 1) \/ empty_line(up.stream, h + 1)
  BY <1>1, <1>5, CompleteChunk, Lengths DEF Chunked
<1> QED BY <1>1, <1>3, <1>5, <1>7, <1>8

LEMMA LastInv == ASSUME Meant, ReaderInv, Read_last_crlf PROVE ReaderInv'
<1>1. /\ at = "last" /\ at' = "eof" /\ content_n' \in {content_n, content_n + 2}
      /\ UNCHANGED <<up, stream, cut, buf, hunting, chunk_length, chunk_n, payload_n,
                     held, out, trailer, split, result>>
  BY DEF Read_last_crlf, conn
<1>2. TypeOK'
  BY <1>1 DEF ReaderInv, TypeOK
<1>3. Flow'
  BY <1>1, FlowSame DEF ReaderInv
<1>4. Prefix'
  BY <1>1 DEF ReaderInv, Prefix, written
<1>5. AtEnd'
  <2>1. reader(up) # "error" /\ reader(up) # "Chunked_NO" /\ trailer = FALSE /\ ~ trailed(up)
        /\ (payload_length(up) = -1 \/ complete(up) => Len(out) = Len(up.payload))
    BY <1>1, LastChunk DEF Chunked
  <2> QED BY <1>1, <2>1 DEF AtEnd, Trailed, announced
<1>6. Headed' /\ InChunk' /\ Blank' /\ Unchunked' /\ Ending'
  BY <1>1 DEF ReaderInv, Headed, Between, InChunk, Within, Blank, Unchunked, Ending, ErrorsExplained, Trailed, announced
<1> QED BY <1>2, <1>3, <1>4, <1>5, <1>6 DEF ReaderInv

LEMMA TrailerInv == ASSUME Meant, ReaderInv, Read_chunk_trailer PROVE ReaderInv'
<1>1. at = "trailer" /\ buf # <<>>
  BY DEF Read_chunk_trailer
<1>2. buf[1] = up.stream[consumed + 1] /\ buf[1] \in Unit /\ consumed + 1 <= Len(up.stream)
  BY <1>1, Front, Lengths
<1>3. CASE buf[1].type \notin {"trailer", "cr", "lf"}
  <2>1. ~ complete(up)
    BY <1>1, <1>2, <1>3, LastChunk DEF trailer_at, empty_line, TRAILER, CR, LF
  <2>2. finish("InternalError") /\ UNCHANGED <<conn, counts, held, out, trailer, split>>
    BY <1>3 DEF Read_chunk_trailer, fail
  <2> QED BY <2>1, <2>2, Failing DEF Errors, ReaderInv, TypeOK
<1>4. CASE buf[1].type \in {"trailer", "cr", "lf"}
  <2>1. /\ trailer' = (buf[1].type = "trailer") /\ buf' = Tail(buf)
        /\ at' = IF buf[1].type = "cr" THEN "blank" ELSE "eof"
        /\ UNCHANGED <<up, stream, cut, hunting, chunk_length, chunk_n, content_n, payload_n,
                       held, out, split, result>>
    BY <1>4 DEF Read_chunk_trailer, counts
  <2>2. Flow' /\ consumed' = consumed + 1 /\ buf' \in Seq(Unit)
    BY <1>1, <2>1, TailTaken
  <2>3. TypeOK'
    <3>1. at' \in {"blank", "eof"} /\ trailer' \in BOOLEAN
      BY <2>1
    <3> QED BY <2>1, <2>2, <3>1 DEF ReaderInv, TypeOK
  <2>4. Prefix'
    BY <1>1, <2>1 DEF ReaderInv, Prefix, written
  <2>5. /\ Chunked /\ trailed(up) /\ consumed \in 1..Len(up.stream)
        /\ up.stream[consumed].type = "head" /\ up.stream[consumed].size = 0
        /\ payload_length(up) = -1 \/ complete(up) => Len(out) = Len(up.payload)
    BY <1>1, LastChunk
  <2>6. buf[1].type = "lf" => untrailed(up)
    <3>1. buf[1].type = "lf" => buf[1] = LF
      BY <1>2 DEF Unit, LF, CR, TRAILER
    <3>2. consumed \in DOMAIN up.stream
      BY <2>5, Lengths, LenProperties
    <3> QED BY <1>2, <2>5, <3>1, <3>2 DEF untrailed, empty_line
  <2>7. AtEnd'
    <3> SUFFICES ASSUME at' = "eof" PROVE AtEnd'
      BY DEF AtEnd
    <3>1. up' = up /\ out' = out /\ announced
      BY <2>1, <2>5 DEF announced, Chunked
    <3>2. trailer' \/ untrailed(up)
      BY <1>4, <2>1, <2>6
    <3>3. Trailed'
      BY <3>1, <3>2 DEF Trailed, announced
    <3> QED BY <2>5, <3>1, <3>3 DEF AtEnd, Chunked
  <2>8. Blank'
    <3> SUFFICES ASSUME at' = "blank" PROVE Blank'
      BY DEF Blank
    <3>1. buf[1] = CR
      BY <1>2, <2>1 DEF Unit, LF, CR, TRAILER
    <3>2. up'.stream[consumed + 1] = CR /\ consumed' = consumed + 1
      BY <1>2, <2>1, <2>2, <3>1
    <3> QED BY <2>1, <2>5, <3>2 DEF Blank, Chunked
  <2>9. Headed' /\ InChunk' /\ Unchunked' /\ Ending'
    BY <1>1, <2>1 DEF ReaderInv, Headed, Between, InChunk, Within, Unchunked, Ending, ErrorsExplained,
                      Trailed, announced
  <2> QED BY <2>2, <2>3, <2>4, <2>7, <2>8, <2>9 DEF ReaderInv
<1> QED BY <1>3, <1>4

\* An empty line is taken for the trailer.
LEMMA EmptyLineInv == ASSUME Meant, ReaderInv, Read_empty_line PROVE ReaderInv'
<1>1. at = "blank" /\ buf # <<>>
  BY DEF Read_empty_line
<1>2. buf[1] = up.stream[consumed + 1] /\ consumed + 1 <= Len(up.stream)
  BY <1>1, Front, Lengths
<1>3. /\ Chunked /\ trailed(up) /\ trailer = FALSE
      /\ payload_length(up) = -1 \/ complete(up) => Len(out) = Len(up.payload)
  BY <1>1 DEF ReaderInv, Blank, Prefix
<1>4. PICK h \in 1..Len(up.stream) :
        /\ up.stream[h].type = "head" /\ up.stream[h].size = 0
        /\ consumed = h + 1 /\ up.stream[h + 1] = CR
  BY <1>1 DEF ReaderInv, Blank
<1>5. CASE buf[1] # LF
  <2>1. ~ complete(up)
    <3>1. complete(up) => trailer_at(up.stream, h + 1) \/ empty_line(up.stream, h + 1)
      BY <1>3, <1>4, CompleteChunk, Lengths DEF Chunked
    <3>2. up.stream[h + 1 + 1] # LF
      BY <1>2, <1>4, <1>5
    <3> QED BY <1>4, <3>1, <3>2 DEF trailer_at, empty_line, TRAILER, CR, LF
  <2>2. finish("InternalError") /\ UNCHANGED <<conn, counts, held, out, trailer, split>>
    BY <1>5 DEF Read_empty_line, fail
  <2> QED BY <2>1, <2>2, Failing DEF Errors, ReaderInv, TypeOK
<1>6. CASE buf[1] = LF
  <2>1. /\ buf' = Tail(buf) /\ at' = "eof"
        /\ UNCHANGED <<up, stream, cut, hunting, chunk_length, chunk_n, content_n, payload_n,
                       held, out, trailer, split, result>>
    BY <1>6 DEF Read_empty_line, counts
  <2>2. Flow' /\ buf' \in Seq(Unit)
    BY <1>1, <2>1, TailTaken
  <2>3. TypeOK'
    BY <2>1, <2>2 DEF ReaderInv, TypeOK
  <2>4. Prefix'
    BY <1>1, <2>1 DEF ReaderInv, Prefix, written
  <2>5. untrailed(up)
    <3>1. h \in DOMAIN up.stream
      BY Lengths, LenProperties
    <3>2. empty_line(up.stream, h + 1)
      BY <1>2, <1>4, <1>6 DEF empty_line
    <3> QED BY <1>4, <3>1, <3>2 DEF untrailed
  <2>6. AtEnd'
    BY <1>3, <2>1, <2>5 DEF AtEnd, Trailed, announced, Chunked
  <2>7. Headed' /\ InChunk' /\ Blank' /\ Unchunked' /\ Ending'
    BY <1>1, <2>1 DEF ReaderInv, Headed, Between, InChunk, Within, Blank, Unchunked, Ending,
                      ErrorsExplained, Trailed, announced
  <2> QED BY <2>2, <2>3, <2>4, <2>6, <2>7 DEF ReaderInv
<1> QED BY <1>5, <1>6

\* What is read of a chunk is the payload from where it was.
LEMMA BodyInv == ASSUME Meant, ReaderInv, Read_chunk_body PROVE ReaderInv'
<1> DEFINE l == Len(buf)
           m == chunk_length - chunk_n
           n == Min({CopySize, m, l})
<1>1. /\ at = "body" /\ buf # <<>>
      /\ held' = SubSeq(buf, 1, n) /\ buf' = SubSeq(buf, n + 1, Len(buf))
      /\ chunk_n' = chunk_n + n
      /\ at' = IF chunk_n + n = chunk_length THEN "crlf" ELSE "return"
      /\ UNCHANGED <<up, stream, cut, hunting, chunk_length, content_n, payload_n, out,
                     trailer, split, result>>
  BY DEF Read_chunk_body
<1>2. l \in Nat /\ l >= 1 /\ m \in Int /\ m >= 1 /\ CopySize \in Nat \ {0}
  BY <1>1, Front, Lengths, ChunkedReaderAssumption DEF ReaderInv, InChunk, Within
<1>3. n \in Nat /\ n >= 1 /\ n <= l /\ chunk_n + n <= chunk_length
  <2>1. CopySize \in Int /\ m \in Int /\ l \in Int
    BY <1>2
  <2>2. n \in {CopySize, m, l} /\ n <= m /\ n <= l
    <3> HIDE DEF l, m
    <3> QED BY <2>1, MinThree
  <2>3. n \in Nat /\ n >= 1 /\ n <= m /\ n <= l
    <3> HIDE DEF n, l, m
    <3> QED BY <1>2, <2>2
  <2> HIDE DEF n
  <2> QED BY <2>3, Lengths
<1> HIDE DEF n
<1>4. buf \in Seq(Unit)
  BY DEF ReaderInv, TypeOK
<1>5. held' \in Seq(Unit) /\ Len(held') = n /\ \A i \in 1..n : held'[i] = buf[i]
  BY <1>1, <1>3, <1>4
<1>6. /\ buf' \in Seq(Unit) /\ Len(buf') = Len(buf) - n
      /\ \A i \in 1..Len(buf') : buf'[i] = buf[n + i]
  BY <1>1, <1>3, <1>4
<1>7. Flow' /\ consumed' = consumed + n
  BY <1>1, <1>2, <1>3, <1>6, Taken
<1>8. chunk_n' \in 0..chunk_length' /\ chunk_length' \in Nat
  BY <1>1, <1>3, Lengths
<1>9. TypeOK'
  <2>1. at' \in {"crlf", "return"}
    BY <1>1
  <2> QED BY <1>1, <1>5, <1>6, <1>8, <2>1 DEF ReaderInv, TypeOK
<1>10. /\ Chunked /\ ~ hunting /\ Len(held) = 0
       /\ \E h \in 1..Len(up.stream) : chunk_from(h)
  BY <1>1, EmptySeq DEF ReaderInv, InChunk, Within, Prefix
<1>11. PICK h \in 1..Len(up.stream) : chunk_from(h)
  BY <1>10
<1>12. /\ up.stream[h].type = "head" /\ up.stream[h].size = chunk_length
       /\ consumed = h + chunk_n /\ before(up.stream, h) + chunk_n = Len(out)
       /\ before(up.stream, h) \in Nat
  BY <1>10, <1>11, Lengths, BeforeType DEF chunk_from, written
<1>13. ASSUME NEW i \in 1..n
       PROVE  held'[i] = up.payload[Len(out) + i] /\ Len(out) + i <= Len(up.payload)
  <2> DEFINE b == before(up.stream, h)
             o == Len(out)
             c == consumed
  <2>0. b \in Nat /\ b + chunk_n = o /\ c = h + chunk_n /\ chunk_n \in Nat /\ chunk_length \in Nat
    BY <1>12, Lengths
  <2>1. /\ chunk_n + i \in 1..up.stream[h].size
        /\ h + (chunk_n + i) = c + i
        /\ b + (chunk_n + i) = o + i
    <3> HIDE DEF b, o, c
    <3>1. chunk_n + i \in 1..chunk_length /\ h + (chunk_n + i) = c + i /\ b + (chunk_n + i) = o + i
      BY <1>3, <2>0
    <3> QED BY <1>12, <3>1
  <2>2. consumed + i <= Len(up.stream)
    BY <1>1, <1>3, Front, Lengths
  <2>3. /\ up.stream[consumed + i] = up.payload[Len(out) + i]
        /\ Len(out) + i <= Len(up.payload)
    BY <1>10, <1>12, <2>1, <2>2, MeantChunk, Lengths DEF Chunked
  <2>4. held'[i] = up.stream[consumed + i]
    <3>1. held'[i] = buf[i]
      BY <1>5
    <3>2. i \in 1..Len(buf)
      BY <1>3
    <3> QED BY <1>1, <3>1, <3>2, Front
  <2> QED BY <2>3, <2>4
<1>14. Prefix'
  <2>1. written' <= Len(up.payload)
    BY <1>1, <1>3, <1>5, <1>13 DEF written
  <2> QED BY <1>1, <1>5, <1>13, <2>1 DEF ReaderInv, Prefix
<1>15. InChunk'
  <2>1. chunk_from(h)'
    <3> DEFINE b == before(up.stream, h)
               o == Len(out)
               c == consumed
    <3>1. b \in Nat /\ b + chunk_n = o /\ c = h + chunk_n /\ chunk_n \in Nat
      BY <1>12, Lengths
    <3>2. c + n = h + (chunk_n + n) /\ b + (chunk_n + n) = o + n
      <4> HIDE DEF b, o, c
      <4> QED BY <1>3, <3>1
    <3>3. written' = o + n
      BY <1>1, <1>5 DEF written
    <3>4. consumed' = h + chunk_n'
      BY <1>1, <1>7, <3>2
    <3>5. before(up'.stream, h) + chunk_n' = written'
      BY <1>1, <3>2, <3>3
    <3> QED BY <1>1, <1>12, <3>4, <3>5 DEF chunk_from
  <2>2. h \in 1..Len(up'.stream)
    BY <1>1
  <2> QED BY <1>1, <1>3, <1>8, <1>10, <1>2, <2>1, <2>2, Lengths DEF InChunk, Within, Chunked
<1>16. Headed' /\ Blank' /\ Unchunked' /\ AtEnd' /\ Ending'
  BY <1>1, <1>10 DEF ReaderInv, Headed, Between, Blank, Unchunked, AtEnd, Ending, ErrorsExplained, Trailed, announced
<1> QED BY <1>7, <1>9, <1>14, <1>15, <1>16 DEF ReaderInv

\* After the CR LF of a chunk the next header is expected.
LEMMA CrlfInv == ASSUME Meant, ReaderInv, Consume_cr_lf PROVE ReaderInv'
<1>1. /\ at = "crlf" /\ buf # <<>>
      /\ UNCHANGED <<up, stream, cut, chunk_length, chunk_n, held, out, trailer>>
  BY DEF Consume_cr_lf
<1>2. /\ Chunked /\ ~ hunting /\ chunk_n = chunk_length /\ chunk_length # 0
      /\ \E h \in 1..Len(up.stream) : chunk_from(h)
  BY <1>1 DEF ReaderInv, InChunk, Within
<1>3. PICK h \in 1..Len(up.stream) : chunk_from(h)
  BY <1>2
<1>4. /\ up.stream[h].type = "head" /\ up.stream[h].size = chunk_length
      /\ consumed = h + chunk_length
      /\ before(up.stream, h) + chunk_length = written
  BY <1>2, <1>3 DEF chunk_from
<1>5. /\ Len(buf) >= 1 /\ consumed + Len(buf) <= Len(up.stream)
      /\ buf[1] = up.stream[consumed + 1]
      /\ Len(buf) >= 2 => buf[2] = up.stream[consumed + 2]
  <2>1. /\ Len(buf) \in Nat /\ Len(buf) >= 1 /\ consumed + Len(buf) <= Len(up.stream)
        /\ \A i \in 1..Len(buf) : buf[i] = up.stream[consumed + i]
    BY <1>1, Front, Lengths
  <2>2. 1 \in 1..Len(buf) /\ (Len(buf) >= 2 => 2 \in 1..Len(buf))
    BY <2>1
  <2> QED BY <2>1, <2>2
<1>6. consumed + 1 = h + chunk_length + 1 /\ consumed + 2 = h + chunk_length + 2
  BY <1>4, Lengths
<1>7. complete(up) =>
        /\ header_at(up, h + chunk_length + 3)
        /\ buf[1] = CR /\ (Len(buf) >= 2 => buf[2] = LF)
  BY <1>2, <1>4, <1>5, <1>6, CompleteChunk, Lengths DEF Chunked
<1>8. CASE ~ (Len(buf) >= 2 /\ buf[1] = CR /\ buf[2] = LF)
  <2>1. /\ split' = (split \/ buf = <<CR>>) /\ finish("InternalError")
        /\ UNCHANGED <<buf, hunting, content_n, payload_n>>
    BY <1>8 DEF Consume_cr_lf
  <2>2. complete(up) => buf = <<CR>>
    <3> SUFFICES ASSUME complete(up) PROVE buf = <<CR>>
      OBVIOUS
    <3>0. ~ (Len(buf) >= 2) /\ buf[1] = CR
      BY <1>7, <1>8, Zenon
    <3>1. Len(buf) = 1
      <4>1. Len(buf) \in Nat /\ Len(buf) >= 1
        BY <1>5, Lengths, Zenon
      <4> QED BY <3>0, <4>1
    <3>2. buf \in Seq(Unit)
      BY DEF ReaderInv, TypeOK
    <3> QED BY <3>0, <3>1, <3>2
  <2>3. split' \in BOOLEAN
    BY <2>1
  <2>4. cut \/ split' \/ ~ complete(up)
    BY <2>1, <2>2
  <2>5. UNCHANGED <<conn, counts, held, out, trailer>>
    BY <1>1, <2>1 DEF conn, counts
  <2> QED BY <2>1, <2>3, <2>4, <2>5, Failing DEF Errors
<1>9. CASE Len(buf) >= 2 /\ buf[1] = CR /\ buf[2] = LF
  <2>1. /\ buf' = SubSeq(buf, 3, Len(buf)) /\ at' = "return" /\ hunting' = TRUE
        /\ content_n' = content_n + chunk_length + 2
        /\ payload_n' = payload_n + chunk_length
        /\ UNCHANGED <<split, result>>
    BY <1>9 DEF Consume_cr_lf
  <2>2. buf \in Seq(Unit) /\ Len(buf) \in Nat
    BY Lengths DEF ReaderInv, TypeOK
  <2>3. /\ buf' \in Seq(Unit) /\ Len(buf') = Len(buf) - 2
        /\ \A i \in 1..Len(buf') : buf'[i] = buf[2 + i]
    <3> DEFINE k == 2
    <3>1. k \in Nat /\ k <= Len(buf) /\ k + 1 = 3
      BY <1>9
    <3>2. buf' = SubSeq(buf, k + 1, Len(buf))
      BY <2>1, <3>1, Zenon
    <3>3. /\ buf' \in Seq(Unit) /\ Len(buf') = Len(buf) - k
          /\ \A i \in 1..(Len(buf) - k) : buf'[i] = buf[k + i]
      <4> HIDE DEF k
      <4> QED BY <2>2, <3>1, <3>2, Rest, Zenon
    <3> QED BY <3>3
  <2>4. Flow' /\ consumed' = consumed + 2
    BY <1>1, <1>9, <2>2, <2>3, Taken
  <2>5. TypeOK'
    <3>1. content_n' \in Nat /\ payload_n' \in Nat
      BY <2>1 DEF ReaderInv, TypeOK
    <3> QED BY <1>1, <2>1, <2>3, <3>1 DEF ReaderInv, TypeOK
  <2>6. Prefix'
    BY <1>1, <2>1 DEF ReaderInv, Prefix, written
  <2>7. before(up.stream, h + chunk_length + 3) = before(up.stream, h) + chunk_length
    <3>1. up.stream[h + chunk_length + 1] = CR /\ up.stream[h + chunk_length + 2] = LF
      BY <1>5, <1>6, <1>9
    <3>2. \A j \in 1..chunk_length : h + j <= Len(up.stream)
      BY <1>4, <1>5, Lengths
    <3>3. \A j \in 1..chunk_length : up.stream[h + j].type = "data"
      BY <1>2, <1>4, <3>2, MeantChunk, Lengths DEF Chunked
    <3>4. h \in Nat \ {0} /\ chunk_length \in Nat
      BY Lengths
    <3> QED BY <1>4, <3>1, <3>3, <3>4, BeforeChunk
  <2>8. consumed' + 1 = h + chunk_length + 3
    BY <1>4, <2>4, Lengths
  <2>9. Headed'
    <3>1. before(up'.stream, consumed' + 1) = written'
      BY <1>1, <1>4, <2>7, <2>8 DEF written
    <3>2. complete(up') => header_at(up', consumed' + 1)
      BY <1>1, <1>7, <2>8
    <3> QED BY <1>1, <1>2, <2>1, <3>1, <3>2 DEF Headed, Between, Chunked
  <2>10. InChunk' /\ Blank' /\ Unchunked' /\ AtEnd' /\ Ending'
    BY <1>1, <2>1 DEF ReaderInv, InChunk, Within, Blank, Unchunked, AtEnd, Ending, ErrorsExplained, Trailed, announced
  <2> QED BY <2>4, <2>5, <2>6, <2>9, <2>10 DEF ReaderInv
<1> QED BY <1>8, <1>9

\* What is held goes to the scratch file.
LEMMA ReturnsInv == ASSUME ReaderInv, Read_returns PROVE ReaderInv'
<1>1. /\ at = "return" /\ out' = out \o held /\ held' = <<>>
      /\ at' = IF hunting THEN "header" ELSE "body"
      /\ UNCHANGED <<up, stream, cut, buf, hunting, chunk_length, chunk_n, content_n, payload_n,
                     trailer, split, result>>
  BY DEF Read_returns, conn, counts
<1>2. out \in Seq(Unit) /\ held \in Seq(Unit)
  BY DEF ReaderInv, TypeOK
<1>3. /\ out' \in Seq(Unit) /\ Len(out') = Len(out) + Len(held)
      /\ \A i \in 1..Len(out') :
           out'[i] = IF i <= Len(out) THEN out[i] ELSE held[i - Len(out)]
  BY <1>1, <1>2, ConcatProperties
<1>4. held' \in Seq(Unit) /\ Len(held') = 0
  BY <1>1, EmptySeq, Zenon
<1>5. written' = written /\ written' = Len(out')
  BY <1>3, <1>4, Lengths DEF written
<1>6. Flow' /\ consumed' = consumed
  BY <1>1, FlowSame DEF ReaderInv
<1>7. TypeOK'
  <2>1. at' \in {"header", "body"}
    BY <1>1
  <2> QED BY <1>1, <1>3, <1>4, <2>1, Zenon DEF ReaderInv, TypeOK
<1>8. Prefix'
  <2>1. ASSUME NEW i \in 1..Len(out') PROVE out'[i] = up.payload[i]
    <3>1. CASE i <= Len(out)
      BY <1>3, <3>1, Lengths DEF ReaderInv, Prefix
    <3>2. CASE ~ (i <= Len(out))
      <4>1. i - Len(out) \in 1..Len(held) /\ Len(out) + (i - Len(out)) = i
        BY <1>3, <3>2, Lengths
      <4> QED BY <1>3, <3>2, <4>1 DEF ReaderInv, Prefix
    <3> QED BY <3>1, <3>2
  <2>2. written <= Len(up.payload) /\ trailer = FALSE
    BY <1>1 DEF ReaderInv, Prefix
  <2>3. \A i \in 1..Len(held') : held'[i] = up.payload[Len(out') + i]
    BY <1>4
  <2> QED BY <1>1, <1>5, <2>1, <2>2, <2>3 DEF Prefix
<1>9. Headed'
  BY <1>1, <1>5, <1>6 DEF ReaderInv, Headed, Between, Chunked
<1>10. InChunk'
  <2>1. CASE hunting
    BY <1>1, <2>1 DEF InChunk, Within
  <2>2. CASE ~ hunting
    <3>1. /\ Chunked /\ chunk_n < chunk_length
          /\ \E h \in 1..Len(up.stream) : chunk_from(h)
      BY <1>1, <2>2 DEF ReaderInv, InChunk, Within
    <3>2. \A h : chunk_from(h) => chunk_from(h)'
      BY <1>1, <1>5, <1>6 DEF chunk_from
    <3> QED BY <1>1, <2>2, <3>1, <3>2 DEF InChunk, Within, Chunked
  <2> QED BY <2>1, <2>2
<1>11. Blank' /\ Unchunked' /\ AtEnd' /\ Ending'
  BY <1>1 DEF ReaderInv, Blank, Unchunked, AtEnd, Ending, ErrorsExplained, Trailed, announced
<1> QED BY <1>6, <1>7, <1>8, <1>9, <1>10, <1>11 DEF ReaderInv

\* A body that is not chunked is a prefix of the payload.
LEMMA RawInv == ASSUME Meant, ReaderInv, Read_raw PROVE ReaderInv'
<1> DEFINE l == Len(buf)
           o == Len(out)
           e == up.length
           n == IF e = -1 THEN l ELSE Min({l, e - o})
<1>1. /\ at = "raw" /\ buf # <<>> /\ buf' = <<>>
      /\ out' = out \o (IF e = -1 THEN buf ELSE SubSeq(buf, 1, Min({l, e - o})))
      /\ at' = IF Len(out') = e THEN "eof" ELSE "raw"
      /\ UNCHANGED <<up, stream, cut, hunting, chunk_length, chunk_n, content_n, payload_n,
                     held, trailer, split, result>>
  BY DEF Read_raw, counts
<1>2. /\ reader(up) = "Chunked_NO" /\ o = consumed /\ held = <<>> /\ trailer = FALSE
      /\ e # -1 => o <= e
  BY <1>1 DEF ReaderInv, Unchunked, Prefix
<1>3. l \in Nat /\ o \in Nat /\ e \in Nat \cup {-1}
  BY Lengths, UploadType
<1>4. n \in 0..l /\ (e # -1 => o + n <= e /\ (n = l \/ o + n = e))
  <2>1. CASE e = -1
    BY <1>3, <2>1
  <2>2. CASE e # -1
    <3> DEFINE d == e - o
    <3>1. d \in Nat /\ l \in Int /\ d \in Int /\ d + o = e /\ e \in Nat
      BY <1>2, <1>3, <2>2
    <3>2. n = Min({l, d})
      BY <2>2
    <3> HIDE DEF d, n, l, o, e
    <3>3. Min({l, d}) \in {l, d} /\ Min({l, d}) <= l /\ Min({l, d}) <= d
      BY <3>1, MinTwo
    <3> QED BY <1>3, <2>2, <3>1, <3>2, <3>3
  <2> QED BY <2>1, <2>2
<1>5. buf \in Seq(Unit) /\ out \in Seq(Unit)
  BY DEF ReaderInv, TypeOK
<1>6. \E t \in Seq(Unit) : out' = out \o t /\ Len(t) = n /\ \A i \in 1..n : t[i] = buf[i]
  <2>1. CASE e = -1
    BY <1>1, <1>5, <2>1
  <2>2. CASE e # -1
    <3>1. n = Min({l, e - o}) /\ out' = out \o SubSeq(buf, 1, n)
      BY <1>1, <2>2
    <3> HIDE DEF n
    <3>2. /\ SubSeq(buf, 1, n) \in Seq(Unit) /\ Len(SubSeq(buf, 1, n)) = n
          /\ \A i \in 1..n : SubSeq(buf, 1, n)[i] = buf[i]
      BY <1>3, <1>4, <1>5
    <3> QED BY <3>1, <3>2, Zenon
  <2> QED BY <2>1, <2>2
<1> HIDE DEF n
<1>7. PICK t \in Seq(Unit) : out' = out \o t /\ Len(t) = n /\ \A i \in 1..n : t[i] = buf[i]
  BY <1>6
<1>8. /\ out' \in Seq(Unit) /\ Len(out') = o + n
      /\ \A i \in 1..Len(out') : out'[i] = IF i <= o THEN out[i] ELSE t[i - o]
  <2>1. /\ out \o t \in Seq(Unit) /\ Len(out \o t) = Len(out) + Len(t)
        /\ \A i \in 1..(Len(out) + Len(t)) :
             (out \o t)[i] = IF i <= Len(out) THEN out[i] ELSE t[i - Len(out)]
    BY <1>5, <1>7, ConcatProperties
  <2>2. out' = out \o t /\ Len(t) = n
    BY <1>7
  <2> QED BY <2>1, <2>2, Zenon
<1>9. buf' \in Seq(Unit) /\ Len(buf') = 0
  BY <1>1, EmptySeq, Zenon
<1>10. Flow' /\ consumed' = consumed + l
  <2>1. l \in 0..Len(buf) /\ Len(buf') = Len(buf) - l
    BY <1>3, <1>9
  <2>2. \A i \in 1..Len(buf') : buf'[i] = buf[l + i]
    BY <1>9
  <2> HIDE DEF l
  <2> QED BY <1>1, <2>1, <2>2, Taken
<1>11. meant(up) /\ ~ up.te /\ ~ up.ce
  BY <1>2, Lengths, ReaderKinds DEF Meant
<1>12. /\ Len(up.stream) <= Len(up.payload)
       /\ \A i \in DOMAIN up.stream : up.stream[i] = up.payload[i]
       /\ e # -1 => e = Len(up.payload)
  BY <1>11 DEF meant
<1>13. consumed + l <= Len(up.stream) /\ \A i \in 1..l : buf[i] = up.stream[consumed + i]
  BY <1>1, Front
<1>14. Prefix'
  <2>1. ASSUME NEW i \in 1..Len(out') PROVE out'[i] = up.payload[i]
    <3>1. CASE i <= o
      BY <1>3, <1>8, <3>1 DEF ReaderInv, Prefix
    <3>2. CASE ~ (i <= o)
      <4> DEFINE j == i - o
      <4>1. j \in 1..n /\ j \in 1..l /\ i \in 1..(o + l) /\ o + j = i
        <5> HIDE DEF l, o
        <5> QED BY <1>3, <1>4, <1>8, <3>2
      <4>2. out'[i] = up.stream[i]
        <5> HIDE DEF j
        <5> QED BY <1>2, <1>7, <1>8, <1>13, <3>2, <4>1 DEF j
      <4>3. i \in DOMAIN up.stream
        <5>1. DOMAIN up.stream = 1..Len(up.stream)
          BY Lengths, LenProperties
        <5> HIDE DEF l, o
        <5> QED BY <1>2, <1>3, <1>13, <4>1, <5>1, Lengths
      <4> QED BY <1>12, <4>2, <4>3
    <3> QED BY <3>1, <3>2
  <2>2. written' <= Len(up.payload)
    <3>1. Len(held') = 0
      BY <1>1, <1>2, EmptySeq
    <3>2. written' = o + n
      BY <1>3, <1>4, <1>8, <3>1 DEF written
    <3>3. o + l <= Len(up.stream)
      BY <1>2, <1>13
    <3> HIDE DEF l, o
    <3> QED BY <1>3, <1>4, <1>12, <3>2, <3>3, Lengths
  <2>3. held' = <<>> /\ Len(held') = 0
    BY <1>1, <1>2, EmptySeq
  <2>4. \A i \in 1..Len(held') : held'[i] = up'.payload[Len(out') + i]
    BY <2>3
  <2> QED BY <1>1, <1>2, <2>1, <2>2, <2>3, <2>4 DEF Prefix
<1>15. TypeOK'
  <2>1. at' \in {"eof", "raw"}
    BY <1>1
  <2> QED BY <1>1, <1>8, <1>9, <2>1, Zenon DEF ReaderInv, TypeOK
<1>16. Unchunked'
  <2> SUFFICES ASSUME at' = "raw" PROVE Len(out') = consumed' /\ (e # -1 => Len(out') <= e)
    BY <1>1, <1>2 DEF Unchunked
  <2>1. Len(out') # e
    BY <1>1
  <2>2. n = l
    <3>1. CASE e = -1
      BY <3>1 DEF n
    <3>2. CASE e # -1
      BY <1>4, <1>8, <2>1, <3>2
    <3> QED BY <3>1, <3>2
  <2> QED BY <1>2, <1>4, <1>8, <1>10, <2>2
<1>17. AtEnd'
  <2> SUFFICES ASSUME at' = "eof" PROVE AtEnd'
    BY DEF AtEnd
  <2>1. Len(out') = e /\ e # -1
    BY <1>1, <1>3, <1>4, <1>8
  <2>2. trailer' = FALSE /\ up' = up /\ reader(up) = "Chunked_NO"
    BY <1>1, <1>2 DEF ReaderInv, Prefix
  <2>3. Trailed'
    BY <2>2 DEF Trailed, announced
  <2> QED BY <1>12, <2>1, <2>2, <2>3 DEF AtEnd
<1>18. Headed' /\ InChunk' /\ Blank' /\ Ending'
  BY <1>1 DEF ReaderInv, Blank, Headed, Between, InChunk, Within, Ending, ErrorsExplained, Trailed, announced
<1> QED BY <1>10, <1>14, <1>15, <1>16, <1>17, <1>18 DEF ReaderInv

\* The length that is compared is that of the payload.
LEMMA CopiedInv == ASSUME Meant, ReaderInv, Copied PROVE ReaderInv'
<1>1. /\ at = "eof"
      /\ finish(IF payload_length(up) # -1 /\ Len(out) # payload_length(up)
                THEN "IncompleteBody" ELSE "OK")
      /\ UNCHANGED <<conn, counts, held, out, trailer, split>>
  BY DEF Copied
<1>2. /\ reader(up) # "error" /\ Trailed
      /\ payload_length(up) = -1 \/ complete(up) => Len(out) = Len(up.payload)
  BY <1>1 DEF ReaderInv, AtEnd
<1>3. payload_length(up) # -1 => payload_length(up) = Len(up.payload) \/ payload_length(up) < 0
  BY <1>2, LengthMeant, Lengths
<1>6. complete(up) /\ payload_length(up) # -1 => payload_length(up) = Len(out)
  <2>1. CASE reader(up) = "Chunked_NO"
    <3>1. payload_length(up) = up.length
      BY <2>1 DEF payload_length
    <3> QED BY <1>2, <1>3, <3>1, Lengths, UploadType
  <2>2. CASE reader(up) # "Chunked_NO"
    <3>1. complete(up) => payload_length(up) \in {-1, Len(up.payload)}
      BY <1>2, <2>2 DEF complete
    <3> QED BY <1>2, <3>1
  <2> QED BY <2>1, <2>2
<1>4. CASE payload_length(up) # -1 /\ Len(out) # payload_length(up)
  <2>1. finish("IncompleteBody") /\ ~ complete(up)
    BY <1>1, <1>4, <1>6
  <2> QED BY <1>1, <2>1, Failing DEF Errors, ReaderInv, TypeOK
<1>5. CASE ~ (payload_length(up) # -1 /\ Len(out) # payload_length(up))
  <2>1. /\ at' = "done" /\ result' = "OK"
        /\ UNCHANGED <<up, stream, cut, buf, hunting, chunk_length, chunk_n, content_n, payload_n,
                       held, out, trailer, split>>
    BY <1>1, <1>5 DEF finish, conn, counts
  <2>2. Len(out) = Len(up.payload)
    BY <1>2, <1>3, <1>5, Lengths
  <2>3. TypeOK'
    BY <2>1 DEF ReaderInv, TypeOK
  <2>4. Flow'
    BY <2>1, FlowSame DEF ReaderInv
  <2>5. Prefix'
    BY <2>1 DEF ReaderInv, Prefix, written
  <2>6. Ending'
    BY <1>2, <2>1, <2>2 DEF Ending, ErrorsExplained, Trailed, announced
  <2>7. Headed' /\ InChunk' /\ Blank' /\ Unchunked' /\ AtEnd'
    BY <2>1 DEF Headed, Between, InChunk, Within, Blank, Unchunked, AtEnd
  <2> QED BY <2>3, <2>4, <2>5, <2>6, <2>7 DEF ReaderInv
<1> QED BY <1>4, <1>5
-----------------------------------------------------------------------------
LEMMA ReaderStep == ASSUME Meant, ReaderInv, [Next]_vars PROVE ReaderInv'
<1>1. CASE Read
  BY <1>1, MakeInv, FillErrorInv, LookInv, HeaderInv, LastInv, TrailerInv, EmptyLineInv,
     BodyInv, CrlfInv, ReturnsInv, RawInv, CopiedInv DEF Read
<1>3. CASE Fill
  BY <1>3, FillInv
<1>2. CASE Cut \/ Ended \/ UNCHANGED vars
  BY <1>2, CutInv DEF Ended
<1> QED BY <1>1, <1>2, <1>3 DEF Next

\* For streams that mean their payloads, the invariant holds in every state
\* of make_chunked_reader, Chunked_reader and copy_content_stream.
THEOREM ReaderInvariant == Meant => (Spec => []ReaderInv)
<1> SUFFICES ASSUME Meant PROVE Spec => []ReaderInv
  OBVIOUS
<1>1. Init => ReaderInv
  BY ReaderInit
<1>2. ReaderInv /\ [Next]_vars => ReaderInv'
  BY ReaderStep
<1> QED BY <1>1, <1>2, PTL DEF Spec

\* The variables keep their types, and read_chunk_body never reads past the
\* end of a chunk.
THEOREM TypeCorrect == Meant => (Spec => []TypeOK)
<1> SUFFICES ASSUME Meant PROVE Spec => []TypeOK
  OBVIOUS
<1>1. Spec => []ReaderInv
  BY ReaderInvariant
<1>2. ReaderInv => TypeOK
  BY DEF ReaderInv
<1> QED BY <1>1, <1>2, PTL

LEMMA PrefixOfPayload == ReaderInv => OnlyPayload
<1>0. ReaderInv => Len(out) + Len(held) <= Len(up.payload)
  BY DEF ReaderInv, Prefix, written
<1> SUFFICES ASSUME ReaderInv PROVE out \o held = SubSeq(up.payload, 1, Len(out) + Len(held))
  BY <1>0 DEF OnlyPayload
<1> DEFINE n == Len(out) + Len(held)
           a == out \o held
           b == SubSeq(up.payload, 1, n)
<1>1. /\ out \in Seq(Unit) /\ held \in Seq(Unit) /\ up.payload \in Seq(Unit)
      /\ Len(out) \in Nat /\ Len(held) \in Nat /\ Len(up.payload) \in Nat /\ n \in Nat
      /\ n <= Len(up.payload)
  BY Lengths, UploadType DEF ReaderInv, TypeOK, Prefix, written
<1>2. /\ a \in Seq(Unit) /\ Len(a) = n
      /\ \A i \in 1..n : a[i] = IF i <= Len(out) THEN out[i] ELSE held[i - Len(out)]
  BY <1>1, ConcatProperties
<1>3. b \in Seq(Unit) /\ Len(b) = n /\ \A i \in 1..n : b[i] = up.payload[i]
  <2> HIDE DEF n
  <2> QED BY <1>1
<1>4. ASSUME NEW i \in 1..n PROVE a[i] = b[i]
  <2>1. CASE i <= Len(out)
    BY <1>1, <1>2, <1>3, <2>1 DEF ReaderInv, Prefix
  <2>2. CASE ~ (i <= Len(out))
    <3>1. i - Len(out) \in 1..Len(held) /\ Len(out) + (i - Len(out)) = i
      BY <1>1, <2>2
    <3>2. held[i - Len(out)] = up.payload[i]
      BY <3>1 DEF ReaderInv, Prefix
    <3> HIDE DEF a, b, n
    <3> QED BY <1>2, <1>3, <2>2, <3>2
  <2> QED BY <2>1, <2>2
<1> HIDE DEF a, b, n
<1>5. a = b
  BY <1>2, <1>3, <1>4, SeqEqual
<1> QED BY <1>5 DEF a, b, n

\* However a stream is divided into reads, and wherever the connection
\* breaks, copy_content_stream writes a prefix of the payload: no header, CR
\* LF or trailer, no gap, nothing twice.
THEOREM OnlyPayloadWritten == Meant => (Spec => []OnlyPayload)
<1> SUFFICES ASSUME Meant PROVE Spec => []OnlyPayload
  OBVIOUS
<1>1. Spec => []ReaderInv
  BY ReaderInvariant
<1>2. ReaderInv => OnlyPayload
  BY PrefixOfPayload
<1> QED BY <1>1, <1>2, PTL

LEMMA WholePayload == ReaderInv => WholeWhenOK
<1> SUFFICES ASSUME ReaderInv, result = "OK"
             PROVE  out = up.payload /\ Trailed
  BY DEF WholeWhenOK, Trailed
<1>1. Len(out) = Len(up.payload) /\ Trailed
  BY DEF ReaderInv, Ending
<1>2. out \in Seq(Unit) /\ up.payload \in Seq(Unit)
  BY Lengths, UploadType DEF ReaderInv, TypeOK
<1>3. \A i \in 1..Len(out) : out[i] = up.payload[i]
  BY DEF ReaderInv, Prefix
<1>4. out = up.payload
  BY <1>1, <1>2, <1>3, SeqEqual
<1> QED BY <1>1, <1>4

\* An upload that copy_content_stream accepts has all of its payload.  A
\* trailer that is announced has been taken, or the stream has an empty line
\* in its place, which read_chunk_trailer accepts.
THEOREM AcceptedWhole == Meant => (Spec => []WholeWhenOK)
<1> SUFFICES ASSUME Meant PROVE Spec => []WholeWhenOK
  OBVIOUS
<1>1. Spec => []ReaderInv
  BY ReaderInvariant
<1>2. ReaderInv => WholeWhenOK
  BY WholePayload
<1> QED BY <1>1, <1>2, PTL

\* An upload with a complete stream fails only when the connection breaks,
\* or when consume_cr_lf gets a CR without its LF.
THEOREM ErrorsAreExplained == Meant => (Spec => []ErrorsExplained)
<1> SUFFICES ASSUME Meant PROVE Spec => []ErrorsExplained
  OBVIOUS
<1>1. Spec => []ReaderInv
  BY ReaderInvariant
<1>2. ReaderInv => ErrorsExplained
  BY DEF ReaderInv, Ending
<1> QED BY <1>1, <1>2, PTL
=============================================================================
