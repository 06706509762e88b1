--------------------------- MODULE ListingsProofs ---------------------------
(***************************************************************************)
(* Proofs about the listings, for any number of keys, any directories,     *)
(* limits of pages, prefixes and common prefixes, and any changes of other *)
(* requests meanwhile.                                                     *)
(***************************************************************************)
EXTENDS Listings, FiniteSetTheorems, SequenceTheorems, TLAPS

ByMarker == {"ListObjects", "ListMultipartUploads"}

\* With common prefixes c, key l may follow key k in a listing.
apart(c, k, l) == k < l /\ (together(c) => c[k] # c[l] \/ c[k] = 0)

\* Key l is before p, and what comes from p on has not its common prefix, if
\* common prefixes lie together.
settled(c, l, p) == l < p /\ (together(c) => \A k \in p..N : c[k] # c[l] \/ c[l] = 0)

\* What is listed once: a key, or (as a negative number) a common prefix.
class(c, k) == IF c[k] = 0 THEN k ELSE - c[k]

\* What there is to list of the keys S from a to before b.
classes(c, S, a, b) == {class(c, k) : k \in {j \in S : a <= j /\ j < b}}

\* What a walk at a meets of it, after common prefix f.
ahead(c, S, f, a, b) == classes(c, S, a, b) \ {- f}

there == present \cap req.match
page == {entries[i] : i \in DOMAIN entries}
-----------------------------------------------------------------------------
\* The walk.  Only keys before pos are met, and only some of them are entries.
Walked ==
  phase = "walk" =>
    /\ req.op \in Walking
    /\ count < pos /\ Len(entries) <= count
    /\ nextindex = 0 /\ nextmarker = 0
    /\ commonprefix # 0 => \E j \in Keys : j < pos /\ check_common_prefix(j) = commonprefix
    /\ markerhit => marker # 0 /\ marker < pos

\* As long as no key is added, the walk of ListObjectsV2 knows all files of the
\* directories it has read, and has counted all that is there before pos.
Counted ==
  phase = "walk" /\ req.op = "ListObjectsV2" /\ added = {} =>
    /\ \A k \in present : (Dir[k] = Top \/ \E j \in 1..(pos - 1) : Dir[j] = Dir[k]) => k \in known
    /\ Cardinality(classes(req.common, there, 1, pos) \cup ({- commonprefix} \ {0})) <= count

\* A page that continues at token t has nothing from before key q.
Guard(t, q) ==
  /\ req.op \in ByMarker => q = 1 \/ q <= t
  /\ req.op = "ListParts" => q <= t + 1 \/ \A k \in present : k <= t
  /\ req.op \in {"ListObjectsV2", "ListBuckets"} =>
       Cardinality(classes(req.common, there, 1, q)) <= t

\* Nor has the walk of such a page.
WalkGuard(q) ==
  IF req.op \in ByMarker THEN q = 1 \/ q <= token
  ELSE pos < q => count + Cardinality(ahead(req.common, there, commonprefix, pos, q)) <= token

\* What is on the pages so far, and on the page in work, is apart, and there is
\* a key before which the rest has nothing.
ListingApart ==
  \A i, j \in DOMAIN listing : i < j => apart(req.common, listing[i].key, listing[j].key)

EntriesApart ==
  \A i, j \in DOMAIN entries : i < j => apart(req.common, entries[i], entries[j])

Asked ==
  phase = "ask" =>
    \E q \in 1..(N + 1) : Guard(token, q) /\ \A l \in listed : settled(req.common, l, q)

Collected ==
  phase = "walk" =>
    /\ EntriesApart
    /\ \A e \in page : e < pos /\ (req.common[e] = commonprefix \/ settled(req.common, e, pos))
    /\ \E q \in 1..(N + 1) :
         /\ WalkGuard(q)
         /\ \A l \in listed : settled(req.common, l, q)
         /\ \A e \in page : q <= e

Paged ==
  phase \in {"fill", "status", "answer"} =>
    /\ EntriesApart
    /\ \A l \in listed, e \in page : apart(req.common, l, e)
    /\ truncated =>
         \E q \in 1..(N + 1) :
           /\ Guard(IF req.op \in ByMarker THEN nextmarker ELSE nextindex, q)
           /\ \A l \in listed \cup page : settled(req.common, l, q)

Chain == ListingApart /\ Asked /\ Collected /\ Paged

\* Sizes of the pages, and that paging goes on.
Sized ==
  /\ entries \in Seq(Keys) /\ Len(entries) <= N
  /\ listing \in Seq([name : Keys, key : Keys])
  /\ phase \in {"ask", "walk", "fill", "status", "answer"} => pages < MaxPages
  /\ phase = "status" => pos <= Len(entries) + 1 /\ req.op # "ListMultipartUploads"

ListingsInv ==
  TypeOK /\ Sized /\ Walked /\ Counted /\ (req.op \in ByMarker \/ added = {} => Chain)
-----------------------------------------------------------------------------
LEMMA MinTwo ==
  ASSUME NEW a \in Int, NEW b \in Int
  PROVE  Min({a, b}) \in {a, b} /\ Min({a, b}) <= a /\ Min({a, b}) <= b
<1>1. \E x \in {a, b} : \A y \in {a, b} : x <= y
  OBVIOUS
<1> QED BY <1>1 DEF Min

LEMMA CardLess ==
  ASSUME NEW B, IsFiniteSet(B), NEW A \in SUBSET B
  PROVE  /\ IsFiniteSet(A) /\ Cardinality(A) \in Nat /\ Cardinality(B) \in Nat
         /\ Cardinality(A) <= Cardinality(B)
BY FS_Subset, FS_CardinalityType

\* A set with an element more.
LEMMA CardMore ==
  ASSUME NEW B, IsFiniteSet(B), NEW A \in SUBSET B, NEW x \in B, x \notin A
  PROVE  Cardinality(A) + 1 <= Cardinality(B)
<1>1. IsFiniteSet(A) /\ Cardinality(A) \in Nat
  BY CardLess
<1>2. IsFiniteSet(A \cup {x}) /\ Cardinality(A \cup {x}) = Cardinality(A) + 1
  BY <1>1, FS_AddElement
<1>3. A \cup {x} \in SUBSET B
  OBVIOUS
<1> QED BY <1>2, <1>3, CardLess

LEMMA KeySets ==
  ASSUME NEW S \in SUBSET (0..N)
  PROVE  /\ IsFiniteSet(S) /\ Cardinality(S) \in Nat
         /\ \A k : IsFiniteSet(below(S, k)) /\ Cardinality(below(S, k)) \in Nat
<1>1. IsFiniteSet(0..N)
  BY FS_Interval, ListingsAssumption
<1>2. IsFiniteSet(S) /\ Cardinality(S) \in Nat
  BY <1>1, CardLess
<1>3. \A k : below(S, k) \in SUBSET S
  BY DEF below
<1> QED BY <1>2, <1>3, CardLess

\* A larger key has more keys below it.
LEMMA BelowMore ==
  ASSUME NEW S \in SUBSET (0..N), NEW k \in S, NEW l \in Int, k < l
  PROVE  Cardinality(below(S, k)) < Cardinality(below(S, l))
<1>1. S \in SUBSET Int
  BY ListingsAssumption
<1>2. below(S, k) \in SUBSET below(S, l) /\ k \in below(S, l) /\ k \notin below(S, k)
  <2>1. k \in Int /\ ~ (k < k) /\ \A j \in S : j < k => j < l
    BY <1>1
  <2> QED BY <2>1 DEF below
<1>3. IsFiniteSet(below(S, l)) /\ Cardinality(below(S, l)) \in Nat /\ Cardinality(below(S, k)) \in Nat
  BY KeySets
<1>4. Cardinality(below(S, k)) + 1 <= Cardinality(below(S, l))
  BY <1>2, <1>3, CardMore
<1> QED BY <1>3, <1>4

\* Each number up to the size of a set is the number of keys below one of it.
LEMMA RankTaken ==
  ASSUME NEW S \in SUBSET (0..N), NEW i \in 1..Cardinality(S)
  PROVE  \E k \in S : Cardinality(below(S, k)) = i - 1
<1> DEFINE n == Cardinality(S)
           T == 0..(n - 1)
           f == [k \in S |-> Cardinality(below(S, k))]
<1>1. n \in Nat /\ IsFiniteSet(S)
  BY KeySets
<1>2. IsFiniteSet(T) /\ Cardinality(T) = n
  <2> HIDE DEF n
  <2> QED BY <1>1, FS_Interval
<1>3. ASSUME NEW k \in S PROVE f[k] \in T
  <2>1. below(S, k) \in SUBSET S /\ k \notin below(S, k)
    BY ListingsAssumption DEF below
  <2>2. Cardinality(below(S, k)) + 1 <= n /\ Cardinality(below(S, k)) \in Nat
    BY <1>1, <2>1, CardMore, KeySets
  <2> HIDE DEF n
  <2> QED BY <1>1, <2>2
<1>4. ASSUME NEW k \in S, NEW l \in S, k # l PROVE f[k] # f[l]
  <2>1. k \in Int /\ l \in Int
    BY ListingsAssumption
  <2>2. CASE k < l
    <3>1. Cardinality(below(S, k)) < Cardinality(below(S, l))
      BY <2>1, <2>2, BelowMore
    <3> QED BY <3>1, KeySets
  <2>3. CASE l < k
    <3>1. Cardinality(below(S, l)) < Cardinality(below(S, k))
      BY <2>1, <2>3, BelowMore
    <3> QED BY <3>1, KeySets
  <2> QED BY <1>4, <2>1, <2>2, <2>3
<1> HIDE DEF T, n
<1>5. f \in [S -> T]
  BY <1>3
<1> HIDE DEF f
<1>6. f \in Injection(S, T)
  BY <1>4, <1>5 DEF Injection, IsInjective
<1>7. f \in Surjection(S, T)
  BY <1>2, <1>6, FS_Injection DEF n
<1>8. i - 1 \in T
  BY <1>1 DEF T, n
<1>9. \E k \in S : f[k] = i - 1
  BY <1>7, <1>8 DEF Surjection
<1> QED BY <1>9 DEF f

\* What Ordered returns.
LEMMA OrderedKeys ==
  ASSUME NEW S \in SUBSET Keys
  PROVE  /\ Ordered(S) \in Seq(Keys) /\ Len(Ordered(S)) = Cardinality(S)
         /\ Cardinality(S) \in 0..N
         /\ \A i \in 1..Cardinality(S) :
              Ordered(S)[i] \in S /\ Cardinality(below(S, Ordered(S)[i])) = i - 1
         /\ \A i, j \in 1..Cardinality(S) : i < j => Ordered(S)[i] < Ordered(S)[j]
<1>1. S \in SUBSET (0..N) /\ Keys \in SUBSET (0..N)
  BY ListingsAssumption DEF Keys
<1>2. Cardinality(S) \in 0..N
  <2>1. IsFiniteSet(Keys) /\ Cardinality(Keys) = N
    BY FS_Interval, ListingsAssumption DEF Keys
  <2> QED BY <2>1, CardLess
<1>3. \A i \in 1..Cardinality(S) :
        Ordered(S)[i] \in S /\ Cardinality(below(S, Ordered(S)[i])) = i - 1
  <2> TAKE i \in 1..Cardinality(S)
  <2>1. \E k \in S : Cardinality(below(S, k)) = i - 1
    BY <1>1, RankTaken
  <2>2. Ordered(S)[i] = CHOOSE k \in S : Cardinality(below(S, k)) = i - 1
    BY DEF Ordered
  <2> QED BY <2>1, <2>2
<1>4. Ordered(S) \in Seq(Keys) /\ Len(Ordered(S)) = Cardinality(S)
  <2> DEFINE o == Ordered(S)
             n == Cardinality(S)
  <2>1. n \in Nat /\ o = [i \in 1..n |-> o[i]] /\ \A i \in 1..n : o[i] \in Keys
    BY <1>2, <1>3, ListingsAssumption DEF Ordered
  <2> HIDE DEF o, n
  <2>2. o \in Seq(Keys) /\ Len(o) = n
    BY <2>1
  <2> QED BY <2>2 DEF o, n
<1>5. ASSUME NEW i \in 1..Cardinality(S), NEW j \in 1..Cardinality(S), i < j,
             ~ (Ordered(S)[i] < Ordered(S)[j])
      PROVE  FALSE
  <2> DEFINE k == Ordered(S)[i]
             l == Ordered(S)[j]
  <2>1. k \in S /\ l \in S /\ Cardinality(below(S, k)) = i - 1 /\ Cardinality(below(S, l)) = j - 1
    BY <1>3
  <2>2. k \in Int /\ l \in Int
    <3> HIDE DEF k, l
    <3> QED BY <2>1, ListingsAssumption DEF Keys
  <2>3. k = l \/ l < k
    BY <1>5, <2>2
  <2>4. l < k => Cardinality(below(S, l)) < Cardinality(below(S, k))
    BY <1>1, <2>1, <2>2, BelowMore
  <2> HIDE DEF k, l
  <2> QED BY <1>2, <1>5, <2>1, <2>3, <2>4
<1> QED BY <1>2, <1>3, <1>4, <1>5

LEMMA MaxKey ==
  ASSUME NEW S \in SUBSET (0..N), S # {}
  PROVE  Max(S) \in S /\ \A k \in S : k <= Max(S)
<1> DEFINE n == Cardinality(S)
<1>1. n \in Nat \ {0} /\ IsFiniteSet(S)
  BY KeySets, FS_EmptySet
<1>2. PICK k \in S : Cardinality(below(S, k)) = n - 1
  <2>1. n \in 1..n
    BY <1>1
  <2> QED BY <2>1, RankTaken
<1>3. ASSUME NEW l \in S, ~ (l <= k) PROVE FALSE
  <2>0. l \in 0..N /\ k \in 0..N
    OBVIOUS
  <2>1. l \in Int /\ k \in Int /\ k < l
    BY <1>3, <2>0, ListingsAssumption
  <2>2. Cardinality(below(S, k)) < Cardinality(below(S, l))
    BY <2>1, BelowMore
  <2>3. below(S, l) \in SUBSET S /\ l \notin below(S, l)
    BY <2>1 DEF below
  <2>4. Cardinality(below(S, l)) + 1 <= n
    BY <1>1, <2>3, CardMore
  <2>5. Cardinality(below(S, l)) \in Nat
    BY KeySets
  <2> HIDE DEF n
  <2> QED BY <1>1, <1>2, <2>2, <2>4, <2>5
<1>4. \E x \in S : \A y \in S : x >= y
  BY <1>3, ListingsAssumption
<1> QED BY <1>4, ListingsAssumption DEF Max
-----------------------------------------------------------------------------
SizeInv == TypeOK /\ Sized /\ Walked

LEMMA RequestType ==
  ASSUME NEW r \in Requests
  PROVE  /\ r.op \in Ops /\ r.max \in Int /\ r.after \in {0} \cup Keys /\ r.match \in SUBSET Keys
         /\ r.common \in [Keys -> 0..N]
         /\ r.op = "ListBuckets" => r.max >= 0
         /\ r.op = "ListParts" => r.max >= -1
         /\ r.op \in {"ListBuckets", "ListParts"} => r.common = NoCommon
         /\ r.op # "ListMultipartUploads" => together(r.common)
<1>1. r \in Request
  BY ListingsAssumption
<1> QED BY <1>1, ListingsAssumption DEF Request

LEMMA NoEntries ==
  /\ <<>> \in Seq(Keys) /\ <<>> \in Seq([name : Keys, key : Keys])
  /\ Len(<<>>) = 0 /\ DOMAIN <<>> = {}
BY EmptySeq

LEMMA SomeEntries ==
  ASSUME NEW s \in Seq(Keys), NEW c
  PROVE  /\ Len(s) \in Nat /\ DOMAIN s = 1..Len(s)
         /\ IsFiniteSet({i \in DOMAIN s : c[s[i]] = 0})
         /\ Cardinality({i \in DOMAIN s : c[s[i]] = 0}) \in Nat
         /\ Cardinality({i \in DOMAIN s : c[s[i]] = 0}) <= Len(s)
<1>1. Len(s) \in Nat /\ DOMAIN s = 1..Len(s)
  BY LenProperties
<1> DEFINE B == 1..Len(s)
           A == {i \in DOMAIN s : c[s[i]] = 0}
<1>2. IsFiniteSet(B) /\ Cardinality(B) = Len(s)
  BY <1>1, FS_Interval
<1>3. A \in SUBSET B
  BY <1>1
<1>4. IsFiniteSet(A) /\ Cardinality(A) \in Nat /\ Cardinality(A) <= Len(s)
  <2> HIDE DEF A, B
  <2> QED BY <1>2, <1>3, CardLess
<1> QED BY <1>1, <1>4

LEMMA CountedEntries ==
  /\ entries \in Seq(Keys) =>
       /\ counted \in Nat /\ counted <= Len(entries)
       /\ req.op # "ListMultipartUploads" => counted = Len(entries)
  /\ entries' \in Seq(Keys) =>
       /\ counted' \in Nat /\ counted' <= Len(entries')
       /\ req'.op # "ListMultipartUploads" => counted' = Len(entries')
<1>1. entries \in Seq(Keys) =>
       /\ counted \in Nat /\ counted <= Len(entries)
       /\ req.op # "ListMultipartUploads" => counted = Len(entries)
  <2> SUFFICES ASSUME entries \in Seq(Keys)
               PROVE  /\ counted \in Nat /\ counted <= Len(entries)
                      /\ req.op # "ListMultipartUploads" => counted = Len(entries)
    OBVIOUS
  <2> DEFINE n == Cardinality({i \in DOMAIN entries : req.common[entries[i]] = 0})
  <2>1. Len(entries) \in Nat /\ n \in Nat /\ n <= Len(entries)
    BY SomeEntries
  <2>2. counted = IF req.op = "ListMultipartUploads" THEN n ELSE Len(entries)
    BY DEF counted, check_common_prefix
  <2> HIDE DEF n
  <2> QED BY <2>1, <2>2
<1>2. entries' \in Seq(Keys) =>
       /\ counted' \in Nat /\ counted' <= Len(entries')
       /\ req'.op # "ListMultipartUploads" => counted' = Len(entries')
  <2> SUFFICES ASSUME entries' \in Seq(Keys)
               PROVE  /\ counted' \in Nat /\ counted' <= Len(entries')
                      /\ req'.op # "ListMultipartUploads" => counted' = Len(entries')
    OBVIOUS
  <2> DEFINE n == Cardinality({i \in DOMAIN entries' : req'.common[entries'[i]] = 0})
  <2>1. Len(entries') \in Nat /\ n \in Nat /\ n <= Len(entries')
    BY SomeEntries
  <2>2. counted' = IF req'.op = "ListMultipartUploads" THEN n ELSE Len(entries')
    BY DEF counted, check_common_prefix
  <2> HIDE DEF n
  <2> QED BY <2>1, <2>2
<1> QED BY <1>1, <1>2

\* An entry more counts for at most one.
LEMMA CountedAppend ==
  ASSUME Sized, NEW k \in Keys, entries' = Append(entries, k), req' = req
  PROVE  counted' <= counted + 1
<1>1. entries \in Seq(Keys) /\ Len(entries) \in Nat /\ DOMAIN entries = 1..Len(entries)
  BY LenProperties DEF Sized
<1>2. /\ entries' \in Seq(Keys) /\ Len(entries') = Len(entries) + 1
      /\ DOMAIN entries' = 1..(Len(entries) + 1)
      /\ \A i \in 1..Len(entries) : entries'[i] = entries[i]
  BY <1>1, AppendProperties
<1>3. CASE req.op = "ListMultipartUploads"
  <2> DEFINE A == {i \in DOMAIN entries : check_common_prefix(entries[i]) = 0}
             B == {i \in DOMAIN entries' : check_common_prefix(entries'[i]) = 0}
             C == A \cup {Len(entries) + 1}
  <2>1. counted = Cardinality(A) /\ counted' = Cardinality(B)
    BY <1>3 DEF counted, check_common_prefix
  <2>2. B \in SUBSET C
    <3> SUFFICES ASSUME NEW i \in B PROVE i \in C
      OBVIOUS
    <3>1. i \in 1..Len(entries) \/ i = Len(entries) + 1
      BY <1>1, <1>2
    <3> QED BY <1>1, <1>2, <3>1
  <2>3. IsFiniteSet(A) /\ Cardinality(A) \in Nat
    BY <1>1, SomeEntries DEF check_common_prefix
  <2>4. IsFiniteSet(C) /\ Cardinality(C) <= Cardinality(A) + 1
    <3> HIDE DEF A
    <3>1. IsFiniteSet(C) /\ Cardinality(C) \in {Cardinality(A), Cardinality(A) + 1}
      BY <2>3, FS_AddElement
    <3> HIDE DEF C
    <3> QED BY <2>3, <3>1
  <2> HIDE DEF A, B, C
  <2>5. Cardinality(B) <= Cardinality(C) /\ Cardinality(B) \in Nat /\ Cardinality(C) \in Nat
    BY <2>2, <2>4, CardLess
  <2> QED BY <2>1, <2>3, <2>4, <2>5
<1>4. CASE req.op # "ListMultipartUploads"
  BY <1>1, <1>2, <1>4 DEF counted
<1> QED BY <1>3, <1>4

LEMMA SizeInit == Init => SizeInv
<1> SUFFICES ASSUME Init PROVE SizeInv
  OBVIOUS
<1>1. entries = <<>> /\ listing = <<>> /\ phase = "ask" /\ pages = 0 /\ req \in Requests
  BY DEF Init
<1>2. /\ entries \in Seq(Keys) /\ listing \in Seq([name : Keys, key : Keys])
      /\ Len(entries) = 0 /\ DOMAIN entries = {} /\ DOMAIN listing = {}
  BY <1>1, NoEntries, Zenon
<1>4. Sized
  BY <1>1, <1>2, ListingsAssumption DEF Sized
<1>5. counted = 0
  BY <1>2, CountedEntries
<1>6. TypeOK
  <2>1. /\ present \subseteq Keys /\ begun \subseteq Keys /\ added \subseteq Keys
        /\ removed \subseteq Keys /\ known \subseteq Keys /\ markerhit \in BOOLEAN
    BY Zenon DEF Init
  <2>2. /\ changes \in 0..MaxChanges /\ token \in 0..N /\ pages \in 0..MaxPages
        /\ pos \in 1..(N + 1) /\ count \in 0..N /\ nextindex \in 0..N /\ nextmarker \in 0..N
        /\ commonprefix \in 0..N
    BY ListingsAssumption DEF Init
  <2>3. /\ \A i \in DOMAIN listing : listing[i].name \in Keys /\ listing[i].key \in Keys
        /\ \A i \in DOMAIN entries : entries[i] \in Keys
    BY <1>2
  <2>4. req.max >= 0 => counted <= req.max
    BY <1>5
  <2> QED BY <1>1, <2>1, <2>2, <2>3, <2>4 DEF TypeOK
<1>7. Walked
  BY <1>1 DEF Walked
<1> QED BY <1>4, <1>6, <1>7 DEF SizeInv

\* A step that leaves the entries of the page and the listing alone.
LEMMA PageSame ==
  ASSUME SizeInv, UNCHANGED <<entries, listing, pages, req>>,
         phase' \in {"ask", "walk", "fill", "status", "answer"} =>
           phase \in {"ask", "walk", "fill", "status", "answer"},
         phase' = "status" => pos' <= Len(entries) + 1 /\ req.op # "ListMultipartUploads"
  PROVE  Sized' /\ counted' = counted
BY DEF SizeInv, Sized, counted, check_common_prefix

LEMMA StartSize == ASSUME SizeInv, Start_walk PROVE SizeInv'
<1>1. /\ phase = "ask" /\ req.op \in Walking /\ phase' = "walk" /\ pos' = 1
      /\ known' = {k \in present : Dir[k] = Top} /\ entries' = <<>> /\ count' = 0
      /\ markerhit' = FALSE /\ commonprefix' = 0 /\ nextindex' = 0 /\ nextmarker' = 0
      /\ UNCHANGED <<present, changes, begun, added, removed, req, token, listing, pages>>
  BY DEF Start_walk, bucket, client
<1>2. entries' \in Seq(Keys) /\ Len(entries') = 0 /\ DOMAIN entries' = {}
  BY <1>1, NoEntries, Zenon
<1>3. Sized'
  BY <1>1, <1>2, ListingsAssumption DEF SizeInv, Sized
<1>4. counted' = 0
  <2>1. counted' \in Nat /\ counted' <= Len(entries')
    BY <1>2, CountedEntries
  <2> QED BY <1>2, <2>1
<1>5. TypeOK'
  <2>1. known' \subseteq Keys /\ markerhit' \in BOOLEAN
    BY <1>1 DEF SizeInv, TypeOK
  <2>2. /\ pos' \in 1..(N + 1) /\ count' \in 0..N /\ nextindex' \in 0..N /\ nextmarker' \in 0..N
        /\ commonprefix' \in 0..N
    BY <1>1, ListingsAssumption
  <2>3. \A i \in DOMAIN entries' : entries'[i] \in Keys
    BY <1>2
  <2>4. req'.max >= 0 => counted' <= req'.max
    BY <1>4
  <2> QED BY <1>1, <2>1, <2>2, <2>3, <2>4 DEF SizeInv, TypeOK
<1>6. Walked'
  BY <1>1, <1>2 DEF Walked
<1> QED BY <1>3, <1>5, <1>6 DEF SizeInv

\* What a visit of the walk does, whatever follows.
LEMMA ReadDir == ASSUME SizeInv PROVE read_dir \subseteq Keys
BY DEF SizeInv, TypeOK, read_dir

LEMMA WalkHere ==
  ASSUME SizeInv, phase = "walk", pos <= N
  PROVE  /\ pos \in Keys /\ pos + 1 \in 1..(N + 1) /\ pos \in Nat
         /\ check_common_prefix(pos) \in 0..N
         /\ count \in Nat /\ count < pos /\ Len(entries) \in Nat /\ Len(entries) <= count
         /\ nextindex = 0 /\ nextmarker = 0 /\ req.op \in Walking /\ req \in Requests
         /\ commonprefix # 0 => \E j \in Keys : j < pos /\ check_common_prefix(j) = commonprefix
         /\ markerhit => marker # 0 /\ marker < pos
         /\ marker \in 0..N
<1>1. pos \in 1..(N + 1) /\ count \in 0..N /\ req \in Requests /\ entries \in Seq(Keys) /\ token \in 0..N
  BY DEF SizeInv, TypeOK, Sized
<1>2. pos \in Keys /\ pos + 1 \in 1..(N + 1) /\ pos \in Nat /\ count \in Nat
  BY <1>1, ListingsAssumption DEF Keys
<1>3. check_common_prefix(pos) \in 0..N
  BY <1>1, <1>2, RequestType DEF check_common_prefix
<1>4. marker \in 0..N
  BY <1>1, RequestType, ListingsAssumption DEF marker, Keys
<1> QED BY <1>1, <1>2, <1>3, <1>4, LenProperties DEF SizeInv, Walked

LEMMA SkipSize == ASSUME SizeInv, Visit_skip PROVE SizeInv'
<1>1. /\ phase = "walk" /\ pos <= N /\ pos' = pos + 1 /\ known' = read_dir
      /\ UNCHANGED <<present, changes, begun, added, removed, req, token, listing, pages, phase,
                     entries, count, markerhit, commonprefix, nextindex, nextmarker>>
  BY DEF Visit_skip, bucket, client
<1>2. Sized' /\ counted' = counted
  BY <1>1, PageSame
<1>3. TypeOK'
  BY <1>1, <1>2, WalkHere, ReadDir DEF SizeInv, TypeOK
<1>4. Walked'
  <2>1. /\ count < pos + 1
        /\ commonprefix # 0 => \E j \in Keys : j < pos + 1 /\ check_common_prefix(j) = commonprefix
        /\ markerhit => marker # 0 /\ marker < pos + 1
    BY <1>1, WalkHere DEF Keys
  <2> QED BY <1>1, <2>1, WalkHere DEF Walked, check_common_prefix, marker
<1> QED BY <1>2, <1>3, <1>4 DEF SizeInv

LEMMA MetSize ==
  ASSUME SizeInv, Met, UNCHANGED <<bucket, client>>, UNCHANGED phase \/ phase' = "fill",
         Sized', counted <= req.max => counted' <= req.max,
         nextindex' \in {nextindex, count}, nextmarker' \in {nextmarker, pos},
         phase' = "walk" => UNCHANGED <<nextindex, nextmarker>> /\ Len(entries') <= Len(entries) + 1
  PROVE  SizeInv'
<1>1. /\ phase = "walk" /\ pos <= N /\ pos' = pos + 1 /\ known' = read_dir /\ count' = count + 1
      /\ markerhit' = (markerhit \/ (marker # 0 /\ marker = pos))
      /\ commonprefix' = IF check_common_prefix(pos) # 0 THEN check_common_prefix(pos)
                         ELSE commonprefix
      /\ UNCHANGED <<present, changes, begun, added, removed, req, token, listing, pages>>
  BY DEF Met, bucket, client
<1>2. /\ pos' \in 1..(N + 1) /\ count' \in 0..N /\ commonprefix' \in 0..N
      /\ nextindex' \in 0..N /\ nextmarker' \in 0..N
  BY <1>1, WalkHere, ListingsAssumption DEF SizeInv, TypeOK
<1>3. known' \subseteq Keys /\ markerhit' \in BOOLEAN
  BY <1>1, ReadDir
<1>4. TypeOK'
  <2>1. \A i \in DOMAIN entries' : entries'[i] \in Keys
    <3>1. entries' \in Seq(Keys)
      BY DEF Sized
    <3> QED BY <3>1
  <2>2. req'.max >= 0 => counted' <= req'.max
    BY <1>1 DEF SizeInv, TypeOK
  <2>3. phase' \in {"walk", "fill"}
    BY <1>1
  <2> QED BY <1>1, <1>2, <1>3, <2>1, <2>2, <2>3 DEF SizeInv, TypeOK
<1>5. Walked'
  <2> SUFFICES ASSUME phase' = "walk" PROVE Walked'
    BY DEF Walked
  <2>1. count' < pos' /\ Len(entries') <= count'
    <3>1. Len(entries') \in Nat
      BY LenProperties DEF Sized
    <3> QED BY <1>1, <3>1, WalkHere
  <2>2. commonprefix' # 0 => \E j \in Keys : j < pos' /\ check_common_prefix(j) = commonprefix'
    BY <1>1, WalkHere DEF Keys
  <2>3. markerhit' => marker # 0 /\ marker < pos'
    <3>1. markerhit' => markerhit \/ (marker # 0 /\ marker = pos)
      BY <1>1
    <3>2. (markerhit => marker # 0 /\ marker < pos) /\ marker \in 0..N /\ pos \in Nat
      BY <1>1, WalkHere
    <3>3. marker <= pos /\ marker # 0 => marker < pos' /\ marker # 0
      BY <1>1, <3>2, ListingsAssumption
    <3>4. markerhit' => marker <= pos /\ marker # 0
      BY <3>1, <3>2, ListingsAssumption
    <3> QED BY <3>3, <3>4
  <2> QED BY <1>1, <2>1, <2>2, <2>3, WalkHere DEF Walked, check_common_prefix, marker
<1> QED BY <1>4, <1>5 DEF SizeInv

LEMMA VisitSize ==
  ASSUME SizeInv, Visit_early \/ Visit_entry \/ Visit_full PROVE SizeInv'
<1>1. Met /\ UNCHANGED <<bucket, client>> /\ phase = "walk" /\ pos <= N /\ UNCHANGED <<req, listing, pages>>
  BY DEF Visit_early, Visit_entry, Visit_full, Met, client
<1>2. CASE Visit_early \/ Visit_full \/ (Visit_entry /\ entries' = entries)
  <2>1. UNCHANGED entries /\ phase' \in {"walk", "fill"}
        /\ (phase' = phase \/ phase' = "fill")
        /\ nextindex' \in {nextindex, count} /\ nextmarker' \in {nextmarker, pos}
        /\ (phase' = "walk" => UNCHANGED <<nextindex, nextmarker>>)
    BY <1>1, <1>2 DEF Visit_early, Visit_full, Visit_entry
  <2>2. Sized' /\ counted' = counted
    BY <1>1, <2>1, PageSame
  <2>3. Len(entries') <= Len(entries) + 1
    BY <1>1, <2>1, WalkHere
  <2> QED BY <1>1, <2>1, <2>2, <2>3, MetSize
<1>3. CASE Visit_entry /\ entries' # entries
  <2>1. /\ entries' = Append(entries, pos) /\ counted < req.max
        /\ UNCHANGED <<phase, nextindex, nextmarker>>
    BY <1>3 DEF Visit_entry
  <2>2. entries \in Seq(Keys)
    BY DEF SizeInv, Sized
  <2>3. entries' \in Seq(Keys) /\ Len(entries') = Len(entries) + 1
    BY <1>1, <2>1, <2>2, WalkHere, AppendProperties
  <2>4. Sized'
    <3>1. Len(entries') <= N
      BY <1>1, <2>3, WalkHere, ListingsAssumption
    <3> QED BY <1>1, <2>1, <2>3, <3>1 DEF SizeInv, Sized
  <2>5. counted' <= req.max
    <3>1. counted' <= counted + 1
      BY <1>1, <2>1, WalkHere, CountedAppend DEF SizeInv
    <3>2. counted' \in Nat /\ counted \in Nat /\ req.max \in Int
      BY <1>1, <2>2, <2>3, WalkHere, CountedEntries, RequestType
    <3> QED BY <2>1, <3>1, <3>2
  <2>6. Len(entries') <= Len(entries) + 1
    BY <1>1, <2>3, WalkHere
  <2> QED BY <1>1, <2>1, <2>4, <2>5, <2>6, MetSize
<1> QED BY <1>1, <1>2, <1>3 DEF Visit_early, Visit_entry, Visit_full

LEMMA WalkEndsSize == ASSUME SizeInv, Walk_ends PROVE SizeInv'
<1>1. /\ phase = "walk" /\ phase' = "fill"
      /\ UNCHANGED <<present, changes, begun, added, removed, req, token, listing, pages, entries,
                     pos, known, count, markerhit, commonprefix, nextindex, nextmarker>>
  BY DEF Walk_ends, bucket, client, walk
<1>2. Sized' /\ counted' = counted
  BY <1>1, PageSame
<1>3. TypeOK' /\ Walked'
  BY <1>1, <1>2 DEF SizeInv, TypeOK, Walked
<1> QED BY <1>2, <1>3 DEF SizeInv
-----------------------------------------------------------------------------
\* The page of ListBuckets: keys from number token + 1 to number e.
BucketSlice(e) ==
  LET S == present \cap req.match
  IN /\ e \in Nat /\ token <= e /\ e <= Cardinality(S) /\ e - token <= req.max
     /\ e = token => req.max = 0
     /\ Len(entries') = e - token
     /\ \A i \in 1..(e - token) : entries'[i] = Ordered(S)[token + i]
     /\ nextindex' = IF e < Cardinality(S) THEN e ELSE 0

LEMMA BucketPage ==
  ASSUME SizeInv, List_buckets
  PROVE  /\ entries' \in Seq(Keys)
         /\ \/ /\ Cardinality(present \cap req.match) <= token
               /\ Len(entries') = 0 /\ nextindex' = 0
            \/ \E e \in Nat : BucketSlice(e)
<1> DEFINE S == present \cap req.match
           n == Cardinality(S)
           e == Min({token + req.max, n})
<1>1. req.op = "ListBuckets" /\ req \in Requests /\ token \in 0..N /\ S \in SUBSET Keys
  BY DEF List_buckets, SizeInv, TypeOK
<1>2. index = token /\ req.max \in Nat /\ token \in Nat
  BY <1>1, RequestType, ListingsAssumption DEF index
<1>3. Ordered(S) \in Seq(Keys) /\ Len(Ordered(S)) = n /\ n \in 0..N /\ n \in Nat
  BY <1>1, OrderedKeys, ListingsAssumption
<1>4. IF token < n
      THEN /\ entries' = SubSeq(Ordered(S), token + 1, e)
           /\ nextindex' = IF e < n THEN e ELSE 0
      ELSE entries' = <<>> /\ nextindex' = 0
  BY <1>2, <1>3, Zenon DEF List_buckets
<1>5. CASE ~ (token < n)
  <2>1. entries' \in Seq(Keys) /\ Len(entries') = 0 /\ nextindex' = 0
    BY <1>4, <1>5, NoEntries, Zenon
  <2>2. n <= token
    <3> HIDE DEF n
    <3> QED BY <1>2, <1>3, <1>5
  <2> QED BY <2>1, <2>2
<1>6. CASE token < n
  <2>1. e \in {token + req.max, n} /\ e <= token + req.max /\ e <= n
    <3> DEFINE a == token + req.max
    <3>1. a \in Int /\ n \in Int
      BY <1>2, <1>3
    <3> HIDE DEF a, n
    <3> QED BY <3>1, MinTwo DEF a
  <2> HIDE DEF e
  <2>2. e \in Nat /\ token <= e /\ e - token <= req.max /\ (e = token => req.max = 0) /\ e \in 0..n
    <3> HIDE DEF n
    <3> QED BY <1>2, <1>3, <1>6, <2>1
  <2>3. /\ entries' \in Seq(Keys) /\ Len(entries') = e - token
        /\ \A i \in 1..(e - token) : entries'[i] = Ordered(S)[token + i]
    <3> DEFINE o == Ordered(S)
    <3>1. entries' = SubSeq(o, token + 1, e) /\ o \in Seq(Keys) /\ Len(o) = n
      BY <1>3, <1>4, <1>6
    <3> HIDE DEF o, n
    <3>2. /\ entries' \in Seq(Keys) /\ Len(entries') = e - token
          /\ \A i \in 1..(e - token) : entries'[i] = o[token + i]
      BY <1>2, <1>3, <2>2, <3>1
    <3> QED BY <3>2 DEF o
  <2>4. BucketSlice(e)
    BY <1>4, <1>6, <2>1, <2>2, <2>3 DEF BucketSlice
  <2> QED BY <2>2, <2>3, <2>4
<1> QED BY <1>5, <1>6

\* The page of ListParts: the slots from a + 1 to b.
PartSlice(a, b, l) ==
  /\ l = Max({0} \cup present) /\ l \in 0..N /\ \A k \in present : k <= l
  /\ a \in 0..l /\ b \in a..l
  /\ a = IF token <= l THEN token ELSE l
  /\ req.max # -1 => b = IF token + req.max <= l THEN token + req.max ELSE l
  /\ req.max = -1 => b = l
  /\ entries' = [i \in 1..(b - a) |-> a + i]
  /\ nextindex' = IF req.max = -1 THEN 0 ELSE b

LEMMA PartPage ==
  ASSUME SizeInv, List_parts
  PROVE  \E a, b, l \in 0..N : PartSlice(a, b, l)
<1> DEFINE l == Max({0} \cup present)
           a == Min({token, l})
           b == IF req.max = -1 THEN l ELSE Min({token + req.max, l})
<1>1. req.op = "ListParts" /\ req \in Requests /\ token \in 0..N /\ {0} \cup present \in SUBSET (0..N)
  BY ListingsAssumption DEF List_parts, SizeInv, TypeOK, Keys
<1>2. index = token /\ req.max \in Int /\ (req.max = -1 \/ req.max >= 0)
  BY <1>1, RequestType DEF index
<1>3. l \in 0..N /\ \A k \in present : k <= l
  BY <1>1, MaxKey
<1>4. entries' = [i \in 1..(b - a) |-> a + i] /\ nextindex' = IF req.max = -1 THEN 0 ELSE b
  BY <1>2 DEF List_parts
<1> HIDE DEF l
<1>5. a = IF token <= l THEN token ELSE l
  <2>0. token \in Int /\ l \in Int
    BY <1>1, <1>3, ListingsAssumption
  <2>1. a \in {token, l} /\ a <= token /\ a <= l
    BY <2>0, MinTwo
  <2> HIDE DEF a
  <2> QED BY <1>1, <1>3, <2>1, ListingsAssumption
<1>6. req.max # -1 => b = IF token + req.max <= l THEN token + req.max ELSE l
  <2> SUFFICES ASSUME req.max # -1
               PROVE  b = IF token + req.max <= l THEN token + req.max ELSE l
    OBVIOUS
  <2> DEFINE m == token + req.max
             c == Min({m, l})
  <2>1. m \in Int /\ l \in Int
    BY <1>1, <1>2, <1>3, ListingsAssumption
  <2>2. b = c
    OBVIOUS
  <2> HIDE DEF m
  <2>3. c \in {m, l} /\ c <= m /\ c <= l
    BY <2>1, MinTwo
  <2> HIDE DEF b, c
  <2>4. b = IF m <= l THEN m ELSE l
    BY <2>1, <2>2, <2>3
  <2> QED BY <2>4 DEF m
<1>7. req.max = -1 => b = l
  OBVIOUS
<1> HIDE DEF a, b
<1>8. a \in 0..l /\ b \in a..l /\ a \in 0..N /\ b \in 0..N
  BY <1>1, <1>2, <1>3, <1>5, <1>6, <1>7, ListingsAssumption
<1>9. PartSlice(a, b, l)
  BY <1>3, <1>4, <1>5, <1>6, <1>7, <1>8 DEF PartSlice, l
<1> QED BY <1>3, <1>8, <1>9

LEMMA BucketsSize == ASSUME SizeInv, List_buckets PROVE SizeInv'
<1>1. /\ phase = "ask" /\ req.op = "ListBuckets" /\ phase' = "fill"
      /\ UNCHANGED <<present, changes, begun, added, removed, req, token, listing, pages,
                     pos, known, count, markerhit, commonprefix, nextmarker>>
  BY DEF List_buckets, bucket, client
<1>2. present \cap req.match \in SUBSET Keys /\ req.max \in Nat /\ token \in Nat
  BY <1>1, RequestType, ListingsAssumption DEF SizeInv, TypeOK
<1>3. /\ entries' \in Seq(Keys) /\ Len(entries') \in 0..N /\ Len(entries') <= req.max
      /\ nextindex' \in 0..N
  <2>1. entries' \in Seq(Keys)
    BY BucketPage
  <2>2. CASE Len(entries') = 0 /\ nextindex' = 0
    BY <1>2, <2>1, <2>2, ListingsAssumption
  <2>3. CASE \E e \in Nat : BucketSlice(e)
    <3>1. PICK e \in Nat : BucketSlice(e)
      BY <2>3
    <3>2. Cardinality(present \cap req.match) \in 0..N
      BY <1>2, OrderedKeys
    <3> DEFINE n == Cardinality(present \cap req.match)
    <3>3. /\ n \in 0..N /\ token <= e /\ e <= n /\ e - token <= req.max
          /\ Len(entries') = e - token /\ nextindex' = IF e < n THEN e ELSE 0
      BY <3>1, <3>2 DEF BucketSlice
    <3> HIDE DEF n
    <3> QED BY <1>2, <2>1, <3>3, ListingsAssumption
  <2> QED BY <2>2, <2>3, BucketPage
<1>4. Sized'
  BY <1>1, <1>3 DEF SizeInv, Sized
<1>5. counted' <= req.max
  BY <1>1, <1>3, CountedEntries
<1>6. TypeOK'
  <2>1. \A i \in DOMAIN entries' : entries'[i] \in Keys
    BY <1>3
  <2> QED BY <1>1, <1>3, <1>5, <2>1 DEF SizeInv, TypeOK
<1>7. Walked'
  BY <1>1 DEF Walked
<1> QED BY <1>4, <1>6, <1>7 DEF SizeInv

LEMMA PartsSize == ASSUME SizeInv, List_parts PROVE SizeInv'
<1>1. /\ phase = "ask" /\ req.op = "ListParts" /\ phase' = "answer"
      /\ UNCHANGED <<present, changes, begun, added, removed, req, token, listing, pages,
                     pos, known, count, markerhit, commonprefix, nextmarker>>
  BY DEF List_parts, bucket, client
<1>2. PICK a, b, l \in 0..N : PartSlice(a, b, l)
  BY PartPage
<1>3. req.max \in Int /\ (req.max = -1 \/ req.max >= 0) /\ token \in 0..N
  BY <1>1, RequestType DEF SizeInv, TypeOK
<1>4. a <= b /\ b <= N /\ a \in Nat /\ b \in Nat /\ b - a \in Nat /\ nextindex' \in 0..N
  BY <1>2, ListingsAssumption DEF PartSlice
<1>5. entries' \in Seq(Keys) /\ Len(entries') = b - a
  <2>1. entries' = [i \in 1..(b - a) |-> a + i]
    BY <1>2 DEF PartSlice
  <2>2. \A i \in 1..(b - a) : a + i \in Keys
    BY <1>4, ListingsAssumption DEF Keys
  <2> QED BY <1>4, <2>1, <2>2
<1>6. req.max >= 0 => b - a <= req.max
  BY <1>2, <1>3, <1>4, ListingsAssumption DEF PartSlice
<1>7. Len(entries') <= N
  BY <1>4, <1>5, ListingsAssumption
<1>8. Sized'
  BY <1>1, <1>5, <1>7 DEF SizeInv, Sized
<1>9. req.max >= 0 => counted' <= req.max
  BY <1>1, <1>5, <1>6, CountedEntries
<1>10. TypeOK'
  <2>1. \A i \in DOMAIN entries' : entries'[i] \in Keys
    BY <1>5
  <2> QED BY <1>1, <1>4, <1>9, <2>1 DEF SizeInv, TypeOK
<1>11. Walked'
  BY <1>1 DEF Walked
<1> QED BY <1>8, <1>10, <1>11 DEF SizeInv

LEMMA FillSize == ASSUME SizeInv, Fill_start \/ Fetched PROVE SizeInv'
<1>1. /\ phase \in {"fill", "status"} /\ phase' \in {"status", "answer"}
      /\ phase' = "status" => pos' = 1 /\ req.op # "ListMultipartUploads"
      /\ pos' \in {pos, 1}
      /\ UNCHANGED <<present, changes, begun, added, removed, req, token, listing, pages, entries,
                     known, count, markerhit, commonprefix, nextindex, nextmarker>>
  BY DEF Fill_start, Fetched, bucket, client, walk
<1>2. Len(entries) \in Nat
  BY LenProperties DEF SizeInv, Sized
<1>3. Sized' /\ counted' = counted
  <2>1. phase' = "status" => pos' <= Len(entries) + 1 /\ req.op # "ListMultipartUploads"
    BY <1>1, <1>2
  <2> QED BY <1>1, <2>1, PageSame
<1>4. TypeOK'
  <2>1. pos' \in 1..(N + 1)
    BY <1>1, ListingsAssumption DEF SizeInv, TypeOK
  <2>2. phase' \in {"ask", "walk", "fill", "status", "answer", "done", "tired"}
    BY <1>1
  <2> QED BY <1>1, <1>3, <2>1, <2>2 DEF SizeInv, TypeOK
<1>5. Walked'
  BY <1>1 DEF Walked
<1> QED BY <1>3, <1>4, <1>5 DEF SizeInv

\* An entry is taken from a sequence.
LEMMA Removed ==
  ASSUME NEW s \in Seq(Keys), NEW p \in 1..Len(s)
  PROVE  /\ RemoveAt(s, p) \in Seq(Keys) /\ Len(RemoveAt(s, p)) = Len(s) - 1
         /\ \A i \in 1..(Len(s) - 1) : RemoveAt(s, p)[i] = IF i < p THEN s[i] ELSE s[i + 1]
<1> DEFINE a == SubSeq(s, 1, p - 1)
           b == SubSeq(s, p + 1, Len(s))
           n == Len(s)
<1>1. n \in Nat /\ p \in 1..n
  BY LenProperties
<1>2. a \in Seq(Keys) /\ Len(a) = p - 1 /\ \A i \in 1..(p - 1) : a[i] = s[i]
  BY <1>1
<1>3. b \in Seq(Keys) /\ Len(b) = n - p /\ \A i \in 1..(n - p) : b[i] = s[p + i]
  BY <1>1
<1>4. RemoveAt(s, p) = a \o b
  BY DEF RemoveAt
<1> HIDE DEF a, b, n
<1>5. /\ a \o b \in Seq(Keys) /\ Len(a \o b) = Len(a) + Len(b)
      /\ \A i \in 1..(Len(a) + Len(b)) : (a \o b)[i] = IF i <= Len(a) THEN a[i] ELSE b[i - Len(a)]
  BY <1>2, <1>3, ConcatProperties
<1>6. Len(a) + Len(b) = n - 1
  BY <1>1, <1>2, <1>3
<1>7. ASSUME NEW i \in 1..(n - 1)
      PROVE  (a \o b)[i] = IF i < p THEN s[i] ELSE s[i + 1]
  <2>1. CASE i < p
    <3>1. i \in 1..(p - 1) /\ i <= Len(a)
      BY <1>1, <1>2, <2>1
    <3> QED BY <1>2, <1>5, <1>6, <2>1, <3>1
  <2>2. CASE ~ (i < p)
    <3>1. ~ (i <= Len(a)) /\ i - Len(a) \in 1..(n - p) /\ p + (i - Len(a)) = i + 1
      BY <1>1, <1>2, <2>2
    <3>2. b[i - Len(a)] = s[i + 1]
      BY <1>3, <3>1
    <3> QED BY <1>5, <1>6, <2>2, <3>1, <3>2
  <2> QED BY <2>1, <2>2
<1> QED BY <1>4, <1>5, <1>6, <1>7 DEF n

LEMMA FetchSize == ASSUME SizeInv, Fetch_status PROVE SizeInv'
<1>1. /\ phase = "status" /\ pos <= Len(entries)
      /\ UNCHANGED <<present, changes, begun, added, removed, req, token, listing, pages, phase,
                     known, count, markerhit, commonprefix, nextindex, nextmarker>>
      /\ \/ pos' = pos + 1 /\ entries' = entries
         \/ entries' = RemoveAt(entries, pos) /\ pos' = pos
  BY DEF Fetch_status, bucket, client
<1>2. /\ pos \in 1..(N + 1) /\ entries \in Seq(Keys) /\ Len(entries) \in Nat /\ Len(entries) <= N
      /\ req.op # "ListMultipartUploads" /\ req \in Requests
  BY <1>1, LenProperties DEF SizeInv, TypeOK, Sized
<1>3. pos \in 1..Len(entries)
  BY <1>1, <1>2
<1>4. /\ entries' \in Seq(Keys) /\ Len(entries') \in Nat /\ Len(entries') <= Len(entries)
      /\ pos' <= Len(entries') + 1 /\ pos' \in 1..(N + 1)
  <2>1. CASE pos' = pos + 1 /\ entries' = entries
    BY <1>2, <1>3, <2>1, ListingsAssumption
  <2>2. CASE entries' = RemoveAt(entries, pos) /\ pos' = pos
    <3>1. entries' \in Seq(Keys) /\ Len(entries') = Len(entries) - 1
      BY <1>2, <1>3, <2>2, Removed
    <3> QED BY <1>2, <1>3, <2>2, <3>1, ListingsAssumption
  <2> QED BY <1>1, <2>1, <2>2
<1>5. Sized'
  <2>1. Len(entries') <= N
    BY <1>2, <1>4, ListingsAssumption
  <2> QED BY <1>1, <1>2, <1>4, <2>1 DEF SizeInv, Sized
<1>6. req'.max >= 0 => counted' <= req'.max
  <2>1. counted = Len(entries) /\ counted' = Len(entries')
    BY <1>1, <1>2, <1>4, CountedEntries
  <2>2. req.max >= 0 => counted <= req.max
    BY DEF SizeInv, TypeOK
  <2>3. req.max \in Int
    BY <1>2, RequestType
  <2> QED BY <1>1, <1>2, <1>4, <2>1, <2>2, <2>3
<1>7. TypeOK'
  <2>1. \A i \in DOMAIN entries' : entries'[i] \in Keys
    BY <1>4
  <2> QED BY <1>1, <1>4, <1>6, <2>1 DEF SizeInv, TypeOK
<1>8. Walked'
  BY <1>1 DEF Walked
<1> QED BY <1>5, <1>7, <1>8 DEF SizeInv

\* What an answer adds to the listing.
LEMMA AnswerPage ==
  ASSUME SizeInv, Answer
  PROVE  /\ listing' \in Seq([name : Keys, key : Keys]) /\ Len(listing) \in Nat /\ Len(entries) \in Nat
         /\ Len(listing') = Len(listing) + Len(entries)
         /\ \A i \in 1..Len(listing) : listing'[i] = listing[i]
         /\ \A i \in 1..Len(entries) : listing'[Len(listing) + i].key = entries[i]
<1> DEFINE R == [name : Keys, key : Keys]
           more == [i \in DOMAIN entries |->
                      [name |-> IF req.op = "ListParts" THEN i ELSE entries[i], key |-> entries[i]]]
           m == Len(listing)
           n == Len(entries)
<1>1. listing \in Seq(R) /\ entries \in Seq(Keys) /\ n <= N
  BY DEF SizeInv, Sized
<1>2. m \in Nat /\ n \in Nat /\ DOMAIN entries = 1..n
  BY <1>1, LenProperties
<1>3. \A i \in 1..n : i \in Keys /\ entries[i] \in Keys
  BY <1>1, <1>2, ListingsAssumption DEF Keys
<1>4. more \in Seq(R) /\ Len(more) = n /\ \A i \in 1..n : more[i].key = entries[i]
  <2>1. \A i \in 1..n : more[i] \in R /\ more[i].key = entries[i]
    BY <1>2, <1>3
  <2>2. more = [i \in 1..n |-> more[i]]
    BY <1>2
  <2> HIDE DEF more, n, R
  <2> QED BY <1>2, <2>1, <2>2
<1>5. listing' = listing \o more
  BY DEF Answer
<1> HIDE DEF more, R, n, m
<1>6. /\ listing' \in Seq(R) /\ Len(listing') = m + n
      /\ \A i \in 1..(m + n) : listing'[i] = IF i <= m THEN listing[i] ELSE more[i - m]
  BY <1>1, <1>4, <1>5, ConcatProperties DEF m
<1>7. \A i \in 1..m : listing'[i] = listing[i]
  BY <1>2, <1>6
<1>9. \A j \in 1..(m + n) : ~ (j <= m) => listing'[j] = more[j - m]
  BY <1>6
<1>8. ASSUME NEW i \in 1..n PROVE listing'[m + i].key = entries[i]
  <2>1. m + i \in 1..(m + n) /\ ~ (m + i <= m) /\ m + i - m = i
    BY <1>2
  <2>2. PICK j \in 1..(m + n) : j = m + i
    BY <2>1
  <2>3. listing'[j] = more[j - m] /\ j - m = i
    BY <1>2, <1>9, <2>1, <2>2
  <2> QED BY <1>4, <2>2, <2>3
<1> QED BY <1>2, <1>6, <1>7, <1>8 DEF R, m, n

LEMMA AnswerSize == ASSUME SizeInv, Answer PROVE SizeInv'
<1>1. /\ phase = "answer" /\ pages' = pages + 1 /\ token' \in {nextmarker, nextindex}
      /\ phase' \in {"done", "ask", "tired"} /\ (phase' = "ask" => pages' < MaxPages)
      /\ UNCHANGED <<present, changes, begun, added, removed, req, entries, pos, known, count,
                     markerhit, commonprefix, nextindex, nextmarker>>
  BY DEF Answer, bucket, walk
<1>2. listing' \in Seq([name : Keys, key : Keys])
  BY AnswerPage
<1>3. Sized'
  BY <1>1, <1>2 DEF SizeInv, Sized
<1>4. counted' = counted
  BY <1>1 DEF counted, check_common_prefix
<1>5. pages' \in 0..MaxPages
  BY <1>1, ListingsAssumption DEF SizeInv, TypeOK, Sized
<1>6. \A i \in DOMAIN listing' : listing'[i].name \in Keys /\ listing'[i].key \in Keys
  <2> SUFFICES ASSUME NEW i \in DOMAIN listing' PROVE listing'[i] \in [name : Keys, key : Keys]
    OBVIOUS
  <2>1. i \in 1..Len(listing')
    BY <1>2, LenProperties
  <2> QED BY <1>2, <2>1, ElementOfSeq
<1>7. TypeOK'
  <2>1. phase' \in {"ask", "walk", "fill", "status", "answer", "done", "tired"} /\ token' \in 0..N
    BY <1>1 DEF SizeInv, TypeOK
  <2> QED BY <1>1, <1>4, <1>5, <1>6, <2>1 DEF SizeInv, TypeOK
<1>8. Walked'
  BY <1>1 DEF Walked
<1> QED BY <1>3, <1>7, <1>8 DEF SizeInv

LEMMA ChangeSize == ASSUME SizeInv, NEW k \in Keys, Change(k) PROVE SizeInv'
<1>1. /\ changes < MaxChanges /\ changes' = changes + 1
      /\ present' \in {present \ {k}, present \cup {k}} /\ removed' \in {removed, removed \cup {k}}
      /\ added' \in {added, added \cup {k}}
      /\ UNCHANGED <<begun, req, token, listing, pages, phase, entries, pos, known, count,
                     markerhit, commonprefix, nextindex, nextmarker>>
  BY DEF Change, client, walk
<1>2. Sized' /\ counted' = counted
  BY <1>1, PageSame DEF SizeInv, Sized
<1>3. TypeOK'
  <2>1. present' \subseteq Keys /\ removed' \subseteq Keys /\ added' \subseteq Keys
    BY <1>1 DEF SizeInv, TypeOK
  <2>2. changes' \in 0..MaxChanges
    BY <1>1, ListingsAssumption DEF SizeInv, TypeOK
  <2> QED BY <1>1, <1>2, <2>1, <2>2 DEF SizeInv, TypeOK
<1>4. Walked'
  BY <1>1 DEF SizeInv, Walked, check_common_prefix, marker
<1> QED BY <1>2, <1>3, <1>4 DEF SizeInv

LEMMA SameSize == ASSUME SizeInv, UNCHANGED vars PROVE SizeInv'
<1>1. UNCHANGED <<present, changes, begun, added, removed, req, token, listing, pages, phase,
                  entries, pos, known, count, markerhit, commonprefix, nextindex, nextmarker>>
  BY DEF vars, bucket, client, walk
<1>2. Sized' /\ counted' = counted
  BY <1>1, PageSame DEF SizeInv, Sized
<1>3. TypeOK' /\ Walked'
  BY <1>1, <1>2 DEF SizeInv, TypeOK, Walked, check_common_prefix, marker
<1> QED BY <1>2, <1>3 DEF SizeInv

LEMMA SizeStep == SizeInv /\ [Next]_vars => SizeInv'
<1> SUFFICES ASSUME SizeInv, [Next]_vars PROVE SizeInv'
  OBVIOUS
<1>1. CASE Start_walk
  BY <1>1, StartSize
<1>2. CASE Visit_skip
  BY <1>2, SkipSize
<1>3. CASE Visit_early \/ Visit_entry \/ Visit_full
  BY <1>3, VisitSize
<1>4. CASE Walk_ends
  BY <1>4, WalkEndsSize
<1>5. CASE List_buckets
  BY <1>5, BucketsSize
<1>6. CASE List_parts
  BY <1>6, PartsSize
<1>7. CASE Fill_start \/ Fetched
  BY <1>7, FillSize
<1>8. CASE Fetch_status
  BY <1>8, FetchSize
<1>9. CASE Answer
  BY <1>9, AnswerSize
<1>10. CASE \E k \in Keys : Change(k)
  BY <1>10, ChangeSize
<1>11. CASE UNCHANGED vars
  BY <1>11, SameSize
<1> QED
  BY <1>1, <1>2, <1>3, <1>4, <1>5, <1>6, <1>7, <1>8, <1>9, <1>10, <1>11 DEF Next, Serve, Ended

LEMMA SizeInvariant == Spec => []SizeInv
BY SizeInit, SizeStep, PTL DEF Spec

\* Every variable keeps its type, tokens, counters and positions stay within
\* the number of keys, and no page has more entries than were asked for
\* (ListMultipartUploads not counting common prefixes), for every order of
\* visits, reads and changes by others.
THEOREM TypeCorrect == Spec => []TypeOK
<1>1. SizeInv => TypeOK
  BY DEF SizeInv
<1> QED BY <1>1, SizeInvariant, PTL
-----------------------------------------------------------------------------
\* Common prefixes of keys that lie together.
Adjoining(c) == c \in [Keys -> 0..N] /\ together(c)

LEMMA SettledApart ==
  ASSUME NEW c, NEW l \in Int, NEW p \in Int, NEW k \in Keys, settled(c, l, p), p <= k
  PROVE  apart(c, l, k)
<1>1. k \in p..N /\ l < k
  BY ListingsAssumption DEF settled, Keys
<1>2. together(c) => c[k] # c[l] \/ c[l] = 0
  BY <1>1 DEF settled
<1> QED BY <1>1, <1>2 DEF apart

LEMMA SettledLater ==
  ASSUME NEW c, NEW l \in Int, NEW p \in Int, NEW q \in Int, settled(c, l, p), p <= q
  PROVE  settled(c, l, q)
<1>1. l < q /\ \A k \in q..N : k \in p..N
  BY ListingsAssumption DEF settled
<1>2. together(c) => \A k \in p..N : c[k] # c[l] \/ c[l] = 0
  BY DEF settled
<1> QED BY <1>1, <1>2 DEF settled

\* A key with another common prefix than key e before it settles e.
LEMMA OtherSettles ==
  ASSUME NEW c, NEW e \in Keys, NEW p \in Keys, e < p, c[p] # c[e] \/ c[e] = 0
  PROVE  settled(c, e, p)
<1> SUFFICES ASSUME together(c), NEW k \in p..N, c[k] = c[e], c[e] # 0 PROVE FALSE
  BY DEF settled
<1>1. k \in Keys /\ (k = p \/ p < k)
  BY ListingsAssumption DEF Keys
<1>2. CASE k = p
  BY <1>2
<1>3. CASE p < k
  BY <1>1, <1>3 DEF together
<1> QED BY <1>1, <1>2, <1>3

LEMMA ClassType ==
  ASSUME NEW c, Adjoining(c), NEW k \in Keys
  PROVE  /\ class(c, k) \in (-N)..N /\ class(c, k) # 0
         /\ c[k] \in 0..N
         /\ c[k] = 0 => class(c, k) = k
         /\ c[k] # 0 => class(c, k) = - c[k]
<1>1. c[k] \in 0..N
  BY DEF Adjoining
<1>2. CASE c[k] = 0
  BY <1>2, ListingsAssumption DEF class, Keys
<1>3. CASE c[k] # 0
  BY <1>1, <1>3, ListingsAssumption DEF class, Keys
<1> QED BY <1>1, <1>2, <1>3

\* Keys have the same class only when they have the same common prefix.
LEMMA SameClass ==
  ASSUME NEW c, Adjoining(c), NEW k \in Keys, NEW l \in Keys, class(c, k) = class(c, l)
  PROVE  k = l \/ (c[k] # 0 /\ c[k] = c[l])
<1>1. k \in Int /\ l \in Int /\ k >= 1 /\ l >= 1
  BY ListingsAssumption DEF Keys
<1>2. PICK x \in 0..N : x = c[k]
  BY ClassType
<1>3. PICK y \in 0..N : y = c[l]
  BY ClassType
<1>4. class(c, k) = IF x = 0 THEN k ELSE - x
  BY <1>2, ClassType
<1>5. class(c, l) = IF y = 0 THEN l ELSE - y
  BY <1>3, ClassType
<1>6. (IF x = 0 THEN k ELSE - x) = (IF y = 0 THEN l ELSE - y)
  BY <1>4, <1>5
<1>7. k = l \/ (x # 0 /\ x = y)
  BY <1>1, <1>6, ListingsAssumption
<1> QED BY <1>2, <1>3, <1>7

LEMMA ClassSets ==
  ASSUME NEW c, Adjoining(c), NEW S \in SUBSET Keys, NEW a \in Int, NEW b \in Int
  PROVE  /\ classes(c, S, a, b) \in SUBSET ((-N)..N) /\ IsFiniteSet(classes(c, S, a, b))
         /\ Cardinality(classes(c, S, a, b)) \in Nat
<1>1. classes(c, S, a, b) \in SUBSET ((-N)..N)
  BY ClassType DEF classes
<1>2. IsFiniteSet((-N)..N)
  BY FS_Interval, ListingsAssumption
<1> QED BY <1>1, <1>2, CardLess

LEMMA ClassMember ==
  ASSUME NEW c, NEW S, NEW a, NEW b, NEW k \in S, a <= k, k < b
  PROVE  class(c, k) \in classes(c, S, a, b)
BY DEF classes

LEMMA ClassOf ==
  ASSUME NEW c, NEW S, NEW a, NEW b, NEW x \in classes(c, S, a, b)
  PROVE  \E k \in S : a <= k /\ k < b /\ x = class(c, k)
BY DEF classes

\* Fewer keys, or a smaller range of them, have no more classes.
LEMMA ClassLess ==
  ASSUME NEW c, NEW S \in SUBSET Keys, NEW T \in SUBSET S, NEW a \in Int, NEW b \in Int,
         NEW d \in Int, NEW e \in Int, a <= d, e <= b
  PROVE  classes(c, T, d, e) \in SUBSET classes(c, S, a, b)
<1> SUFFICES ASSUME NEW x \in classes(c, T, d, e) PROVE x \in classes(c, S, a, b)
  OBVIOUS
<1>1. PICK k \in T : d <= k /\ k < e /\ x = class(c, k)
  BY ClassOf
<1>2. k \in S /\ a <= k /\ k < b
  BY <1>1 DEF Keys
<1> QED BY <1>1, <1>2, ClassMember

LEMMA ClassHere ==
  ASSUME NEW c, Adjoining(c), NEW S \in SUBSET Keys, NEW p \in S, NEW q \in Int, p < q,
         NEW f \in 0..N, c[p] = 0 \/ c[p] # f
  PROVE  class(c, p) \in ahead(c, S, f, p, q)
<1>1. p \in Keys /\ p \in Int /\ f \in Int /\ p > 0 /\ p <= p
  <2>1. p \in Keys
    OBVIOUS
  <2>2. p \in Int /\ p > 0
    BY <2>1, ListingsAssumption DEF Keys
  <2> QED BY <2>1, <2>2, ListingsAssumption
<1>2. class(c, p) \in classes(c, S, p, q)
  BY <1>1, ClassMember
<1>3. class(c, p) # - f
  BY <1>1, ClassType, ListingsAssumption
<1> QED BY <1>2, <1>3 DEF ahead

\* Key p is met after common prefix f was: its class is new from p on.
LEMMA ClassMet ==
  ASSUME NEW c, Adjoining(c), NEW S \in SUBSET Keys, NEW p \in S, NEW q \in 1..(N + 1), p < q,
         NEW f \in 0..N, c[p] = 0 \/ c[p] # f,
         NEW j, f # 0 => j \in Keys /\ j < p /\ c[j] = f,
         NEW g, g = IF c[p] # 0 THEN c[p] ELSE f
  PROVE  /\ class(c, p) \in ahead(c, S, f, p, q)
         /\ class(c, p) \notin ahead(c, S, g, p + 1, q)
         /\ ahead(c, S, g, p + 1, q) \in SUBSET ahead(c, S, f, p, q)
<1>1. p \in Keys /\ p \in Int /\ q \in Int /\ f \in Int /\ g \in 0..N /\ p > 0
  <2>1. p \in Keys
    OBVIOUS
  <2>2. p \in Int /\ p > 0 /\ q \in Int /\ f \in Int
    BY <2>1, ListingsAssumption DEF Keys
  <2>3. c[p] \in 0..N
    BY <2>1, ClassType
  <2> QED BY <2>1, <2>2, <2>3
<1>2. class(c, p) \in ahead(c, S, f, p, q)
  BY <1>1, ClassHere
<1>4. ASSUME class(c, p) \in classes(c, S, p + 1, q), class(c, p) # - g PROVE FALSE
  <2>1. PICK k \in S : p + 1 <= k /\ k < q /\ class(c, p) = class(c, k)
    BY <1>4, ClassOf
  <2>2. c[p] = 0 /\ class(c, p) = p
    BY <1>1, <1>4, ClassType
  <2>3. k \in Keys /\ k \in Int /\ k # p /\ c[k] \in 0..N
    BY <1>1, <2>1, ClassType DEF Keys
  <2>4. CASE c[k] = 0
    <3>1. class(c, k) = k
      BY <2>3, <2>4, ClassType
    <3> QED BY <2>1, <2>2, <2>3, <3>1
  <2>5. CASE c[k] # 0
    <3>1. class(c, k) = - c[k]
      BY <2>3, <2>5, ClassType
    <3>2. PICK y \in 0..N : y = c[k]
      BY <2>3
    <3>3. p = - y
      BY <2>1, <2>2, <3>1, <3>2
    <3> QED BY <1>1, <3>2, <3>3, ListingsAssumption
  <2> QED BY <2>4, <2>5
<1>5. ASSUME NEW x \in classes(c, S, p + 1, q) \ {- g} PROVE x \in classes(c, S, p, q) \ {- f}
  <2>1. classes(c, S, p + 1, q) \in SUBSET classes(c, S, p, q)
    BY <1>1, ClassLess
  <2>2. PICK k \in S : p + 1 <= k /\ k < q /\ x = class(c, k)
    BY <1>5, ClassOf
  <2>3. k \in Keys /\ k \in Int /\ p < k /\ c[k] \in 0..N /\ c[p] \in 0..N
    BY <1>1, <2>2, ClassType DEF Keys
  <2>4. ASSUME x = - f PROVE FALSE
    <3>1. g # f /\ c[p] # 0 /\ g = c[p]
      BY <1>5, <2>4
    <3>2. c[k] # 0 /\ c[k] = f
      <4>1. CASE c[k] = 0
        <5>1. k = - f
          BY <2>2, <2>3, <2>4, <4>1, ClassType
        <5> QED BY <1>1, <2>3, <5>1
      <4>2. CASE c[k] # 0
        <5>1. - c[k] = - f
          BY <2>2, <2>3, <2>4, <4>2, ClassType
        <5> QED BY <1>1, <2>3, <4>2, <5>1, ListingsAssumption
      <4> QED BY <4>1, <4>2
    <3>3. j \in Keys /\ j < p /\ c[j] = f
      BY <3>2
    <3>4. c[p] = c[j] \/ c[j] = 0
      BY <1>1, <2>3, <3>2, <3>3 DEF Adjoining, together
    <3> QED BY <3>1, <3>2, <3>3, <3>4
  <2> QED BY <1>5, <2>1, <2>4
<1> QED BY <1>2, <1>4, <1>5 DEF ahead

\* With key p, at most its class comes to what there is before it.
LEMMA ClassNext ==
  ASSUME NEW c, NEW S \in SUBSET Keys, NEW p \in Keys, NEW x \in classes(c, S, 1, p + 1)
  PROVE  x \in classes(c, S, 1, p) \/ (p \in S /\ x = class(c, p))
<1>1. PICK k \in S : 1 <= k /\ k < p + 1 /\ x = class(c, k)
  BY ClassOf
<1>2. k < p \/ k = p
  BY <1>1 DEF Keys
<1> QED BY <1>1, <1>2, ClassMember
-----------------------------------------------------------------------------
LEMMA ListingTypes ==
  ASSUME SizeInv
  PROVE  /\ req.op # "ListMultipartUploads" => Adjoining(req.common)
         /\ there \in SUBSET Keys /\ listed \in SUBSET Keys
         /\ page \in SUBSET Keys /\ Keys \in SUBSET Int /\ req \in Requests /\ req.op \in Ops
         /\ token \in Int /\ pos \in Int /\ count \in Int /\ nextindex \in Int /\ nextmarker \in Int
         /\ DOMAIN entries = 1..Len(entries) /\ Len(entries) \in Nat
         /\ DOMAIN listing = 1..Len(listing) /\ Len(listing) \in Nat
<1>1. /\ req \in Requests /\ present \in SUBSET Keys /\ entries \in Seq(Keys)
      /\ listing \in Seq([name : Keys, key : Keys])
  BY DEF SizeInv, TypeOK, Sized
<1>2. /\ req.op # "ListMultipartUploads" => Adjoining(req.common)
      /\ req.op \in Ops /\ there \in SUBSET Keys
  BY <1>1, RequestType DEF Adjoining, there
<1>3. /\ DOMAIN entries = 1..Len(entries) /\ Len(entries) \in Nat
      /\ DOMAIN listing = 1..Len(listing) /\ Len(listing) \in Nat
  BY <1>1, LenProperties
<1>4. Keys \in SUBSET Int /\ token \in Int /\ pos \in Int /\ count \in Int
      /\ nextindex \in Int /\ nextmarker \in Int
  BY ListingsAssumption DEF SizeInv, TypeOK, Keys
<1>5. listed \in SUBSET Keys /\ page \in SUBSET Keys
  BY DEF SizeInv, TypeOK, listed, page
<1> QED BY <1>1, <1>2, <1>3, <1>4, <1>5

\* When the walk comes to a key, it has read its directory.
LEMMA DirectoryRead ==
  ASSUME SizeInv, Counted, phase = "walk", pos <= N, req.op = "ListObjectsV2", added = {},
         NEW k \in present, Dir[k] = Top \/ \E j \in 1..pos : Dir[j] = Dir[k]
  PROVE  k \in read_dir
<1>1. \A l \in present :
        (Dir[l] = Top \/ \E j \in 1..(pos - 1) : Dir[j] = Dir[l]) => l \in known
  BY DEF Counted
<1>2. known \subseteq read_dir
  BY DEF read_dir
<1>3. CASE Dir[k] = Top \/ \E j \in 1..(pos - 1) : Dir[j] = Dir[k]
  BY <1>1, <1>2, <1>3
<1>4. CASE ~ (Dir[k] = Top \/ \E j \in 1..(pos - 1) : Dir[j] = Dir[k])
  <2>1. PICK j \in 1..pos : Dir[j] = Dir[k]
    BY <1>4
  <2>2. j = pos
    BY <1>4, <2>1, WalkHere
  <2> QED BY <1>4, <2>1, <2>2 DEF read_dir
<1> QED BY <1>3, <1>4

LEMMA CountedMore ==
  ASSUME SizeInv, Counted, phase = "walk", pos <= N, pos' = pos + 1, known' = read_dir,
         UNCHANGED <<present, req, added, phase>>,
         \/ passed_over /\ UNCHANGED <<count, commonprefix>>
         \/ Met
  PROVE  Counted'
<1> SUFFICES ASSUME req.op = "ListObjectsV2", added = {} PROVE Counted'
  BY DEF Counted
<1> DEFINE c == req.common
           A == classes(c, there, 1, pos) \cup ({- commonprefix} \ {0})
           B == classes(c, there, 1, pos + 1) \cup ({- commonprefix'} \ {0})
<1>1. Adjoining(c) /\ there \in SUBSET Keys /\ pos \in Keys /\ pos \in Int /\ count \in Int
  BY ListingTypes, WalkHere
<1>2. IsFiniteSet(A) /\ Cardinality(A) \in Nat /\ Cardinality(A) <= count
  <2>1. IsFiniteSet(classes(c, there, 1, pos))
    <3>1. 1 \in Int
      OBVIOUS
    <3> QED BY <1>1, <3>1, ClassSets, Zenon
  <2>2. IsFiniteSet({- commonprefix} \ {0})
    BY FS_Singleton, FS_Difference
  <2>3. IsFiniteSet(A)
    BY <2>1, <2>2, FS_Union
  <2> QED BY <2>3, FS_CardinalityType DEF Counted
<1>3. \A k \in present :
        (Dir[k] = Top \/ \E j \in 1..pos : Dir[j] = Dir[k]) => k \in read_dir
  BY DirectoryRead
<1>4. Cardinality(B) <= count'
  <2>1. CASE passed_over /\ UNCHANGED <<count, commonprefix>>
    <3>1. B \in SUBSET A
      <4> SUFFICES ASSUME NEW x \in classes(c, there, 1, pos + 1) PROVE x \in A
        BY <2>1
      <4>1. CASE pos \in there /\ x = class(c, pos)
        <5>1. pos \in present /\ pos \in req.match
          BY <4>1 DEF there
        <5>2. pos \in 1..pos
          BY <1>1 DEF Keys
        <5>3. pos \in read_dir
          BY <1>3, <5>1, <5>2
        <5>4. c[pos] # 0 /\ c[pos] = commonprefix
          BY <2>1, <5>1, <5>3 DEF passed_over, check_common_prefix
        <5>5. x = - commonprefix /\ x # 0
          BY <1>1, <4>1, <5>4, ClassType
        <5> QED BY <5>5
      <4> QED BY <1>1, <4>1, ClassNext
    <3> HIDE DEF A, B
    <3> QED BY <1>1, <1>2, <2>1, <3>1, CardLess
  <2>2. CASE Met
    <3>1. count' = count + 1 /\ commonprefix' = IF c[pos] # 0 THEN c[pos] ELSE commonprefix
      BY <2>2 DEF Met, check_common_prefix
    <3>2. B \in SUBSET (A \cup {class(c, pos)})
      <4>1. ASSUME NEW x \in classes(c, there, 1, pos + 1) PROVE x \in A \cup {class(c, pos)}
        BY <1>1, ClassNext
      <4>2. c[pos] # 0 => - commonprefix' = class(c, pos)
        BY <1>1, <3>1, ClassType
      <4>3. {- commonprefix'} \ {0} \in SUBSET (A \cup {class(c, pos)})
        BY <3>1, <4>2
      <4> QED BY <4>1, <4>3
    <3> HIDE DEF A, B
    <3>3. /\ IsFiniteSet(A \cup {class(c, pos)})
          /\ Cardinality(A \cup {class(c, pos)}) \in {Cardinality(A), Cardinality(A) + 1}
      BY <1>2, FS_AddElement
    <3>4. /\ Cardinality(B) <= Cardinality(A \cup {class(c, pos)}) /\ Cardinality(B) \in Nat
      BY <3>2, <3>3, CardLess
    <3> QED BY <1>1, <1>2, <3>1, <3>3, <3>4
  <2> QED BY <2>1, <2>2
<1>5. pos' - 1 = pos
  BY <1>1
<1>6. there' = there
  BY DEF there
<1> QED BY <1>3, <1>4, <1>5, <1>6 DEF Counted

LEMMA CountedStart == ASSUME SizeInv, Start_walk PROVE Counted'
<1>1. /\ pos' = 1 /\ known' = {k \in present : Dir[k] = Top} /\ count' = 0 /\ commonprefix' = 0
      /\ UNCHANGED <<present, req>>
  BY DEF Start_walk, bucket, client
<1>2. classes(req.common, there, 1, 1) \cup ({- commonprefix'} \ {0}) = {}
  <2>1. ASSUME NEW x \in classes(req.common, there, 1, 1) PROVE FALSE
    <3>1. PICK k \in there : 1 <= k /\ k < 1
      BY <2>1, ClassOf
    <3> QED BY <3>1, ListingTypes
  <2>2. \A z \in Int : z <= 0 /\ z >= 0 => - z = 0
    OBVIOUS
  <2>3. - commonprefix' = 0
    <3>1. commonprefix' \in Int /\ commonprefix' <= 0 /\ commonprefix' >= 0
      BY <1>1
    <3> QED BY <2>2, <3>1, Zenon
  <2> QED BY <2>1, <2>3
<1>3. there' = there
  BY <1>1 DEF there
<1>4. \A k \in present' : (Dir[k] = Top \/ \E j \in 1..(pos' - 1) : Dir[j] = Dir[k]) => k \in known'
  BY <1>1
<1>5. Cardinality(classes(req.common, there, 1, 1) \cup ({- commonprefix'} \ {0})) <= count'
  BY <1>1, <1>2, FS_EmptySet
<1>6. Cardinality(classes(req'.common, there', 1, pos') \cup ({- commonprefix'} \ {0})) <= count'
  BY <1>1, <1>3, <1>5
<1> QED BY <1>4, <1>6 DEF Counted

\* Other requests: a removal leaves no more to be counted.
LEMMA CountedChange == ASSUME SizeInv, Counted, NEW k \in Keys, Change(k) PROVE Counted'
<1>1. UNCHANGED <<req, phase, pos, known, count, commonprefix>>
  BY DEF Change, client, walk
<1> SUFFICES ASSUME phase = "walk", req.op = "ListObjectsV2", added' = {} PROVE Counted'
  BY <1>1 DEF Counted
<1>2. added = {} /\ present' = present \ {k}
  BY DEF Change
<1> DEFINE A == classes(req.common, there, 1, pos) \cup ({- commonprefix} \ {0})
           B == classes(req.common, there', 1, pos) \cup ({- commonprefix} \ {0})
<1>3. there' \in SUBSET there /\ there \in SUBSET Keys /\ Adjoining(req.common) /\ pos \in Int
      /\ count \in Int
  BY <1>1, <1>2, ListingTypes DEF there
<1>4. IsFiniteSet(A)
  <2>1. IsFiniteSet(classes(req.common, there, 1, pos))
    <3>1. 1 \in Int
      OBVIOUS
    <3> QED BY <1>3, <3>1, ClassSets, Zenon
  <2>2. IsFiniteSet({- commonprefix} \ {0})
    BY FS_Singleton, FS_Difference
  <2> QED BY <2>1, <2>2, FS_Union
<1>5. B \in SUBSET A
  <2>1. classes(req.common, there', 1, pos) \in SUBSET classes(req.common, there, 1, pos)
    BY <1>3, ClassLess
  <2> QED BY <2>1
<1>6. Cardinality(A) <= count
  BY <1>2 DEF Counted
<1>7. Cardinality(B) <= count
  <2> HIDE DEF A, B
  <2> QED BY <1>3, <1>4, <1>5, <1>6, CardLess
<1> QED BY <1>1, <1>2, <1>7 DEF Counted

LEMMA CountedStep == ASSUME SizeInv, Counted, [Next]_vars PROVE Counted'
<1>1. CASE Start_walk
  BY <1>1, CountedStart
<1>2. CASE Visit_skip \/ Visit_early \/ Visit_entry \/ Visit_full
  <2>1. /\ phase = "walk" /\ pos <= N /\ pos' = pos + 1 /\ known' = read_dir
        /\ UNCHANGED <<present, req, added>>
        /\ \/ passed_over /\ UNCHANGED <<count, commonprefix>>
           \/ Met
        /\ phase' # "walk" \/ phase' = phase
    BY <1>2 DEF Visit_skip, Visit_early, Visit_entry, Visit_full, Met, bucket, client
  <2> QED BY <2>1, CountedMore DEF Counted
<1>3. CASE \E k \in Keys : Change(k)
  BY <1>3, CountedChange
<1>4. CASE UNCHANGED vars
  <2>1. UNCHANGED <<present, added, req, phase, pos, known, count, commonprefix>>
    BY <1>4 DEF vars, bucket, client, walk
  <2> QED BY <2>1 DEF Counted, there
<1>5. CASE Walk_ends \/ List_buckets \/ List_parts \/ Fill_start \/ Fetch_status \/ Fetched \/ Answer
  <2>1. phase' # "walk"
    BY <1>5 DEF Walk_ends, List_buckets, List_parts, Fill_start, Fetch_status, Fetched, Answer
  <2> QED BY <2>1 DEF Counted
<1> QED BY <1>1, <1>2, <1>3, <1>4, <1>5 DEF Next, Serve, Ended
-----------------------------------------------------------------------------
LEMMA SameListing ==
  ASSUME ListingApart, UNCHANGED <<listing, req>>
  PROVE  ListingApart' /\ listed' = listed
BY DEF ListingApart, listed

LEMMA SameEntries ==
  ASSUME UNCHANGED <<entries, req>>
  PROVE  (EntriesApart => EntriesApart') /\ page' = page
BY DEF EntriesApart, page

LEMMA WalkingOps == req.op \in Walking => req.op \in ByMarker \/ req.op = "ListObjectsV2"
BY DEF Walking, ByMarker

\* The first page starts its walk before everything.
LEMMA StartChain == ASSUME SizeInv, Chain, Start_walk PROVE Chain'
<1>1. /\ phase = "ask" /\ req.op \in Walking /\ phase' = "walk" /\ pos' = 1 /\ entries' = <<>>
      /\ count' = 0 /\ commonprefix' = 0
      /\ UNCHANGED <<present, req, token, listing>>
  BY DEF Start_walk, bucket, client
<1>2. ListingApart' /\ listed' = listed /\ there' = there
  BY <1>1, SameListing DEF Chain, there
<1>3. DOMAIN entries' = {}
  BY <1>1, NoEntries, Zenon
<1>4. PICK q \in 1..(N + 1) : Guard(token, q) /\ \A l \in listed : settled(req.common, l, q)
  BY <1>1 DEF Chain, Asked
<1>5. WalkGuard(q)'
  <2>1. CASE req.op \in ByMarker
    <3>1. q = 1 \/ q <= token
      BY <1>4, <2>1 DEF Guard
    <3> QED BY <1>1, <2>1, <3>1 DEF WalkGuard
  <2>2. CASE req.op = "ListObjectsV2"
    <3> DEFINE B == classes(req.common, there, 1, q)
               A == ahead(req.common, there, commonprefix', 1, q)
    <3>1. Cardinality(B) <= token
      BY <1>4, <2>2 DEF Guard, ByMarker
    <3>2. IsFiniteSet(B) /\ token \in Int
      <4>1. Adjoining(req.common) /\ there \in SUBSET Keys /\ q \in Int /\ token \in Int /\ 1 \in Int
        BY <2>2, ListingTypes, ListingsAssumption
      <4>2. IsFiniteSet(classes(req.common, there, 1, q))
        BY <4>1, ClassSets, Zenon
      <4> QED BY <4>1, <4>2
    <3>3. A \in SUBSET B
      BY DEF ahead
    <3> HIDE DEF A, B
    <3>4. 0 + Cardinality(A) <= token
      BY <3>1, <3>2, <3>3, CardLess
    <3> QED BY <1>1, <1>2, <2>2, <3>4 DEF WalkGuard, ByMarker, A, B
  <2> QED BY <1>1, <2>1, <2>2, WalkingOps
<1>6. EntriesApart' /\ page' = {}
  BY <1>3 DEF EntriesApart, page
<1>7. Collected'
  BY <1>1, <1>2, <1>4, <1>5, <1>6 DEF Collected
<1> QED BY <1>1, <1>2, <1>7 DEF Chain, Asked, Paged

\* A key that is neither passed over nor too early is not from before q.
LEMMA NotEarly ==
  ASSUME SizeInv, phase = "walk", pos <= N, ~ passed_over, ~ too_early,
         NEW q \in 1..(N + 1), WalkGuard(q)
  PROVE  q <= pos
<1>1. pos \in Keys /\ pos \in Int /\ token \in Int /\ token \in 0..N /\ q \in Int /\ pos >= 1
  BY ListingTypes, WalkHere, ListingsAssumption DEF SizeInv, TypeOK, Keys
<1>2. CASE req.op \in ByMarker
  <2>1. marker = token
    BY <1>2 DEF marker, Walking, ByMarker
  <2>2. token = 0 \/ markerhit \/ token = pos
    BY <2>1 DEF too_early
  <2>3. markerhit => token < pos
    BY <2>1, WalkHere
  <2>4. q = 1 \/ q <= token
    BY <1>2 DEF WalkGuard
  <2> QED BY <1>1, <2>2, <2>3, <2>4
<1>3. CASE req.op = "ListObjectsV2"
  <2> DEFINE c == req.common
             A == ahead(c, there, commonprefix, pos, q)
  <2> SUFFICES ASSUME pos < q PROVE FALSE
    BY <1>1
  <2>1. ~ (count < token)
    BY <1>3 DEF too_early, index
  <2>2. count + Cardinality(A) <= token /\ count \in Int
    BY <1>3, ListingTypes DEF WalkGuard, ByMarker
  <2>3. pos \in there /\ (c[pos] = 0 \/ c[pos] # commonprefix)
    BY <1>3 DEF passed_over, there, check_common_prefix
  <2>4. commonprefix \in 0..N
    BY DEF SizeInv, TypeOK
  <2>5. class(c, pos) \in A
    <3>1. Adjoining(c) /\ there \in SUBSET Keys
      BY <1>3, ListingTypes
    <3> QED BY <1>1, <2>3, <2>4, <3>1, ClassHere
  <2>6. IsFiniteSet(A)
    <3>1. IsFiniteSet(classes(c, there, pos, q))
      BY <1>1, <1>3, ListingTypes, ClassSets
    <3> QED BY <3>1, FS_Difference DEF ahead
  <2>7. Cardinality(A) \in Nat /\ Cardinality(A) # 0
    <3> HIDE DEF A
    <3> QED BY <2>5, <2>6, FS_EmptySet, FS_CardinalityType
  <2> HIDE DEF A
  <2> QED BY <1>1, <2>1, <2>2, <2>7
<1> QED BY <1>2, <1>3, WalkHere, WalkingOps

\* A visit leaves the guard of the walk as it is.
LEMMA GuardVisited ==
  ASSUME SizeInv, phase = "walk", pos <= N, pos' = pos + 1, UNCHANGED <<present, req, token>>,
         \/ UNCHANGED <<count, commonprefix>>
         \/ Met,
         NEW q \in 1..(N + 1), WalkGuard(q)
  PROVE  WalkGuard(q)'
<1>1. pos \in Keys /\ pos \in Int /\ token \in Int /\ q \in Int /\ count \in Int
  BY ListingTypes, WalkHere, ListingsAssumption
<1>2. CASE req.op \in ByMarker
  BY <1>2 DEF WalkGuard
<1>3. CASE req.op = "ListObjectsV2"
  <2> DEFINE c == req.common
             A == ahead(c, there, commonprefix, pos, q)
             B == ahead(c, there, commonprefix', pos + 1, q)
  <2> SUFFICES ASSUME pos + 1 < q PROVE count' + Cardinality(B) <= token
    BY <1>3 DEF WalkGuard, ByMarker, there
  <2>1. pos < q /\ count + Cardinality(A) <= token
    <3>1. pos < q
      BY <1>1
    <3> QED BY <1>3, <3>1 DEF WalkGuard, ByMarker
  <2>2. Adjoining(c) /\ there \in SUBSET Keys
    BY <1>3, ListingTypes
  <2>3. IsFiniteSet(A)
    <3>1. IsFiniteSet(classes(c, there, pos, q))
      BY <1>1, <2>2, ClassSets, Zenon
    <3> QED BY <3>1, FS_Difference DEF ahead
  <2>4. CASE UNCHANGED <<count, commonprefix>>
    <3>1. B \in SUBSET A
      <4>1. classes(c, there, pos + 1, q) \in SUBSET classes(c, there, pos, q)
        BY <1>1, <2>2, ClassLess
      <4> QED BY <2>4, <4>1 DEF ahead
    <3> HIDE DEF A, B
    <3> QED BY <1>1, <2>1, <2>3, <2>4, <3>1, CardLess
  <2>5. CASE Met
    <3>1. pos \in there /\ (c[pos] = 0 \/ c[pos] # commonprefix)
      BY <1>3, <2>5 DEF Met, passed_over, there, check_common_prefix
    <3>2. /\ commonprefix \in 0..N
          /\ commonprefix # 0 => \E j \in Keys : j < pos /\ c[j] = commonprefix
      BY WalkHere DEF check_common_prefix, SizeInv, TypeOK
    <3>3. count' = count + 1 /\ commonprefix' = IF c[pos] # 0 THEN c[pos] ELSE commonprefix
      BY <2>5 DEF Met, check_common_prefix
    <3>4. class(c, pos) \in A /\ class(c, pos) \notin B /\ B \in SUBSET A
      <4>1. PICK j : commonprefix # 0 => j \in Keys /\ j < pos /\ c[j] = commonprefix
        BY <3>2
      <4> QED BY <2>1, <2>2, <3>1, <3>2, <3>3, <4>1, ClassMet
    <3> HIDE DEF A, B
    <3>5. Cardinality(B) + 1 <= Cardinality(A)
      BY <2>3, <3>4, CardMore
    <3>6. Cardinality(A) \in Nat /\ Cardinality(B) \in Nat
      BY <2>3, <3>4, CardLess
    <3> QED BY <1>1, <2>1, <3>3, <3>5, <3>6
  <2> QED BY <2>4, <2>5
<1> QED BY <1>2, <1>3, WalkHere, WalkingOps

\* What is known of an entry before a visit is known after it.
LEMMA EntryVisited ==
  ASSUME SizeInv, phase = "walk", pos <= N,
         \/ UNCHANGED commonprefix
         \/ Met,
         NEW e \in Keys, e < pos,
         req.common[e] = commonprefix \/ settled(req.common, e, pos)
  PROVE  e < pos + 1 /\ (req.common[e] = commonprefix' \/ settled(req.common, e, pos + 1))
<1> DEFINE c == req.common
<1>1. pos \in Keys /\ pos \in Int /\ e \in Int
  BY ListingTypes, WalkHere
<1>2. e < pos + 1
  BY <1>1
<1>3. settled(c, e, pos) => settled(c, e, pos + 1)
  BY <1>1, SettledLater
<1>4. CASE c[e] = commonprefix /\ commonprefix' # commonprefix
  <2>1. c[pos] # c[e]
    BY <1>4 DEF Met, check_common_prefix, passed_over
  <2>2. settled(c, e, pos)
    BY <1>1, <2>1, OtherSettles
  <2> QED BY <1>2, <1>3, <2>2
<1> QED BY <1>2, <1>3, <1>4

\* A visit that puts nothing on the page.
LEMMA PassChain == ASSUME SizeInv, Chain, Visit_skip \/ Visit_early PROVE Chain'
<1>1. /\ phase = "walk" /\ pos <= N /\ pos' = pos + 1 /\ phase' = "walk"
      /\ UNCHANGED <<present, req, token, listing, entries>>
      /\ UNCHANGED <<count, commonprefix>> \/ Met
  BY DEF Visit_skip, Visit_early, Met, bucket, client
<1>2. ListingApart' /\ listed' = listed /\ EntriesApart' /\ page' = page /\ page \in SUBSET Keys
  BY <1>1, SameListing, SameEntries, ListingTypes DEF Chain, Collected
<1>3. PICK q \in 1..(N + 1) :
        /\ WalkGuard(q)
        /\ \A l \in listed : settled(req.common, l, q)
        /\ \A e \in page : q <= e
  BY <1>1 DEF Chain, Collected
<1>4. WalkGuard(q)'
  BY <1>1, <1>3, GuardVisited
<1>5. ASSUME NEW e \in page
      PROVE  e < pos + 1 /\ (req.common[e] = commonprefix' \/ settled(req.common, e, pos + 1))
  <2>1. e \in Keys /\ e < pos /\ (req.common[e] = commonprefix \/ settled(req.common, e, pos))
    BY <1>1, <1>2 DEF Chain, Collected
  <2> QED BY <1>1, <2>1, EntryVisited
<1>6. Collected'
  BY <1>1, <1>2, <1>3, <1>4, <1>5 DEF Collected
<1> QED BY <1>1, <1>2, <1>6 DEF Chain, Asked, Paged

\* A key that is met is apart from the entries of the page, which it settles.
LEMMA EntriesSettled ==
  ASSUME SizeInv, Chain, Met
  PROVE  \A e \in page : settled(req.common, e, pos) /\ apart(req.common, e, pos)
<1> SUFFICES ASSUME NEW e \in page
             PROVE  settled(req.common, e, pos) /\ apart(req.common, e, pos)
  OBVIOUS
<1> DEFINE c == req.common
<1>1. phase = "walk" /\ pos <= N /\ (c[pos] = 0 \/ c[pos] # commonprefix)
  BY DEF Met, passed_over, check_common_prefix
<1>2. e < pos /\ (c[e] = commonprefix \/ settled(c, e, pos))
  BY <1>1 DEF Chain, Collected
<1>3. e \in Keys /\ pos \in Keys /\ e \in Int /\ pos \in Int
  BY <1>1, ListingTypes, WalkHere
<1>4. settled(c, e, pos)
  BY <1>1, <1>2, <1>3, OtherSettles
<1>5. apart(c, e, pos)
  BY <1>3, <1>4, SettledApart
<1> QED BY <1>4, <1>5

LEMMA EntryChain == ASSUME SizeInv, Chain, Visit_entry PROVE Chain'
<1> DEFINE c == req.common
<1>1. /\ phase = "walk" /\ pos <= N /\ pos' = pos + 1 /\ phase' = "walk" /\ Met /\ ~ passed_over
      /\ ~ too_early
      /\ UNCHANGED <<present, req, token, listing>>
      /\ entries' = Append(entries, pos) \/ entries' = entries
      /\ commonprefix' = IF c[pos] # 0 THEN c[pos] ELSE commonprefix
  BY DEF Visit_entry, Met, bucket, client, check_common_prefix
<1>2. ListingApart' /\ listed' = listed
  BY <1>1, SameListing DEF Chain
<1>3. /\ page \in SUBSET Keys /\ Keys \in SUBSET Int /\ pos \in Keys /\ entries \in Seq(Keys)
      /\ DOMAIN entries = 1..Len(entries) /\ Len(entries) \in Nat
  BY <1>1, ListingTypes, WalkHere DEF SizeInv, Sized
<1>4. PICK q \in 1..(N + 1) :
        /\ WalkGuard(q)
        /\ \A l \in listed : settled(c, l, q)
        /\ \A e \in page : q <= e
  BY <1>1 DEF Chain, Collected
<1>5. WalkGuard(q)'
  BY <1>1, <1>4, GuardVisited
<1>6. q <= pos
  BY <1>1, <1>4, NotEarly
<1>7. ASSUME NEW e \in page
      PROVE  e < pos + 1 /\ (c[e] = commonprefix' \/ settled(c, e, pos + 1))
  <2>1. e \in Keys /\ e < pos /\ (c[e] = commonprefix \/ settled(c, e, pos))
    BY <1>1, <1>3 DEF Chain, Collected
  <2> QED BY <1>1, <2>1, EntryVisited
<1>8. pos < pos + 1 /\ (c[pos] = commonprefix' \/ settled(c, pos, pos + 1))
  <2>1. pos < pos + 1
    BY <1>3
  <2>2. c[pos] # 0 => c[pos] = commonprefix'
    BY <1>1
  <2>3. c[pos] = 0 => settled(c, pos, pos + 1)
    BY <2>1, Zenon DEF settled
  <2> QED BY <2>1, <2>2, <2>3
<1>9. CASE entries' = entries
  <2>1. EntriesApart' /\ page' = page
    BY <1>1, <1>9, SameEntries DEF Chain, Collected
  <2>2. Collected'
    BY <1>1, <1>2, <1>4, <1>5, <1>7, <2>1 DEF Collected
  <2> QED BY <1>1, <1>2, <2>2 DEF Chain, Asked, Paged
<1>10. CASE entries' = Append(entries, pos)
  <2>1. /\ DOMAIN entries' = 1..(Len(entries) + 1)
        /\ \A i \in 1..Len(entries) : entries'[i] = entries[i]
        /\ entries'[Len(entries) + 1] = pos
    BY <1>3, <1>10, AppendProperties
  <2>2. \A i \in DOMAIN entries' :
          \/ i \in DOMAIN entries /\ entries'[i] = entries[i]
          \/ i = Len(entries) + 1 /\ entries'[i] = pos
    <3> TAKE i \in DOMAIN entries'
    <3>1. i \in 1..Len(entries) \/ i = Len(entries) + 1
      BY <1>3, <2>1
    <3>2. CASE i \in 1..Len(entries)
      <4>1. i \in DOMAIN entries
        BY <1>3, <3>2
      <4>2. entries'[i] = entries[i]
        BY <2>1, <3>2
      <4> QED BY <4>1, <4>2
    <3>3. CASE i = Len(entries) + 1
      BY <2>1, <3>3, Zenon
    <3> QED BY <3>1, <3>2, <3>3
  <2>3. page' \in SUBSET (page \cup {pos})
    BY <2>2 DEF page
  <2>4. EntriesApart'
    <3> SUFFICES ASSUME NEW i \in DOMAIN entries', NEW j \in DOMAIN entries', i < j
                 PROVE  apart(c, entries'[i], entries'[j])
      BY <1>1 DEF EntriesApart
    <3>1. i \in DOMAIN entries /\ entries'[i] = entries[i]
      BY <1>3, <2>1, <2>2
    <3>2. CASE j \in DOMAIN entries /\ entries'[j] = entries[j]
      BY <1>1, <3>1, <3>2 DEF Chain, Collected, EntriesApart
    <3>3. CASE entries'[j] = pos
      <4>1. entries[i] \in page
        BY <3>1 DEF page
      <4> QED BY <1>1, <3>1, <3>3, <4>1, EntriesSettled
    <3> QED BY <2>2, <3>2, <3>3
  <2>5. Collected'
    <3>1. \A e \in page' : e < pos' /\ (c[e] = commonprefix' \/ settled(c, e, pos'))
      BY <1>1, <1>7, <1>8, <2>3
    <3>2. \A e \in page' : q <= e
      BY <1>4, <1>6, <2>3
    <3> QED BY <1>1, <1>2, <1>4, <1>5, <2>4, <3>1, <3>2 DEF Collected
  <2> QED BY <1>1, <1>2, <2>5 DEF Chain, Asked, Paged
<1> QED BY <1>1, <1>9, <1>10

\* The next page starts with the key that did not fit.
LEMMA FullChain ==
  ASSUME SizeInv, Counted, Chain, req.op \in ByMarker \/ added = {}, Visit_full
  PROVE  Chain'
<1> DEFINE c == req.common
<1>1. /\ phase = "walk" /\ pos <= N /\ phase' = "fill" /\ Met /\ ~ passed_over /\ ~ too_early
      /\ UNCHANGED <<present, req, token, listing, entries>>
      /\ nextindex' = count /\ nextmarker' = pos
  BY DEF Visit_full, Met, bucket, client
<1>2. /\ ListingApart' /\ listed' = listed /\ EntriesApart' /\ page' = page /\ there' = there
  BY <1>1, SameListing, SameEntries DEF Chain, Collected, there
<1>3. PICK q \in 1..(N + 1) :
        /\ WalkGuard(q)
        /\ \A l \in listed : settled(c, l, q)
        /\ \A e \in page : q <= e
  BY <1>1 DEF Chain, Collected
<1>4. q <= pos /\ q \in Int /\ pos \in Int /\ pos \in 1..(N + 1)
  BY <1>1, <1>3, NotEarly, WalkHere, ListingsAssumption DEF Keys
<1>10. PICK p \in 1..(N + 1) : p = pos
  BY <1>4
<1>5. listed \in SUBSET Keys /\ page \in SUBSET Keys /\ Keys \in SUBSET Int
  BY ListingTypes
<1>6. \A l \in listed, e \in page : apart(c, l, e)
  BY <1>3, <1>4, <1>5, SettledApart
<1>7. \A l \in listed \cup page : settled(c, l, pos)
  <2>1. \A l \in listed : settled(c, l, pos)
    BY <1>3, <1>4, <1>5, SettledLater
  <2> QED BY <1>1, <2>1, EntriesSettled
<1>8. Guard(IF req.op \in ByMarker THEN nextmarker ELSE nextindex, p)'
  <2>1. CASE req.op \in ByMarker
    BY <1>1, <1>4, <1>10, <2>1 DEF Guard, ByMarker
  <2>2. CASE req.op = "ListObjectsV2"
    <3> DEFINE A == classes(c, there, 1, pos)
               B == A \cup ({- commonprefix} \ {0})
    <3>1. added = {}
      BY <2>2 DEF ByMarker
    <3>2. Cardinality(B) <= count
      BY <1>1, <2>2, <3>1 DEF Counted
    <3>3. IsFiniteSet(A)
      <4>1. Adjoining(c) /\ there \in SUBSET Keys /\ pos \in Int /\ 1 \in Int
        BY <1>4, <2>2, ListingTypes
      <4> QED BY <4>1, ClassSets, Zenon
    <3>4. IsFiniteSet(B)
      BY <3>3, FS_Singleton, FS_Difference, FS_Union
    <3>5. A \in SUBSET B /\ count \in Int
      BY ListingTypes
    <3> HIDE DEF A, B
    <3>6. Cardinality(A) <= count
      BY <3>2, <3>4, <3>5, CardLess
    <3>7. Cardinality(classes(req'.common, there', 1, p)) <= nextindex'
      BY <1>1, <1>2, <1>10, <3>6 DEF A
    <3> QED BY <1>1, <2>2, <3>7 DEF Guard, ByMarker
  <2> QED BY <1>1, <2>1, <2>2, WalkHere, WalkingOps
<1>9. Paged'
  <2>1. \A l \in (listed \cup page)' : settled(req'.common, l, p)
    BY <1>1, <1>2, <1>7, <1>10
  <2>2. \A l \in listed', e \in page' : apart(req'.common, l, e)
    BY <1>1, <1>2, <1>6
  <2> QED BY <1>2, <1>8, <1>10, <2>1, <2>2 DEF Paged
<1> QED BY <1>1, <1>2, <1>9 DEF Chain, Asked, Collected

\* A walk that came to the end is the last page.
LEMMA WalkEndsChain == ASSUME SizeInv, Chain, Walk_ends PROVE Chain'
<1> DEFINE c == req.common
<1>1. /\ phase = "walk" /\ phase' = "fill"
      /\ UNCHANGED <<present, req, token, listing, entries, nextindex, nextmarker>>
  BY DEF Walk_ends, bucket, client, walk
<1>2. ListingApart' /\ listed' = listed /\ EntriesApart' /\ page' = page
  BY <1>1, SameListing, SameEntries DEF Chain, Collected
<1>3. PICK q \in 1..(N + 1) :
        /\ \A l \in listed : settled(c, l, q)
        /\ \A e \in page : q <= e
  BY <1>1 DEF Chain, Collected
<1>4. \A l \in listed, e \in page : apart(c, l, e)
  <2>1. listed \in SUBSET Keys /\ page \in SUBSET Keys /\ Keys \in SUBSET Int /\ q \in Int
    BY ListingTypes, ListingsAssumption
  <2> QED BY <1>3, <2>1, SettledApart
<1>5. ~ truncated'
  <2>1. nextindex = 0 /\ nextmarker = 0 /\ req.op \in Walking
    BY <1>1 DEF SizeInv, Walked
  <2> QED BY <1>1, <2>1 DEF truncated, Walking
<1>6. Paged'
  BY <1>1, <1>2, <1>4, <1>5 DEF Paged
<1> QED BY <1>1, <1>2, <1>6 DEF Chain, Asked, Collected
-----------------------------------------------------------------------------
\* Without common prefixes, keys are apart when they are in order.
LEMMA NoPrefixes ==
  ASSUME SizeInv, req.op \in {"ListBuckets", "ListParts"}
  PROVE  /\ \A k \in Keys : req.common[k] = 0
         /\ \A k \in Keys : \A l : k < l => apart(req.common, k, l)
         /\ \A k \in Keys : \A l : k < l <=> settled(req.common, k, l)
         /\ \A q \in Int : classes(req.common, there, 1, q) = below(there, q)
<1>1. req \in Requests /\ there \in SUBSET Keys
  BY ListingTypes
<1>2. \A k \in Keys : req.common[k] = 0
  BY <1>1, RequestType DEF NoCommon
<1>3. \A k \in Keys : \A l : k < l => apart(req.common, k, l)
  BY <1>2, Zenon DEF apart
<1>4. \A k \in Keys : \A l : k < l <=> settled(req.common, k, l)
  BY <1>2, Zenon DEF settled
<1>5. \A k \in there : class(req.common, k) = k /\ 1 <= k
  BY <1>1, <1>2, ListingsAssumption DEF class, Keys
<1>6. \A q \in Int : classes(req.common, there, 1, q) = below(there, q)
  BY <1>5, Zenon DEF classes, below
<1> QED BY <1>2, <1>3, <1>4, <1>6

\* A key with at least as many below it as key q has is not before q.
LEMMA NotBefore ==
  ASSUME NEW S \in SUBSET Keys, NEW k \in S, NEW q \in Int,
         Cardinality(below(S, q)) <= Cardinality(below(S, k))
  PROVE  q <= k
<1>1. S \in SUBSET (0..N) /\ k \in Int
  BY ListingsAssumption DEF Keys
<1>2. Cardinality(below(S, q)) \in Nat /\ Cardinality(below(S, k)) \in Nat
  BY <1>1, KeySets
<1>3. k < q => Cardinality(below(S, k)) < Cardinality(below(S, q))
  BY <1>1, BelowMore
<1> QED BY <1>1, <1>2, <1>3

LEMMA BucketsChain == ASSUME SizeInv, Chain, List_buckets PROVE Chain'
<1> DEFINE c == req.common
           S == there
           n == Cardinality(S)
<1>1. /\ phase = "ask" /\ req.op = "ListBuckets" /\ phase' = "fill"
      /\ UNCHANGED <<present, req, token, listing>>
  BY DEF List_buckets, bucket, client
<1>2. /\ ListingApart' /\ listed' = listed /\ there' = there
      /\ listed \in SUBSET Keys /\ S \in SUBSET Keys /\ Keys \in SUBSET Int /\ token \in Int /\ token >= 0
  BY <1>1, SameListing, ListingTypes, ListingsAssumption DEF Chain, there, SizeInv, TypeOK
<1>3. PICK q \in 1..(N + 1) : Guard(token, q) /\ \A l \in listed : settled(c, l, q)
  BY <1>1 DEF Chain, Asked
<1>4. q \in Int /\ Cardinality(below(S, q)) <= token
  <2>1. q \in Int
    BY ListingsAssumption
  <2> QED BY <1>1, <1>3, <2>1, NoPrefixes DEF Guard
<1>5. \A l \in listed : l < q
  BY <1>3 DEF settled
<1>6. entries' \in Seq(Keys) /\ DOMAIN entries' = 1..Len(entries')
  BY BucketPage, LenProperties
<1>7. CASE Len(entries') = 0 /\ nextindex' = 0
  <2>1. DOMAIN entries' = {}
    BY <1>6, <1>7
  <2>2. EntriesApart' /\ page' = {}
    BY <2>1 DEF EntriesApart, page
  <2>3. ~ truncated'
    BY <1>1, <1>7 DEF truncated
  <2>4. Paged'
    BY <2>2, <2>3 DEF Paged
  <2> QED BY <1>1, <1>2, <2>4 DEF Chain, Asked, Collected
<1>8. CASE \E e \in Nat : BucketSlice(e)
  <2>1. PICK e \in Nat : BucketSlice(e)
    BY <1>8
  <2>2. /\ token <= e /\ e <= n /\ Len(entries') = e - token
        /\ \A i \in 1..(e - token) : entries'[i] = Ordered(S)[token + i]
        /\ nextindex' = IF e < n THEN e ELSE 0
    BY <2>1 DEF BucketSlice, there
  <2> DEFINE o == Ordered(S)
  <2>3. /\ n \in Nat
        /\ \A i \in 1..n : o[i] \in S /\ Cardinality(below(S, o[i])) = i - 1
        /\ \A i, j \in 1..n : i < j => o[i] < o[j]
    BY <1>2, OrderedKeys, ListingsAssumption
  <2> HIDE DEF o, n, S
  <2>4. \A i \in DOMAIN entries' : token + i \in 1..n /\ token + i <= e /\ entries'[i] = o[token + i]
    <3> TAKE i \in DOMAIN entries'
    <3>1. i \in 1..(e - token)
      BY <1>6, <2>2
    <3>2. token + i \in 1..n /\ token + i <= e
      BY <1>2, <2>2, <2>3, <3>1
    <3>3. entries'[i] = o[token + i]
      BY <2>2, <3>1 DEF o
    <3> QED BY <3>2, <3>3
  <2>5. \A i \in 1..n : token < i => q <= o[i]
    <3> SUFFICES ASSUME NEW i \in 1..n, token < i PROVE q <= o[i]
      OBVIOUS
    <3>1. Cardinality(below(S, o[i])) = i - 1 /\ o[i] \in S
      BY <2>3
    <3>2. Cardinality(below(S, q)) \in Nat
      <4>1. S \in SUBSET (0..N)
        BY <1>2, ListingsAssumption DEF Keys
      <4> QED BY <4>1, KeySets
    <3>3. Cardinality(below(S, q)) <= Cardinality(below(S, o[i]))
      BY <1>2, <1>4, <2>3, <3>1, <3>2
    <3> QED BY <1>2, <1>4, <3>1, <3>3, NotBefore
  <2>6. EntriesApart'
    <3> SUFFICES ASSUME NEW i \in DOMAIN entries', NEW j \in DOMAIN entries', i < j
                 PROVE  apart(c, entries'[i], entries'[j])
      BY <1>1 DEF EntriesApart
    <3>1. i \in Int /\ j \in Int /\ token + i < token + j
      BY <1>2, <1>6
    <3>2. entries'[i] < entries'[j] /\ entries'[i] \in Keys
      BY <1>2, <2>3, <2>4, <3>1
    <3> QED BY <1>1, <3>2, NoPrefixes
  <2>7. \A x \in page' : \E i \in 1..n : token < i /\ i <= e /\ x = o[i]
    <3> SUFFICES ASSUME NEW i \in DOMAIN entries'
                 PROVE  token + i \in 1..n /\ token < token + i /\ token + i <= e /\ entries'[i] = o[token + i]
      BY DEF page
    <3> QED BY <1>2, <1>6, <2>4
  <2>8. \A l \in listed, x \in page' : apart(c, l, x)
    <3> SUFFICES ASSUME NEW l \in listed, NEW x \in page' PROVE apart(c, l, x)
      OBVIOUS
    <3>1. q <= x /\ x \in S
      BY <2>3, <2>5, <2>7
    <3>2. l < x /\ l \in Keys
      BY <1>2, <1>4, <1>5, <3>1
    <3> QED BY <1>1, <3>2, NoPrefixes
  <2>9. ASSUME truncated'
        PROVE  \E p \in 1..(N + 1) :
                 /\ Guard(nextindex, p)' /\ \A l \in (listed \cup page)' : settled(c, l, p)
    <3>1. nextindex' # 0
      BY <1>1, <2>9 DEF truncated
    <3>2. e < n /\ nextindex' = e /\ e + 1 \in 1..n /\ token < e + 1
      BY <1>2, <2>2, <2>3, <3>1
    <3>3. PICK p \in S : p = o[e + 1]
      BY <2>3, <3>2
    <3>4. Cardinality(below(S, p)) = e + 1 - 1 /\ q <= p
      BY <2>3, <2>5, <3>2, <3>3
    <3>5. p \in Int /\ p \in 1..(N + 1)
      BY <1>2, ListingsAssumption DEF Keys
    <3>6. ASSUME NEW l \in listed' \cup page' PROVE settled(c, l, p)
      <4>1. CASE l \in listed'
        <5>1. l < p /\ l \in Keys
          BY <1>2, <1>4, <1>5, <3>4, <3>5, <4>1
        <5> QED BY <1>1, <5>1, NoPrefixes
      <4>2. CASE l \in page'
        <5>1. PICK i \in 1..n : token < i /\ i <= e /\ l = o[i]
          BY <2>7, <4>2
        <5>2. i < e + 1
          BY <5>1
        <5>3. l < p /\ l \in Keys
          BY <1>2, <2>3, <3>2, <3>3, <5>1, <5>2
        <5> QED BY <1>1, <5>3, NoPrefixes
      <4> QED BY <3>6, <4>1, <4>2
    <3>7. Cardinality(classes(req'.common, there', 1, p)) <= nextindex'
      <4>1. classes(c, there, 1, p) = below(S, p)
        BY <1>1, <3>5, NoPrefixes DEF S
      <4> QED BY <1>1, <1>2, <3>2, <3>4, <4>1
    <3>8. Guard(nextindex, p)'
      BY <1>1, <3>7 DEF Guard, ByMarker
    <3> QED BY <3>5, <3>6, <3>8
  <2>10. Paged'
    <3>1. (IF req.op \in ByMarker THEN nextmarker ELSE nextindex)' = nextindex'
      BY <1>1 DEF ByMarker
    <3>2. ASSUME truncated'
          PROVE  \E p \in 1..(N + 1) :
                   /\ Guard(IF req.op \in ByMarker THEN nextmarker ELSE nextindex, p)'
                   /\ \A l \in (listed \cup page)' : settled(req'.common, l, p)
      BY <1>1, <2>9, <3>1, <3>2 DEF Guard
    <3> QED BY <1>1, <1>2, <2>6, <2>8, <3>2 DEF Paged
  <2> QED BY <1>1, <1>2, <2>10 DEF Chain, Asked, Collected
<1> QED BY <1>7, <1>8, BucketPage

\* The slots of parts: a page that goes on starts after the slots listed.
LEMMA PartsChain == ASSUME SizeInv, Chain, List_parts PROVE Chain'
<1> DEFINE c == req.common
<1>1. /\ phase = "ask" /\ req.op = "ListParts" /\ phase' = "answer"
      /\ UNCHANGED <<present, req, token, listing>>
  BY DEF List_parts, bucket, client
<1>2. /\ ListingApart' /\ listed' = listed /\ listed \in SUBSET Keys /\ Keys \in SUBSET Int
      /\ token \in Int /\ token >= 0 /\ present \in SUBSET Keys
  BY <1>1, SameListing, ListingTypes, ListingsAssumption DEF Chain, SizeInv, TypeOK
<1>3. PICK q \in 1..(N + 1) : Guard(token, q) /\ \A l \in listed : settled(c, l, q)
  BY <1>1 DEF Chain, Asked
<1>4. q \in Int /\ (q <= token + 1 \/ \A k \in present : k <= token) /\ \A l \in listed : l < q
  <2>1. q \in Int
    BY ListingsAssumption
  <2>2. q <= token + 1 \/ \A k \in present : k <= token
    BY <1>1, <1>3 DEF Guard
  <2> QED BY <1>3, <2>1, <2>2 DEF settled
<1>5. PICK a, b, l \in 0..N : PartSlice(a, b, l)
  BY PartPage
<1>6. /\ a \in Int /\ b \in Int /\ l \in Int /\ 0 <= a /\ a <= b /\ b <= l /\ b <= N
      /\ a = IF token <= l THEN token ELSE l
      /\ \A k \in present : k <= l
      /\ l = Max({0} \cup present)
      /\ entries' = [i \in 1..(b - a) |-> a + i]
      /\ nextindex' = IF req.max = -1 THEN 0 ELSE b
  <2>1. a \in Int /\ b \in Int /\ l \in Int /\ 0 <= a /\ a <= b /\ b <= l /\ b <= N
    BY <1>5, ListingsAssumption DEF PartSlice
  <2>2. /\ a = IF token <= l THEN token ELSE l
        /\ \A k \in present : k <= l
        /\ l = Max({0} \cup present)
        /\ entries' = [i \in 1..(b - a) |-> a + i]
        /\ nextindex' = IF req.max = -1 THEN 0 ELSE b
    BY <1>5, Zenon DEF PartSlice
  <2> QED BY <2>1, <2>2, Zenon
<1>7. l = 0 \/ l \in present
  <2>1. {0} \cup present \in SUBSET (0..N)
    BY <1>2, ListingsAssumption DEF Keys
  <2>2. Max({0} \cup present) \in {0} \cup present
    BY <2>1, MaxKey
  <2> QED BY <1>6, <2>2
<1>8. a < l => a = token /\ q <= a + 1
  <2> SUFFICES ASSUME a < l PROVE a = token /\ q <= a + 1
    OBVIOUS
  <2>1. a = token
    BY <1>2, <1>6
  <2>2. l \in present /\ ~ (l <= token)
    BY <1>6, <1>7, <2>1
  <2> QED BY <1>4, <2>1, <2>2
<1>9. DOMAIN entries' = 1..(b - a) /\ \A i \in 1..(b - a) : entries'[i] = a + i
  BY <1>6
<1>10. \A x \in page' : x \in Keys /\ a < x /\ x <= b
  <2> SUFFICES ASSUME NEW i \in 1..(b - a) PROVE a + i \in Keys /\ a < a + i /\ a + i <= b
    BY <1>9 DEF page
  <2> QED BY <1>6, ListingsAssumption DEF Keys
<1>11. EntriesApart'
  <2> SUFFICES ASSUME NEW i \in 1..(b - a), NEW j \in 1..(b - a), i < j PROVE apart(c, a + i, a + j)
    BY <1>1, <1>9 DEF EntriesApart
  <2>1. a + i < a + j /\ a + i \in Keys
    BY <1>6, ListingsAssumption DEF Keys
  <2> QED BY <1>1, <2>1, NoPrefixes
<1>12. \A k \in listed, x \in page' : apart(c, k, x)
  <2> SUFFICES ASSUME NEW k \in listed, NEW x \in page' PROVE apart(c, k, x)
    OBVIOUS
  <2>1. x \in Int /\ k \in Int /\ a < x /\ x <= b /\ k < q
    BY <1>2, <1>4, <1>10
  <2>2. k < x /\ k \in Keys
    BY <1>2, <1>4, <1>6, <1>8, <2>1
  <2> QED BY <1>1, <2>2, NoPrefixes
<1>13. ASSUME truncated'
       PROVE  \E p \in 1..(N + 1) :
                /\ Guard(nextindex, p)' /\ \A k \in (listed \cup page)' : settled(c, k, p)
  <2>1. nextindex' = b
    BY <1>1, <1>6, <1>13 DEF truncated
  <2>2. CASE a < b
    <3>1. PICK p \in 1..(N + 1) : p = b + 1
      BY <1>6, ListingsAssumption
    <3>2. Guard(nextindex, p)'
      <4>1. p <= nextindex' + 1
        BY <1>6, <2>1, <3>1
      <4> QED BY <1>1, <4>1 DEF Guard, ByMarker
    <3>3. ASSUME NEW k \in listed' \cup page' PROVE settled(c, k, p)
      <4>1. CASE k \in listed'
        <5>1. k < p /\ k \in Keys
          BY <1>2, <1>4, <1>6, <1>8, <2>2, <3>1, <4>1
        <5> QED BY <1>1, <5>1, NoPrefixes
      <4>2. CASE k \in page'
        <5>1. k < p /\ k \in Keys
          BY <1>2, <1>6, <1>10, <3>1, <4>2
        <5> QED BY <1>1, <5>1, NoPrefixes
      <4> QED BY <3>3, <4>1, <4>2
    <3> QED BY <3>2, <3>3
  <2>3. CASE a = b
    <3>1. page' = {}
      <4> SUFFICES ASSUME NEW x \in page' PROVE FALSE
        OBVIOUS
      <4>1. x \in Int /\ a < x /\ x <= b
        BY <1>2, <1>10
      <4> QED BY <1>6, <2>3, <4>1
    <3>2. q <= b + 1 \/ \A k \in present : k <= b
      <4>1. CASE a < l
        <5>1. q <= a + 1
          BY <1>8, <4>1
        <5> QED BY <2>3, <5>1
      <4>2. CASE ~ (a < l)
        <5>1. b = l
          BY <1>6, <2>3, <4>2
        <5>2. \A k \in present : k <= l
          BY <1>6
        <5> QED BY <5>1, <5>2
      <4> QED BY <4>1, <4>2
    <3>3. Guard(nextindex, q)'
      BY <1>1, <2>1, <3>2 DEF Guard, ByMarker
    <3>4. \A k \in (listed \cup page)' : settled(c, k, q)
      BY <1>2, <1>3, <3>1
    <3> QED BY <3>3, <3>4
  <2> QED BY <1>6, <2>2, <2>3
<1>14. Paged'
  <2>1. (IF req.op \in ByMarker THEN nextmarker ELSE nextindex)' = nextindex'
    BY <1>1 DEF ByMarker
  <2>2. ASSUME truncated'
        PROVE  \E p \in 1..(N + 1) :
                 /\ Guard(IF req.op \in ByMarker THEN nextmarker ELSE nextindex, p)'
                 /\ \A k \in (listed \cup page)' : settled(req'.common, k, p)
    BY <1>1, <1>13, <2>1, <2>2 DEF Guard
  <2> QED BY <1>1, <1>2, <1>11, <1>12, <2>2 DEF Paged
<1> QED BY <1>1, <1>2, <1>14 DEF Chain, Asked, Collected
-----------------------------------------------------------------------------
LEMMA FillChain == ASSUME Chain, Fill_start \/ Fetched PROVE Chain'
<1>1. /\ phase \in {"fill", "status"} /\ phase' \in {"status", "answer"}
      /\ UNCHANGED <<present, req, token, listing, entries, nextindex, nextmarker>>
  BY DEF Fill_start, Fetched, bucket, client, walk
<1>2. ListingApart' /\ listed' = listed /\ page' = page /\ EntriesApart'
  BY <1>1, SameListing, SameEntries DEF Chain, Paged
<1>3. Paged'
  BY <1>1, <1>2 DEF Chain, Paged, truncated, Guard, there
<1> QED BY <1>1, <1>2, <1>3 DEF Chain, Asked, Collected

\* What is left out of a page leaves the rest in order.
LEMMA FetchChain == ASSUME SizeInv, Chain, Fetch_status PROVE Chain'
<1>1. /\ phase = "status" /\ phase' = "status" /\ pos <= Len(entries)
      /\ UNCHANGED <<present, req, token, listing, nextindex, nextmarker>>
      /\ entries' = entries \/ entries' = RemoveAt(entries, pos)
  BY DEF Fetch_status, bucket, client
<1>2. ListingApart' /\ listed' = listed
  BY <1>1, SameListing DEF Chain
<1>3. EntriesApart' /\ page' \in SUBSET page
  <2>1. CASE entries' = entries
    BY <1>1, <2>1, SameEntries DEF Chain, Paged
  <2>2. CASE entries' = RemoveAt(entries, pos)
    <3> DEFINE n == Len(entries)
               f(i) == IF i < pos THEN i ELSE i + 1
    <3>1. /\ entries \in Seq(Keys) /\ n \in Nat /\ DOMAIN entries = 1..n
          /\ pos \in 1..n
      BY <1>1, ListingTypes DEF SizeInv, Sized, TypeOK
    <3>2. /\ entries' \in Seq(Keys) /\ Len(entries') = n - 1
          /\ \A i \in 1..(n - 1) : entries'[i] = IF i < pos THEN entries[i] ELSE entries[i + 1]
      BY <2>2, <3>1, Removed
    <3>3. DOMAIN entries' = 1..(n - 1)
      BY <3>2, LenProperties
    <3> HIDE DEF n
    <3>4. \A i \in 1..(n - 1) : f(i) \in DOMAIN entries /\ entries'[i] = entries[f(i)]
      BY <3>1, <3>2
    <3>5. \A i, j \in 1..(n - 1) : i < j => f(i) < f(j)
      BY <3>1
    <3> HIDE DEF f
    <3>6. \A i, j \in DOMAIN entries : i < j => apart(req.common, entries[i], entries[j])
      BY <1>1 DEF Chain, Paged, EntriesApart
    <3>7. EntriesApart'
      <4> SUFFICES ASSUME NEW i \in 1..(n - 1), NEW j \in 1..(n - 1), i < j
                   PROVE  apart(req.common, entries'[i], entries'[j])
        BY <1>1, <3>3 DEF EntriesApart
      <4>1. apart(req.common, entries[f(i)], entries[f(j)])
        BY <3>4, <3>5, <3>6
      <4> QED BY <3>4, <4>1
    <3>8. page' \in SUBSET page
      <4> SUFFICES ASSUME NEW i \in 1..(n - 1) PROVE entries'[i] \in page
        BY <3>3 DEF page
      <4> QED BY <3>4 DEF page
    <3> QED BY <3>7, <3>8
  <2> QED BY <1>1, <2>1, <2>2
<1>4. Paged'
  <2>1. /\ \A l \in listed', e \in page' : apart(req'.common, l, e)
    BY <1>1, <1>2, <1>3 DEF Chain, Paged
  <2>2. ASSUME truncated'
        PROVE  \E q \in 1..(N + 1) :
                 /\ Guard(IF req.op \in ByMarker THEN nextmarker ELSE nextindex, q)'
                 /\ \A l \in (listed \cup page)' : settled(req'.common, l, q)
    <3>1. truncated
      BY <1>1, <2>2 DEF truncated
    <3>2. PICK q \in 1..(N + 1) :
            /\ Guard(IF req.op \in ByMarker THEN nextmarker ELSE nextindex, q)
            /\ \A l \in listed \cup page : settled(req.common, l, q)
      BY <1>1, <3>1 DEF Chain, Paged
    <3>3. Guard(IF req.op \in ByMarker THEN nextmarker ELSE nextindex, q)'
      BY <1>1, <3>2 DEF Guard, there
    <3>4. \A l \in (listed \cup page)' : settled(req'.common, l, q)
      BY <1>1, <1>2, <1>3, <3>2
    <3> QED BY <3>3, <3>4
  <2> QED BY <1>3, <2>1, <2>2 DEF Paged
<1> QED BY <1>1, <1>2, <1>4 DEF Chain, Asked, Collected

LEMMA AnswerChain == ASSUME SizeInv, Chain, Answer PROVE Chain'
<1> DEFINE c == req.common
           m == Len(listing)
           n == Len(entries)
<1>1. /\ phase = "answer" /\ phase' \in {"done", "ask", "tired"} /\ (phase' = "ask" => truncated)
      /\ token' = IF req.op \in ByMarker THEN nextmarker ELSE nextindex
      /\ UNCHANGED <<present, req, entries>>
  BY DEF Answer, bucket, ByMarker
<1>2. /\ DOMAIN listing = 1..m /\ DOMAIN entries = 1..n /\ m \in Nat /\ n \in Nat
  BY ListingTypes
<1>3. /\ Len(listing') = m + n /\ DOMAIN listing' = 1..(m + n)
      /\ \A i \in 1..m : listing'[i] = listing[i]
      /\ \A i \in 1..n : listing'[m + i].key = entries[i]
  BY AnswerPage, LenProperties
<1> HIDE DEF m, n
<1>4. \A i \in 1..(m + n) :
        \/ i \in DOMAIN listing /\ listing'[i].key = listing[i].key
        \/ ~ (i <= m) /\ i - m \in DOMAIN entries /\ listing'[i].key = entries[i - m]
  <2> TAKE i \in 1..(m + n)
  <2>1. CASE i <= m
    <3>1. i \in 1..m
      BY <1>2, <2>1
    <3> QED BY <1>2, <1>3, <3>1
  <2>2. CASE ~ (i <= m)
    <3>1. PICK j \in 1..n : j = i - m /\ i = m + j
      BY <1>2, <2>2
    <3>2. listing'[i].key = entries[j]
      BY <1>3, <3>1
    <3> QED BY <1>2, <2>2, <3>1, <3>2
  <2> QED BY <2>1, <2>2
<1>5. \A i \in DOMAIN listing : listing[i].key \in listed
  BY DEF listed
<1>6. \A i \in DOMAIN entries : entries[i] \in page
  BY DEF page
<1>7. ListingApart'
  <2> SUFFICES ASSUME NEW i \in 1..(m + n), NEW j \in 1..(m + n), i < j
               PROVE  apart(c, listing'[i].key, listing'[j].key)
    BY <1>1, <1>3 DEF ListingApart
  <2>1. CASE j \in DOMAIN listing /\ listing'[j].key = listing[j].key
    <3>1. i \in DOMAIN listing /\ listing'[i].key = listing[i].key
      BY <1>2, <1>4, <2>1
    <3> QED BY <2>1, <3>1 DEF Chain, ListingApart
  <2>2. CASE ~ (j <= m) /\ j - m \in DOMAIN entries /\ listing'[j].key = entries[j - m]
    <3>1. CASE i \in DOMAIN listing /\ listing'[i].key = listing[i].key
      BY <1>1, <1>5, <1>6, <2>2, <3>1 DEF Chain, Paged
    <3>2. CASE ~ (i <= m) /\ i - m \in DOMAIN entries /\ listing'[i].key = entries[i - m]
      <4>1. i - m < j - m
        BY <1>2
      <4>2. apart(c, entries[i - m], entries[j - m])
        BY <1>1, <2>2, <3>2, <4>1 DEF Chain, Paged, EntriesApart
      <4> QED BY <2>2, <3>2, <4>2
    <3> QED BY <1>4, <3>1, <3>2
  <2> QED BY <1>4, <2>1, <2>2
<1>8. listed' \in SUBSET (listed \cup page)
  <2> SUFFICES ASSUME NEW i \in 1..(m + n) PROVE listing'[i].key \in listed \cup page
    BY <1>3 DEF listed
  <2> QED BY <1>4, <1>5, <1>6
<1>9. Asked'
  <2> SUFFICES ASSUME phase' = "ask" PROVE Asked'
    BY DEF Asked
  <2>1. PICK q \in 1..(N + 1) :
          /\ Guard(IF req.op \in ByMarker THEN nextmarker ELSE nextindex, q)
          /\ \A l \in listed \cup page : settled(c, l, q)
    BY <1>1 DEF Chain, Paged
  <2>2. Guard(token, q)'
    BY <1>1, <2>1 DEF Guard, there
  <2>3. \A l \in listed' : settled(req'.common, l, q)
    BY <1>1, <1>8, <2>1
  <2> QED BY <2>2, <2>3 DEF Asked
<1> QED BY <1>1, <1>7, <1>9 DEF Chain, Collected, Paged

\* Other requests: without additions there is no more to list before a key,
\* and markers do not depend on what there is.
LEMMA GuardChanged ==
  ASSUME SizeInv, present' \in SUBSET present \/ req.op \in ByMarker, UNCHANGED req,
         NEW q \in 1..(N + 1), NEW t \in Int, Guard(t, q)
  PROVE  Guard(t, q)'
<1>1. CASE req.op \in ByMarker
  BY <1>1 DEF Guard, ByMarker
<1>2. CASE req.op = "ListParts" /\ present' \in SUBSET present
  BY <1>2 DEF Guard, ByMarker
<1>3. CASE req.op \in {"ListObjectsV2", "ListBuckets"} /\ present' \in SUBSET present
  <2> DEFINE A == classes(req.common, there, 1, q)
             B == classes(req.common, there', 1, q)
  <2>1. there \in SUBSET Keys /\ there' \in SUBSET there /\ Adjoining(req.common) /\ q \in Int /\ 1 \in Int
    BY <1>3, ListingTypes, ListingsAssumption DEF there
  <2>2. IsFiniteSet(A)
    BY <2>1, ClassSets, Zenon
  <2>3. B \in SUBSET A
    BY <2>1, ClassLess
  <2>4. Cardinality(A) <= t
    BY <1>3 DEF Guard
  <2> HIDE DEF A, B
  <2>5. Cardinality(B) <= t
    BY <2>2, <2>3, <2>4, CardLess
  <2>6. Cardinality(classes(req'.common, there', 1, q)) <= t
    BY <2>5 DEF B
  <2> QED BY <1>3, <2>6 DEF Guard, ByMarker
<1>4. req.op \in Ops
  BY ListingTypes
<1> QED BY <1>1, <1>2, <1>3, <1>4 DEF Ops, ByMarker

LEMMA WalkGuardChanged ==
  ASSUME SizeInv, phase = "walk", present' \in SUBSET present \/ req.op \in ByMarker,
         UNCHANGED <<req, token, pos, count, commonprefix>>,
         NEW q \in 1..(N + 1), WalkGuard(q)
  PROVE  WalkGuard(q)'
<1>1. CASE req.op \in ByMarker
  BY <1>1 DEF WalkGuard
<1>2. CASE req.op \notin ByMarker
  <2> DEFINE A == ahead(req.common, there, commonprefix, pos, q)
             B == ahead(req.common, there', commonprefix, pos, q)
  <2> SUFFICES ASSUME pos < q PROVE count + Cardinality(B) <= token
    BY <1>2 DEF WalkGuard
  <2>1. /\ there \in SUBSET Keys /\ there' \in SUBSET there /\ Adjoining(req.common) /\ q \in Int
        /\ pos \in Int /\ count \in Int /\ token \in Int
    BY <1>2, ListingTypes, ListingsAssumption DEF there, ByMarker
  <2>2. IsFiniteSet(A)
    <3>1. IsFiniteSet(classes(req.common, there, pos, q))
      BY <2>1, ClassSets, Zenon
    <3> QED BY <3>1, FS_Difference DEF ahead
  <2>3. B \in SUBSET A
    <3>1. classes(req.common, there', pos, q) \in SUBSET classes(req.common, there, pos, q)
      BY <2>1, ClassLess
    <3> QED BY <3>1 DEF ahead
  <2>4. count + Cardinality(A) <= token
    BY <1>2 DEF WalkGuard
  <2> HIDE DEF A, B
  <2> QED BY <2>1, <2>2, <2>3, <2>4, CardLess
<1> QED BY <1>1, <1>2

LEMMA ChangeChain ==
  ASSUME SizeInv, Chain, present' \in SUBSET present \/ req.op \in ByMarker,
         UNCHANGED <<req, token, listing, phase, entries, walk>>
  PROVE  Chain'
<1>1. UNCHANGED <<pos, count, commonprefix, nextindex, nextmarker>>
  BY DEF walk
<1>2. /\ ListingApart' /\ listed' = listed /\ page' = page
      /\ EntriesApart => EntriesApart'
  BY SameListing, SameEntries DEF Chain
<1>3. token \in Int /\ nextindex \in Int /\ nextmarker \in Int
  BY ListingTypes
<1>4. Asked'
  <2> SUFFICES ASSUME phase = "ask" PROVE Asked'
    BY DEF Asked
  <2>1. PICK q \in 1..(N + 1) : Guard(token, q) /\ \A l \in listed : settled(req.common, l, q)
    BY DEF Chain, Asked
  <2>2. Guard(token, q)'
    BY <1>3, <2>1, GuardChanged
  <2> QED BY <1>2, <2>1, <2>2 DEF Asked
<1>5. Collected'
  <2> SUFFICES ASSUME phase = "walk" PROVE Collected'
    BY DEF Collected
  <2>1. PICK q \in 1..(N + 1) :
          /\ WalkGuard(q)
          /\ \A l \in listed : settled(req.common, l, q)
          /\ \A e \in page : q <= e
    BY DEF Chain, Collected
  <2>2. WalkGuard(q)'
    BY <1>1, <2>1, WalkGuardChanged
  <2>3. EntriesApart'
    BY <1>2 DEF Chain, Collected
  <2>4. \A e \in page' : e < pos' /\ (req'.common[e] = commonprefix' \/ settled(req'.common, e, pos'))
    BY <1>1, <1>2 DEF Chain, Collected
  <2> QED BY <1>2, <2>1, <2>2, <2>3, <2>4 DEF Collected
<1>6. Paged'
  <2> SUFFICES ASSUME phase \in {"fill", "status", "answer"} PROVE Paged'
    BY DEF Paged
  <2>1. EntriesApart' /\ \A l \in listed', e \in page' : apart(req'.common, l, e)
    BY <1>2 DEF Chain, Paged
  <2>2. ASSUME truncated'
        PROVE  \E q \in 1..(N + 1) :
                 /\ Guard(IF req.op \in ByMarker THEN nextmarker ELSE nextindex, q)'
                 /\ \A l \in (listed \cup page)' : settled(req'.common, l, q)
    <3> DEFINE t == IF req.op \in ByMarker THEN nextmarker ELSE nextindex
    <3>1. truncated
      BY <1>1, <2>2 DEF truncated
    <3>2. PICK q \in 1..(N + 1) : Guard(t, q) /\ \A l \in listed \cup page : settled(req.common, l, q)
      BY <3>1 DEF Chain, Paged
    <3>3. t \in Int /\ t' = t
      BY <1>1, <1>3
    <3> HIDE DEF t
    <3>4. Guard(t, q)'
      BY <3>2, <3>3, GuardChanged
    <3> USE DEF t
    <3>5. \A l \in (listed \cup page)' : settled(req'.common, l, q)
      BY <1>2, <3>2
    <3> QED BY <3>4, <3>5
  <2> QED BY <2>1, <2>2 DEF Paged
<1> QED BY <1>2, <1>4, <1>5, <1>6 DEF Chain

LEMMA ListingsInit == Init => ListingsInv
<1> SUFFICES ASSUME Init PROVE ListingsInv
  OBVIOUS
<1>1. SizeInv
  BY SizeInit
<1>2. phase = "ask" /\ listing = <<>> /\ token = 0 /\ present \in SUBSET Keys
  BY DEF Init
<1>3. DOMAIN listing = {}
  BY <1>2, NoEntries, Zenon
<1>4. ListingApart /\ listed = {}
  BY <1>3 DEF ListingApart, listed
<1>5. Guard(token, 1)
  <2>1. classes(req.common, there, 1, 1) = {}
    <3>1. ASSUME NEW x \in classes(req.common, there, 1, 1) PROVE FALSE
      <4>1. PICK k \in there : 1 <= k /\ k < 1
        BY <3>1, ClassOf
      <4> QED BY <1>1, <4>1, ListingTypes
    <3> QED BY <3>1
  <2>2. Cardinality(classes(req.common, there, 1, 1)) <= token
    <3>1. Cardinality(classes(req.common, there, 1, 1)) = 0
      BY <2>1, FS_EmptySet, Zenon
    <3> QED BY <1>2, <3>1
  <2>3. 1 <= token + 1
    BY <1>2
  <2> QED BY <2>2, <2>3 DEF Guard
<1>6. 1 \in 1..(N + 1)
  BY ListingsAssumption
<1>7. Asked
  BY <1>4, <1>5, <1>6 DEF Asked
<1>8. Chain /\ Counted
  BY <1>2, <1>4, <1>7 DEF Chain, Counted, Collected, Paged
<1> QED BY <1>1, <1>8 DEF ListingsInv, SizeInv

LEMMA ListingsStep == ListingsInv /\ [Next]_vars => ListingsInv'
<1> SUFFICES ASSUME ListingsInv, [Next]_vars PROVE ListingsInv'
  OBVIOUS
<1>1. SizeInv /\ Counted
  BY DEF ListingsInv, SizeInv
<1>2. SizeInv'
  BY <1>1, SizeStep
<1>3. Counted'
  BY <1>1, CountedStep
<1>4. ASSUME req'.op \in ByMarker \/ added' = {} PROVE Chain'
  <2>1. CASE \E k \in Keys : Change(k)
    <3>1. PICK k \in Keys : Change(k)
      BY <2>1
    <3>2. UNCHANGED <<req, token, listing, phase, entries, walk>>
      BY <3>1 DEF Change, client
    <3>3. \/ present' = present \ {k} /\ added' = added
          \/ present' = present \cup {k} /\ added' = added \cup {k}
      BY <3>1 DEF Change
    <3>4. present' \in SUBSET present \/ req.op \in ByMarker
      BY <1>4, <3>2, <3>3
    <3>5. req.op \in ByMarker \/ added = {}
      BY <1>4, <3>2, <3>3
    <3>6. Chain
      BY <3>5 DEF ListingsInv
    <3> QED BY <1>1, <3>2, <3>4, <3>6, ChangeChain
  <2>2. CASE UNCHANGED vars
    <3>1. UNCHANGED <<present, added, req, token, listing, phase, entries, walk>>
      BY <2>2 DEF vars, bucket, client
    <3>2. Chain
      BY <1>4, <3>1 DEF ListingsInv
    <3> QED BY <1>1, <3>1, <3>2, ChangeChain
  <2>3. CASE Serve
    <3>1. UNCHANGED <<req, added>>
      BY <2>3 DEF Serve, Start_walk, Visit_skip, Visit_early, Visit_entry, Visit_full, Walk_ends,
                  List_buckets, List_parts, Fill_start, Fetch_status, Fetched, Answer, bucket, client
    <3>2. (req.op \in ByMarker \/ added = {}) /\ Chain
      BY <1>4, <3>1 DEF ListingsInv
    <3>3. CASE Start_walk
      BY <1>1, <3>2, <3>3, StartChain
    <3>4. CASE Visit_skip \/ Visit_early
      BY <1>1, <3>2, <3>4, PassChain
    <3>5. CASE Visit_entry
      BY <1>1, <3>2, <3>5, EntryChain
    <3>6. CASE Visit_full
      BY <1>1, <3>2, <3>6, FullChain
    <3>7. CASE Walk_ends
      BY <1>1, <3>2, <3>7, WalkEndsChain
    <3>8. CASE List_buckets
      BY <1>1, <3>2, <3>8, BucketsChain
    <3>9. CASE List_parts
      BY <1>1, <3>2, <3>9, PartsChain
    <3>10. CASE Fill_start \/ Fetched
      BY <3>2, <3>10, FillChain
    <3>11. CASE Fetch_status
      BY <1>1, <3>2, <3>11, FetchChain
    <3>12. CASE Answer
      BY <1>1, <3>2, <3>12, AnswerChain
    <3> QED BY <2>3, <3>3, <3>4, <3>5, <3>6, <3>7, <3>8, <3>9, <3>10, <3>11, <3>12 DEF Serve
  <2> QED BY <2>1, <2>2, <2>3 DEF Next, Ended
<1> QED BY <1>2, <1>3, <1>4 DEF ListingsInv, SizeInv

\* The invariant of the pages put together: what was listed is apart, and the
\* page that comes next has nothing from before a key that is after it.
THEOREM ListingsInvariant == Spec => []ListingsInv
BY ListingsInit, ListingsStep, PTL DEF Spec

\* No key is listed twice on the pages a client puts together, and no common
\* prefix whose keys lie together, for every limit of a page and every order of
\* removals between and during the pages, and of additions when pages are
\* continued by a marker.
THEOREM NoneListedTwice == Spec => []NoneTwice
<1>1. ListingsInv => NoneTwice
  BY DEF ListingsInv, Chain, ListingApart, NoneTwice, ByMarker, apart, check_common_prefix
<1> QED BY <1>1, ListingsInvariant, PTL
-----------------------------------------------------------------------------
(***************************************************************************)
(* While nothing changes, the pages so far are exactly what is wanted      *)
(* before some key, and the token makes the next page start at that key.   *)
(***************************************************************************)
Quiet == changes = 0 /\ (req.max > 0 \/ begun = {}) /\ req.op # "ListParts"

firstkeys == firsts(begun)
whole == wanted(begun)

\* A page that continues at token t starts at key q.
Resumes(t, q) ==
  IF req.op \in ByMarker THEN (t = 0 /\ q = 1) \/ (t = q /\ q \in firstkeys)
  ELSE t = Cardinality(below(firstkeys, q))

\* Common prefix f is the last one before key p, or 0 and there is none.
MetLast(f, p) ==
  IF f = 0 THEN \A j \in there : j < p => req.common[j] = 0
  ELSE \E j \in there :
         /\ j < p /\ req.common[j] = f
         /\ \A m \in there : j < m /\ m < p => req.common[m] \in {0, f}

\* The walk knows all files of the directories it has read, and the common
\* prefix it has met last; it has counted what it has met.
Walks ==
  /\ known \subseteq present
  /\ \A k \in present : (Dir[k] = Top \/ \E j \in 1..(pos - 1) : Dir[j] = Dir[k]) => k \in known
  /\ MetLast(commonprefix, pos)
  /\ count = Cardinality(below(firstkeys, pos))
  /\ markerhit <=> marker # 0 /\ marker < pos /\ marker \in firstkeys

WholeAsked ==
  phase = "ask" => \E q \in 1..(N + 1) : Resumes(token, q) /\ listed = below(whole, q)

WholeWalked ==
  phase = "walk" =>
    /\ Walks
    /\ \E q \in 1..(N + 1) :
         /\ Resumes(token, q) /\ listed = below(whole, q)
         /\ page = {k \in whole : q <= k /\ k < pos}

WholePaged ==
  phase \in {"fill", "status", "answer"} =>
    /\ page \subseteq present
    /\ IF truncated
       THEN \E q \in 1..(N + 1) :
              /\ Resumes(IF req.op \in ByMarker THEN nextmarker ELSE nextindex, q)
              /\ listed \cup page = below(whole, q)
       ELSE listed \cup page = whole

WholeDone == phase = "done" => listed = whole

Whole == WholeAsked /\ WholeWalked /\ WholePaged /\ WholeDone

WholeInv ==
  /\ changes = 0 => present = begun /\ added = {}
  /\ Quiet => Whole

\* ListParts without MaxParts has one page, with all slots; with MaxParts it
\* does not come to an end.
slots(n) == [i \in 1..n |-> i]

PartsInv ==
  req.op = "ListParts" =>
    /\ phase \notin {"walk", "fill", "status"}
    /\ phase = "done" => req.max = -1
    /\ changes = 0 /\ req.max = -1 =>
         /\ phase \in {"ask", "answer"} => token = 0 /\ listing = <<>>
         /\ phase = "answer" => entries = slots(Max({0} \cup begun))
         /\ phase = "done" =>
              [i \in DOMAIN listing |-> listing[i].key] = slots(Max({0} \cup begun))

LEMMA BelowNext ==
  ASSUME NEW S \in SUBSET Keys, NEW p \in Keys
  PROVE  Cardinality(below(S, p + 1)) = Cardinality(below(S, p)) + IF p \in S THEN 1 ELSE 0
<1>1. S \in SUBSET (0..N) /\ S \in SUBSET Int /\ p \in Int
  BY ListingsAssumption DEF Keys
<1>2. IsFiniteSet(below(S, p)) /\ Cardinality(below(S, p)) \in Nat
  BY <1>1, KeySets
<1>3. \A j \in S : j < p + 1 <=> j < p \/ j = p
  BY <1>1
<1>4. CASE p \in S
  <2>1. p \notin below(S, p)
    BY <1>1 DEF below
  <2>2. \A j : j \in below(S, p + 1) <=> j \in below(S, p) \cup {p}
    BY <1>3, <1>4, Zenon DEF below
  <2>3. below(S, p + 1) = below(S, p) \cup {p}
    BY <2>2
  <2> QED BY <1>2, <1>4, <2>1, <2>3, FS_AddElement
<1>5. CASE p \notin S
  <2>1. below(S, p + 1) = below(S, p)
    BY <1>3, <1>5 DEF below
  <2> QED BY <1>2, <1>5, <2>1
<1> QED BY <1>4, <1>5

LEMMA BelowLess ==
  ASSUME NEW S \in SUBSET Keys, NEW p \in Int, NEW q \in Int, q <= p
  PROVE  Cardinality(below(S, q)) <= Cardinality(below(S, p))
<1>1. S \in SUBSET (0..N) /\ S \in SUBSET Int
  BY ListingsAssumption DEF Keys
<1>2. \A k \in S : k < q => k < p
  BY <1>1
<1>3. below(S, q) \in SUBSET below(S, p)
  BY <1>2, Zenon DEF below
<1>4. IsFiniteSet(below(S, p))
  BY <1>1, KeySets
<1> QED BY <1>3, <1>4, CardLess

\* Nothing is below the first key, and everything is below N + 1.
LEMMA BelowEnds ==
  ASSUME NEW S \in SUBSET Keys
  PROVE  below(S, 1) = {} /\ Cardinality(below(S, 1)) = 0 /\ below(S, N + 1) = S
<1>1. \A k \in S : ~ (k < 1) /\ k < N + 1
  BY ListingsAssumption DEF Keys
<1>2. below(S, 1) = {} /\ below(S, N + 1) = S
  BY <1>1 DEF below
<1> QED BY <1>2, FS_EmptySet

LEMMA WantedKeys ==
  ASSUME SizeInv
  PROVE  /\ firstkeys \in SUBSET Keys /\ whole \in SUBSET firstkeys /\ whole \in SUBSET Keys
         /\ firstkeys \in SUBSET begun /\ req.after \in Int
         /\ req.after = 0 => whole = firstkeys
         /\ req.op \in ByMarker \cup {"ListBuckets"} => req.after = 0
<1>1. begun \in SUBSET Keys /\ req \in Requests
  BY DEF SizeInv, TypeOK
<1>2. firstkeys \in SUBSET begun /\ whole \in SUBSET firstkeys
  BY DEF firstkeys, whole, firsts, wanted
<1>3. req.after = 0 => whole = firstkeys
  BY DEF firstkeys, whole, wanted
<1>4. req.op \in ByMarker \cup {"ListBuckets"} => req.after = 0
  BY <1>1, ListingsAssumption DEF ByMarker
<1>5. req.after \in Int
  BY <1>1, RequestType, ListingsAssumption DEF Keys
<1> QED BY <1>1, <1>2, <1>3, <1>4, <1>5

\* When the walk comes to a key, it knows the files of its directory.
LEMMA DirectoryKnown ==
  ASSUME SizeInv, phase = "walk", pos <= N, Walks
  PROVE  /\ read_dir \subseteq present
         /\ \A k \in present : (Dir[k] = Top \/ \E j \in 1..pos : Dir[j] = Dir[k]) => k \in read_dir
         /\ pos \in read_dir <=> pos \in present
<1>1. known \subseteq present /\ known \subseteq read_dir /\ read_dir \subseteq present
  BY DEF Walks, read_dir
<1>2. ASSUME NEW k \in present, Dir[k] = Top \/ \E j \in 1..pos : Dir[j] = Dir[k]
      PROVE  k \in read_dir
  <2>1. CASE Dir[k] = Top \/ \E j \in 1..(pos - 1) : Dir[j] = Dir[k]
    BY <1>1, <2>1 DEF Walks
  <2>2. CASE ~ (Dir[k] = Top \/ \E j \in 1..(pos - 1) : Dir[j] = Dir[k])
    <3>1. PICK j \in 1..pos : Dir[j] = Dir[k]
      BY <1>2, <2>2
    <3>2. j = pos
      BY <2>2, <3>1, WalkHere
    <3> QED BY <2>2, <3>1, <3>2 DEF read_dir
  <2> QED BY <2>1, <2>2
<1>3. pos \in 1..pos
  BY WalkHere DEF Keys
<1> QED BY <1>1, <1>2, <1>3

\* The walk passes over the keys that are not the first of what is listed.
LEMMA FirstMet ==
  ASSUME SizeInv, present = begun, phase = "walk", pos <= N, Walks
  PROVE  passed_over <=> pos \notin firstkeys
<1> DEFINE c == req.common
<1>1. pos \in Keys /\ pos \in Int /\ there \in SUBSET Keys /\ Keys \in SUBSET Int
  BY ListingTypes, WalkHere
<1>2. passed_over <=> pos \notin there \/ (c[pos] # 0 /\ c[pos] = commonprefix)
  BY DirectoryKnown DEF passed_over, there, check_common_prefix
<1>3. pos \in firstkeys <=>
        /\ pos \in there
        /\ c[pos] # 0 =>
             \A j \in there : j < pos /\ c[j] = c[pos] =>
               \E m \in there : j < m /\ m < pos /\ c[m] \notin {0, c[pos]}
  BY DEF firstkeys, firsts, there, check_common_prefix
<1>4. ASSUME c[pos] # 0, c[pos] = commonprefix PROVE pos \notin firstkeys
  <2>1. PICK j \in there : /\ j < pos /\ c[j] = c[pos]
                          /\ \A m \in there : j < m /\ m < pos => c[m] \in {0, c[pos]}
    BY <1>4 DEF Walks, MetLast
  <2> QED BY <1>3, <1>4, <2>1
<1>5. ASSUME pos \in there, pos \notin firstkeys PROVE c[pos] # 0 /\ c[pos] = commonprefix
  <2>1. PICK j \in there :
          /\ c[pos] # 0 /\ j < pos /\ c[j] = c[pos]
          /\ \A m \in there : j < m /\ m < pos => c[m] \in {0, c[pos]}
    BY <1>3, <1>5
  <2>2. commonprefix # 0
    BY <2>1 DEF Walks, MetLast
  <2>3. PICK l \in there :
          /\ l < pos /\ c[l] = commonprefix
          /\ \A m \in there : l < m /\ m < pos => c[m] \in {0, commonprefix}
    BY <2>2 DEF Walks, MetLast
  <2>4. j < l \/ l < j \/ l = j
    BY <1>1
  <2> QED BY <2>1, <2>2, <2>3, <2>4
<1> QED BY <1>2, <1>3, <1>4, <1>5

\* A visit keeps what is known of the walk.
LEMMA WalksOn ==
  ASSUME SizeInv, present = begun, phase = "walk", pos <= N, Walks,
         pos' = pos + 1, known' = read_dir, UNCHANGED <<present, begun, req, token>>,
         \/ pos \notin firstkeys /\ UNCHANGED <<count, markerhit, commonprefix>>
         \/ Met
  PROVE  Walks'
<1> DEFINE c == req.common
<1>1. /\ pos \in Keys /\ pos \in Int /\ there \in SUBSET Keys /\ Keys \in SUBSET Int
      /\ firstkeys \in SUBSET Keys /\ marker \in 0..N /\ marker \in Int
  BY ListingTypes, WalkHere, WantedKeys, ListingsAssumption
<1>2. there' = there /\ firstkeys' = firstkeys /\ marker' = marker
  BY DEF there, firstkeys, firsts, check_common_prefix, marker
<1>3. Met => pos \in firstkeys
  BY FirstMet DEF Met
<1>4. Met => pos \in there /\ (c[pos] = 0 \/ commonprefix' = c[pos])
             /\ (c[pos] = 0 => commonprefix' = commonprefix) /\ count' = count + 1
             /\ (markerhit' <=> markerhit \/ (marker # 0 /\ marker = pos))
  BY DirectoryKnown DEF Met, passed_over, there, check_common_prefix
<1>5. known' \subseteq present'
  BY DirectoryKnown
<1>6. ASSUME NEW k \in present, Dir[k] = Top \/ \E j \in 1..(pos' - 1) : Dir[j] = Dir[k]
      PROVE  k \in known'
  <2>1. pos' - 1 = pos
    BY <1>1
  <2> QED BY <1>6, <2>1, DirectoryKnown
<1>7. \A j \in there : j < pos + 1 <=> j < pos \/ j = pos
  <2>1. \A j \in there : j \in Int
    BY <1>1
  <2> QED BY <1>1, <2>1
<1>8. MetLast(commonprefix', pos + 1)
  <2>1. MetLast(commonprefix, pos)
    BY DEF Walks
  <2>2. CASE pos \in there => c[pos] \in {0, commonprefix}
    <3>1. commonprefix' = commonprefix
      BY <1>3, <1>4, <2>2, FirstMet DEF Met, passed_over, check_common_prefix
    <3>2. CASE commonprefix = 0
      BY <1>7, <2>1, <2>2, <3>1, <3>2 DEF MetLast
    <3>3. CASE commonprefix # 0
      <4>1. PICK j \in there :
              /\ j < pos /\ c[j] = commonprefix
              /\ \A m \in there : j < m /\ m < pos => c[m] \in {0, commonprefix}
        BY <2>1, <3>3 DEF MetLast
      <4> QED BY <1>7, <2>2, <3>1, <3>3, <4>1 DEF MetLast
    <3> QED BY <3>2, <3>3
  <2>3. CASE pos \in there /\ c[pos] \notin {0, commonprefix}
    <3>1. Met
      BY <2>3, FirstMet, DirectoryKnown DEF passed_over, there, check_common_prefix
    <3>2. commonprefix' = c[pos] /\ c[pos] # 0
      BY <1>4, <2>3, <3>1
    <3>3. pos < pos + 1 /\ \A m \in there : m < pos + 1 => ~ (pos < m)
      BY <1>1
    <3> QED BY <2>3, <3>2, <3>3 DEF MetLast
  <2> QED BY <2>2, <2>3
<1>9. count' = Cardinality(below(firstkeys, pos + 1))
  <2>1. Cardinality(below(firstkeys, pos + 1))
          = Cardinality(below(firstkeys, pos)) + IF pos \in firstkeys THEN 1 ELSE 0
    BY <1>1, BelowNext
  <2>2. Cardinality(below(firstkeys, pos)) = count /\ count \in Int
    BY ListingTypes DEF Walks
  <2> QED BY <1>3, <1>4, <2>1, <2>2
<1>10. markerhit' <=> marker # 0 /\ marker < pos + 1 /\ marker \in firstkeys
  <2>1. markerhit <=> marker # 0 /\ marker < pos /\ marker \in firstkeys
    BY DEF Walks
  <2>2. marker < pos + 1 <=> marker < pos \/ marker = pos
    BY <1>1
  <2>3. CASE Met
    BY <1>3, <1>4, <2>1, <2>2, <2>3
  <2>4. CASE pos \notin firstkeys /\ UNCHANGED markerhit
    BY <2>1, <2>2, <2>4
  <2> QED BY <2>3, <2>4
<1>11. MetLast(commonprefix, pos)'
  BY <1>2, <1>8 DEF MetLast
<1> QED BY <1>2, <1>5, <1>6, <1>9, <1>10, <1>11 DEF Walks

\* The walk lists what is wanted, from the key that the page starts with.
LEMMA WantedListed ==
  ASSUME SizeInv, present = begun, phase = "walk", pos <= N, Walks, pos \in firstkeys,
         NEW q \in 1..(N + 1), Resumes(token, q)
  PROVE  ~ too_early <=> pos \in whole /\ q <= pos
<1>1. /\ pos \in Keys /\ pos \in Int /\ q \in Int /\ firstkeys \in SUBSET Keys
      /\ firstkeys \in SUBSET (0..N) /\ req.after \in Int
      /\ pos >= 1 /\ count \in Int /\ token \in Int
  BY ListingTypes, WalkHere, WantedKeys, ListingsAssumption DEF Keys
<1>2. markerhit <=> marker # 0 /\ marker < pos /\ marker \in firstkeys
  BY DEF Walks
<1>3. CASE req.op \in ByMarker
  <2>1. marker = token /\ index = 0 /\ whole = firstkeys
    BY <1>3, WantedKeys DEF marker, index, Walking, ByMarker
  <2>2. ~ (count < index)
    BY <2>1 DEF SizeInv, TypeOK
  <2>3. \/ token = 0 /\ q = 1
        \/ token = q /\ q \in firstkeys
    BY <1>3 DEF Resumes
  <2> QED BY <1>1, <1>2, <2>1, <2>2, <2>3 DEF too_early
<1>4. CASE req.op = "ListObjectsV2"
  <2>1. marker = req.after /\ index = token
    BY <1>4 DEF marker, index
  <2>2. count = Cardinality(below(firstkeys, pos)) /\ token = Cardinality(below(firstkeys, q))
    BY <1>4 DEF Walks, Resumes, ByMarker
  <2>3. pos < q => count < token
    BY <1>1, <2>2, BelowMore
  <2>4. q <= pos => token <= count
    BY <1>1, <2>2, BelowLess
  <2>5. count < token <=> pos < q
    BY <1>1, <2>3, <2>4
  <2>6. pos \in whole <=> (req.after # 0 => req.after \in firstkeys /\ pos >= req.after)
    BY DEF whole, wanted, firstkeys
  <2> QED BY <1>1, <1>2, <2>1, <2>5, <2>6 DEF too_early
<1> QED BY <1>3, <1>4, WalkHere, WalkingOps

LEMMA SameWanted ==
  ASSUME UNCHANGED <<begun, req>>
  PROVE  /\ firstkeys' = firstkeys /\ whole' = whole
         /\ \A t, q : Resumes(t, q)' <=> Resumes(t, q)
<1>1. firstkeys' = firstkeys /\ whole' = whole
  BY DEF firstkeys, whole, firsts, wanted, check_common_prefix
<1> QED BY <1>1 DEF Resumes

\* The first page starts with the first key.
LEMMA WholeStart ==
  ASSUME SizeInv, present = begun, Whole, Start_walk PROVE Whole'
<1>1. /\ phase = "ask" /\ req.op \in Walking /\ phase' = "walk" /\ pos' = 1 /\ entries' = <<>>
      /\ known' = {k \in present : Dir[k] = Top} /\ markerhit' = FALSE
      /\ count' = 0 /\ commonprefix' = 0
      /\ UNCHANGED <<present, begun, req, token, listing>>
  BY DEF Start_walk, bucket, client
<1>2. /\ listed' = listed /\ there' = there /\ firstkeys' = firstkeys /\ whole' = whole
      /\ \A t, q : Resumes(t, q)' <=> Resumes(t, q)
  BY <1>1, SameWanted DEF listed, there
<1>3. DOMAIN entries' = {} /\ page' = {}
  <2>1. DOMAIN entries' = {}
    BY <1>1, NoEntries, Zenon
  <2> QED BY <2>1 DEF page
<1>4. /\ firstkeys \in SUBSET Keys /\ whole \in SUBSET Keys /\ there \in SUBSET Keys
      /\ \A k \in Keys : ~ (k < 1)
  BY ListingTypes, WantedKeys, ListingsAssumption DEF Keys
<1>5. Walks'
  <2>1. known' \subseteq present'
    BY <1>1
  <2>2. \A k \in present' :
          (Dir[k] = Top \/ \E j \in 1..(pos' - 1) : Dir[j] = Dir[k]) => k \in known'
    <3>1. 1..(pos' - 1) = {}
      BY <1>1
    <3> QED BY <1>1, <3>1
  <2>3. count' = Cardinality(below(firstkeys, pos))'
    BY <1>1, <1>2, <1>4, BelowEnds
  <2>4. markerhit' <=> marker' # 0 /\ marker' < pos' /\ marker' \in firstkeys'
    BY <1>1, <1>2, <1>4
  <2>5. \A j \in there' : ~ (j < pos')
    BY <1>1, <1>2, <1>4
  <2> QED BY <1>1, <2>1, <2>2, <2>3, <2>4, <2>5 DEF Walks, MetLast
<1>6. PICK q \in 1..(N + 1) : Resumes(token, q) /\ listed = below(whole, q)
  BY <1>1 DEF Whole, WholeAsked
<1>7. {k \in whole : q <= k /\ k < 1} = {}
  BY <1>4
<1>8. WholeWalked'
  <2>1. Resumes(token, q)' /\ listed' = below(whole', q) /\ page' = {k \in whole' : q <= k /\ k < pos'}
    BY <1>1, <1>2, <1>3, <1>6, <1>7 DEF Resumes
  <2>2. below(whole, q)' = below(whole', q)
    BY DEF below
  <2> QED BY <1>5, <2>1, <2>2 DEF WholeWalked
<1> QED BY <1>1, <1>8 DEF Whole, WholeAsked, WholePaged, WholeDone

\* A visit that puts nothing on the page: the key is not wanted, or listed.
LEMMA WholePass ==
  ASSUME SizeInv, present = begun, Whole, Visit_skip \/ Visit_early PROVE Whole'
<1>1. /\ phase = "walk" /\ pos <= N /\ pos' = pos + 1 /\ phase' = "walk" /\ known' = read_dir
      /\ UNCHANGED <<present, begun, req, token, listing, entries>>
  BY DEF Visit_skip, Visit_early, Met, bucket, client
<1>2. /\ listed' = listed /\ page' = page /\ firstkeys' = firstkeys /\ whole' = whole
      /\ \A t, q : Resumes(t, q)' <=> Resumes(t, q)
  BY <1>1, SameWanted DEF listed, page
<1>3. Walks
  BY <1>1 DEF Whole, WholeWalked
<1>4. PICK q \in 1..(N + 1) :
        /\ Resumes(token, q) /\ listed = below(whole, q)
        /\ page = {k \in whole : q <= k /\ k < pos}
  BY <1>1 DEF Whole, WholeWalked
<1>5. Walks' /\ ~ (pos \in whole /\ q <= pos)
  <2>1. CASE Visit_skip
    <3>1. pos \notin firstkeys /\ UNCHANGED <<count, markerhit, commonprefix>>
      BY <1>1, <1>3, <2>1, FirstMet DEF Visit_skip
    <3> QED BY <1>1, <1>3, <3>1, WalksOn, WantedKeys
  <2>2. CASE Visit_early
    <3>1. Met /\ too_early /\ pos \in firstkeys
      BY <1>1, <1>3, <2>2, FirstMet DEF Visit_early, Met
    <3> QED BY <1>1, <1>3, <1>4, <3>1, WalksOn, WantedListed
  <2> QED BY <2>1, <2>2
<1>6. {k \in whole : q <= k /\ k < pos + 1} = {k \in whole : q <= k /\ k < pos}
  <2>1. pos \in Int /\ \A k \in whole : k \in Int
    BY ListingTypes, WantedKeys
  <2>2. \A k \in whole : k < pos + 1 <=> k < pos \/ k = pos
    BY <2>1
  <2> QED BY <1>5, <2>2
<1>7. WholeWalked'
  <2>1. Resumes(token, q)' /\ listed' = below(whole', q) /\ page' = {k \in whole' : q <= k /\ k < pos'}
    BY <1>1, <1>2, <1>4, <1>6 DEF Resumes
  <2>2. below(whole, q)' = below(whole', q)
    BY DEF below
  <2> QED BY <1>5, <2>1, <2>2 DEF WholeWalked
<1> QED BY <1>1, <1>7 DEF Whole, WholeAsked, WholePaged, WholeDone

\* What is on a page with an entry more.
LEMMA PageAppend ==
  ASSUME SizeInv, NEW k \in Keys, entries' = Append(entries, k)
  PROVE  page' = page \cup {k}
<1>1. entries \in Seq(Keys) /\ Len(entries) \in Nat /\ DOMAIN entries = 1..Len(entries)
  BY LenProperties DEF SizeInv, Sized
<1> DEFINE n == Len(entries)
<1>2. /\ DOMAIN entries' = 1..(n + 1) /\ entries'[n + 1] = k
      /\ \A i \in 1..n : entries'[i] = entries[i]
  BY <1>1, AppendProperties
<1>3. 1..(n + 1) = 1..n \cup {n + 1}
  <2> HIDE DEF n
  <2> QED BY <1>1 DEF n
<1> HIDE DEF n
<1>4. page = {entries[i] : i \in 1..n} /\ page' = {entries'[i] : i \in 1..(n + 1)}
  BY <1>1, <1>2 DEF page, n
<1> QED BY <1>2, <1>3, <1>4

LEMMA WholeEntry ==
  ASSUME SizeInv, present = begun, Whole, Visit_entry PROVE Whole'
<1>1. /\ phase = "walk" /\ pos <= N /\ pos' = pos + 1 /\ phase' = "walk" /\ known' = read_dir
      /\ Met /\ ~ passed_over /\ ~ too_early
      /\ UNCHANGED <<present, begun, req, token, listing>>
  BY DEF Visit_entry, Met, bucket, client
<1>2. /\ listed' = listed /\ firstkeys' = firstkeys /\ whole' = whole
      /\ \A t, q : Resumes(t, q)' <=> Resumes(t, q)
  BY <1>1, SameWanted DEF listed
<1>3. Walks
  BY <1>1 DEF Whole, WholeWalked
<1>4. PICK q \in 1..(N + 1) :
        /\ Resumes(token, q) /\ listed = below(whole, q)
        /\ page = {k \in whole : q <= k /\ k < pos}
  BY <1>1 DEF Whole, WholeWalked
<1>5. pos \in firstkeys /\ pos \in whole /\ q <= pos
  BY <1>1, <1>3, <1>4, FirstMet, WantedListed
<1>6. page' = page \cup {pos}
  <2>1. pos \in present
    BY <1>5, WantedKeys
  <2> QED BY <1>1, <2>1, PageAppend, WalkHere DEF Visit_entry
<1>7. Walks'
  BY <1>1, <1>3, WalksOn
<1>8. {k \in whole : q <= k /\ k < pos + 1} = {k \in whole : q <= k /\ k < pos} \cup {pos}
  <2>1. pos \in Int /\ \A k \in whole : k \in Int
    BY ListingTypes, WantedKeys
  <2>2. \A k \in whole : k < pos + 1 <=> k < pos \/ k = pos
    BY <2>1
  <2> QED BY <1>5, <2>2
<1>9. WholeWalked'
  <2>1. Resumes(token, q)' /\ listed' = below(whole', q) /\ page' = {k \in whole' : q <= k /\ k < pos'}
    BY <1>1, <1>2, <1>4, <1>6, <1>8 DEF Resumes
  <2>2. below(whole, q)' = below(whole', q)
    BY DEF below
  <2> QED BY <1>7, <2>1, <2>2 DEF WholeWalked
<1> QED BY <1>1, <1>9 DEF Whole, WholeAsked, WholePaged, WholeDone

\* A full page ends before the key at which the next one starts.
LEMMA WholeFull ==
  ASSUME SizeInv, present = begun, Quiet, Whole, Visit_full PROVE Whole'
<1>1. /\ phase = "walk" /\ pos <= N /\ phase' = "fill"
      /\ Met /\ ~ passed_over /\ ~ too_early /\ counted >= req.max
      /\ nextindex' = count /\ nextmarker' = pos
      /\ UNCHANGED <<present, begun, req, token, listing, entries>>
  BY DEF Visit_full, Met, bucket, client
<1>2. /\ listed' = listed /\ page' = page /\ firstkeys' = firstkeys /\ whole' = whole
      /\ \A t, q : Resumes(t, q)' <=> Resumes(t, q)
  BY <1>1, SameWanted DEF listed, page
<1>3. Walks
  BY <1>1 DEF Whole, WholeWalked
<1>4. PICK q \in 1..(N + 1) :
        /\ Resumes(token, q) /\ listed = below(whole, q)
        /\ page = {k \in whole : q <= k /\ k < pos}
  BY <1>1 DEF Whole, WholeWalked
<1>5. pos \in firstkeys /\ pos \in whole /\ q <= pos
  BY <1>1, <1>3, <1>4, FirstMet, WantedListed
<1>6. /\ pos \in Int /\ pos \in 1..(N + 1) /\ q \in Int /\ whole \in SUBSET begun
      /\ \A k \in whole : k \in Int
  BY <1>1, WantedKeys, ListingTypes, WalkHere, ListingsAssumption DEF Keys
<1>7. listed \cup page = below(whole, pos)
  <2>1. \A k \in whole : k < pos <=> k < q \/ (q <= k /\ k < pos)
    BY <1>5, <1>6
  <2>2. \A k : k \in listed \cup page <=> k \in below(whole, pos)
    BY <1>4, <2>1, Zenon DEF below
  <2> QED BY <2>2
<1>8. page \in SUBSET present
  BY <1>4, <1>6
<1>9. count # 0
  <2>1. req.max > 0 /\ req.max \in Int
    BY <1>5, <1>6, RequestType DEF Quiet, SizeInv, TypeOK
  <2>2. counted \in Nat /\ counted <= Len(entries)
    BY CountedEntries DEF SizeInv, Sized
  <2>3. count \in Nat /\ Len(entries) \in Nat /\ Len(entries) <= count
    BY <1>1, WalkHere
  <2> QED BY <1>1, <2>1, <2>2, <2>3
<1>10. PICK p \in 1..(N + 1) : p = pos
  BY <1>6
<1>11. Resumes(IF req.op \in ByMarker THEN nextmarker ELSE nextindex, p)'
  <2>1. count = Cardinality(below(firstkeys, pos))
    BY <1>3 DEF Walks
  <2> QED BY <1>1, <1>2, <1>5, <1>10, <2>1 DEF Resumes
<1>12. WholePaged'
  <2>1. truncated'
    BY <1>1, <1>6, <1>9 DEF truncated, Quiet
  <2>2. (listed \cup page)' = below(whole, p)'
    BY <1>2, <1>7, <1>10
  <2> QED BY <1>1, <1>2, <1>8, <1>11, <2>1, <2>2 DEF WholePaged
<1> QED BY <1>1, <1>12 DEF Whole, WholeAsked, WholeWalked, WholeDone

LEMMA WholeEnds ==
  ASSUME SizeInv, present = begun, Whole, Walk_ends PROVE Whole'
<1>1. /\ phase = "walk" /\ pos > N /\ phase' = "fill"
      /\ UNCHANGED <<present, begun, req, token, listing, entries, nextindex, nextmarker>>
  BY DEF Walk_ends, bucket, client, walk
<1>2. listed' = listed /\ page' = page /\ whole' = whole
  BY <1>1, SameWanted DEF listed, page
<1>3. PICK q \in 1..(N + 1) : listed = below(whole, q) /\ page = {k \in whole : q <= k /\ k < pos}
  BY <1>1 DEF Whole, WholeWalked
<1>4. ~ truncated'
  <2>1. nextindex = 0 /\ nextmarker = 0 /\ req.op \in Walking
    BY <1>1 DEF SizeInv, Walked
  <2> QED BY <1>1, <2>1 DEF truncated, Walking
<1>5. whole \in SUBSET begun /\ whole \in SUBSET Keys /\ q \in Int /\ pos \in Int
  BY WantedKeys, ListingTypes, ListingsAssumption
<1>6. \A k \in whole : k < q \/ (q <= k /\ k < pos)
  BY <1>1, <1>5, ListingsAssumption DEF Keys
<1>7. listed \cup page = whole
  BY <1>3, <1>6 DEF below
<1>8. WholePaged'
  BY <1>1, <1>2, <1>3, <1>4, <1>5, <1>7 DEF WholePaged
<1> QED BY <1>1, <1>8 DEF Whole, WholeAsked, WholeWalked, WholeDone

\* What is on the page is still there when its status is read.
LEMMA PresentKept ==
  ASSUME SizeInv, page \subseteq present, Fill_start \/ Fetch_status \/ Fetched
  PROVE  UNCHANGED entries
<1>1. CASE Fetch_status
  <2>1. /\ pos <= Len(entries) /\ pos \in Nat /\ pos >= 1 /\ Len(entries) \in Nat
        /\ DOMAIN entries = 1..Len(entries)
    BY <1>1, ListingTypes, ListingsAssumption DEF Fetch_status, SizeInv, TypeOK
  <2>2. entries[pos] \in page
    BY <2>1 DEF page
  <2> QED BY <1>1, <2>2 DEF Fetch_status
<1> QED BY <1>1 DEF Fill_start, Fetched

LEMMA WholeFilled ==
  ASSUME SizeInv, Whole, Fill_start \/ Fetch_status \/ Fetched PROVE Whole'
<1>1. /\ phase \in {"fill", "status"} /\ phase' \in {"status", "answer"}
      /\ UNCHANGED <<present, begun, req, token, listing, nextindex, nextmarker>>
  BY DEF Fill_start, Fetch_status, Fetched, bucket, client, walk
<1>2. page \subseteq present
  BY <1>1 DEF Whole, WholePaged
<1>3. UNCHANGED entries
  BY <1>2, PresentKept
<1>4. /\ listed' = listed /\ page' = page /\ whole' = whole /\ (truncated' <=> truncated)
      /\ \A t, q : Resumes(t, q)' <=> Resumes(t, q)
  BY <1>1, <1>3, SameWanted DEF listed, page, truncated
<1>5. WholePaged'
  <2>1. CASE truncated
    <3>1. PICK q \in 1..(N + 1) :
            /\ Resumes(IF req.op \in ByMarker THEN nextmarker ELSE nextindex, q)
            /\ listed \cup page = below(whole, q)
      BY <1>1, <2>1 DEF Whole, WholePaged
    <3>2. Resumes(IF req.op \in ByMarker THEN nextmarker ELSE nextindex, q)'
      BY <1>1, <1>4, <3>1 DEF Resumes
    <3>3. (listed \cup page)' = below(whole, q)'
      BY <1>4, <3>1
    <3> QED BY <1>1, <1>2, <1>4, <2>1, <3>2, <3>3 DEF WholePaged
  <2>2. CASE ~ truncated
    BY <1>1, <1>2, <1>4, <2>2 DEF Whole, WholePaged
  <2> QED BY <2>1, <2>2
<1> QED BY <1>1, <1>5 DEF Whole, WholeAsked, WholeWalked, WholeDone

\* What has been listed when the client has got a page.
LEMMA AnswerListed ==
  ASSUME SizeInv, Answer PROVE listed' = listed \cup page
<1> DEFINE m == Len(listing)
           n == Len(entries)
<1>1. DOMAIN listing = 1..m /\ DOMAIN entries = 1..n /\ m \in Nat /\ n \in Nat
  BY ListingTypes
<1>2. /\ DOMAIN listing' = 1..(m + n)
      /\ \A i \in 1..m : listing'[i] = listing[i]
      /\ \A i \in 1..n : listing'[m + i].key = entries[i]
  BY AnswerPage, LenProperties
<1> HIDE DEF m, n
<1>3. ASSUME NEW i \in 1..(m + n) PROVE listing'[i].key \in listed \cup page
  <2>1. CASE i \in 1..m
    BY <1>1, <1>2, <2>1 DEF listed
  <2>2. CASE i \notin 1..m
    <3>1. PICK j \in 1..n : i = m + j
      <4>1. i - m \in 1..n /\ i = m + (i - m)
        BY <1>1, <2>2
      <4> QED BY <4>1
    <3>2. listing'[i].key = entries[j]
      BY <1>2, <3>1
    <3> QED BY <1>1, <3>2 DEF page
  <2> QED BY <2>1, <2>2
<1>4. listed' \in SUBSET (listed \cup page)
  BY <1>2, <1>3 DEF listed
<1>5. ASSUME NEW i \in 1..m PROVE listing[i].key \in listed'
  <2>1. i \in DOMAIN listing' /\ listing'[i].key = listing[i].key
    BY <1>1, <1>2
  <2> QED BY <2>1 DEF listed
<1>6. ASSUME NEW i \in 1..n PROVE entries[i] \in listed'
  <2>1. m + i \in DOMAIN listing' /\ listing'[m + i].key = entries[i]
    BY <1>1, <1>2
  <2> QED BY <2>1 DEF listed
<1>7. listed \cup page \in SUBSET listed'
  BY <1>1, <1>5, <1>6 DEF listed, page
<1> QED BY <1>4, <1>7

LEMMA WholeAnswer == ASSUME SizeInv, Whole, Answer PROVE Whole'
<1>1. /\ phase = "answer" /\ phase' \in {"done", "ask", "tired"}
      /\ (phase' = "ask" => truncated) /\ (phase' = "done" => ~ truncated)
      /\ token' = IF req.op \in ByMarker THEN nextmarker ELSE nextindex
      /\ UNCHANGED <<present, begun, req, entries>>
  BY DEF Answer, bucket, ByMarker
<1>2. /\ listed' = listed \cup page /\ whole' = whole
      /\ \A t, q : Resumes(t, q)' <=> Resumes(t, q)
  BY <1>1, SameWanted, AnswerListed
<1>3. WholeAsked'
  <2> SUFFICES ASSUME phase' = "ask" PROVE WholeAsked'
    BY DEF WholeAsked
  <2>1. PICK q \in 1..(N + 1) :
          /\ Resumes(IF req.op \in ByMarker THEN nextmarker ELSE nextindex, q)
          /\ listed \cup page = below(whole, q)
    BY <1>1 DEF Whole, WholePaged
  <2>2. Resumes(token, q)'
    BY <1>1, <1>2, <2>1 DEF Resumes
  <2>3. listed' = below(whole, q)'
    BY <1>2, <2>1
  <2> QED BY <2>2, <2>3 DEF WholeAsked
<1>4. WholeDone'
  BY <1>1, <1>2 DEF Whole, WholePaged, WholeDone
<1> QED BY <1>1, <1>3, <1>4 DEF Whole, WholeWalked, WholePaged

\* Each key has its place in Ordered.
LEMMA OrderedRank ==
  ASSUME NEW S \in SUBSET Keys, NEW k \in S
  PROVE  /\ Cardinality(below(S, k)) + 1 \in 1..Cardinality(S)
         /\ Ordered(S)[Cardinality(below(S, k)) + 1] = k
<1> DEFINE o == Ordered(S)
           n == Cardinality(S)
           r == Cardinality(below(S, k))
<1>1. S \in SUBSET (0..N) /\ k \in Int
  BY ListingsAssumption DEF Keys
<1>2. n \in Nat /\ r \in Nat
  BY <1>1, KeySets
<1>3. r < n
  <2>1. Cardinality(below(S, k)) < Cardinality(below(S, N + 1))
    <3>1. N + 1 \in Int /\ k < N + 1
      BY ListingsAssumption DEF Keys
    <3> QED BY <1>1, <3>1, BelowMore
  <2> QED BY <2>1, BelowEnds
<1>4. r + 1 \in 1..n /\ (r + 1) - 1 = r
  <2> HIDE DEF r, n
  <2> QED BY <1>2, <1>3
<1>5. o[r + 1] \in S /\ Cardinality(below(S, o[r + 1])) = r
  <2>1. o[r + 1] \in S /\ Cardinality(below(S, o[r + 1])) = (r + 1) - 1
    BY <1>4, OrderedKeys
  <2> QED BY <1>4, <2>1
<1>6. PICK l \in S : l = o[r + 1]
  BY <1>5
<1>7. l \in Int /\ Cardinality(below(S, l)) = Cardinality(below(S, k))
  BY <1>1, <1>5, <1>6, ListingsAssumption
<1>8. ~ (l < k)
  <2>1. l < k => Cardinality(below(S, l)) < Cardinality(below(S, k))
    BY <1>1, BelowMore
  <2> QED BY <1>2, <1>7, <2>1
<1>9. ~ (k < l)
  <2>1. k < l => Cardinality(below(S, k)) < Cardinality(below(S, l))
    BY <1>1, <1>7, BelowMore
  <2> QED BY <1>2, <1>7, <2>1
<1> QED BY <1>1, <1>4, <1>6, <1>7, <1>8, <1>9

\* A page of buckets is the next ones in order.
LEMMA WholeBuckets ==
  ASSUME SizeInv, present = begun, Quiet, Whole, List_buckets PROVE Whole'
<1> DEFINE S == there
           n == Cardinality(S)
           o == Ordered(S)
<1>1. /\ phase = "ask" /\ req.op = "ListBuckets" /\ phase' = "fill"
      /\ UNCHANGED <<present, begun, req, token, listing>>
  BY DEF List_buckets, bucket, client
<1>2. /\ listed' = listed /\ firstkeys' = firstkeys /\ whole' = whole
      /\ \A t, q : Resumes(t, q)' <=> Resumes(t, q)
  BY <1>1, SameWanted DEF listed
<1>3. S \in SUBSET Keys /\ Keys \in SUBSET Int /\ token \in Int /\ token >= 0 /\ S \in SUBSET (0..N)
  BY ListingTypes, ListingsAssumption DEF SizeInv, TypeOK, Keys
<1>4. firstkeys = S /\ whole = S
  <2>1. firstkeys = S
    BY <1>1, <1>3, NoPrefixes DEF firstkeys, firsts, there, check_common_prefix
  <2> QED BY <1>1, <2>1, WantedKeys
<1>5. PICK q \in 1..(N + 1) : token = Cardinality(below(S, q)) /\ listed = below(S, q)
  BY <1>1, <1>4 DEF Whole, WholeAsked, Resumes, ByMarker
<1>6. q \in Int
  BY ListingsAssumption
<1>7. entries' \in Seq(Keys) /\ DOMAIN entries' = 1..Len(entries')
  BY BucketPage, LenProperties
<1>8. n \in Nat /\ \A k \in S : Cardinality(below(S, k)) \in Nat
  BY <1>3, KeySets
<1>9. CASE n <= token /\ Len(entries') = 0 /\ nextindex' = 0
  <2>1. DOMAIN entries' = {}
    BY <1>7, <1>9
  <2>2. page' = {}
    BY <2>1 DEF page
  <2>3. ~ truncated'
    BY <1>1, <1>9 DEF truncated
  <2>4. ASSUME NEW k \in S PROVE k < q
    <3>1. Cardinality(below(S, k)) + 1 \in 1..n
      BY <1>3, OrderedRank
    <3>2. k \in Int
      BY <1>3
    <3>3. q <= k => Cardinality(below(S, q)) <= Cardinality(below(S, k))
      BY <1>3, <1>6, <3>2, BelowLess
    <3> HIDE DEF n
    <3> QED BY <1>3, <1>5, <1>6, <1>8, <1>9, <3>1, <3>2, <3>3
  <2>5. listed = S
    BY <1>5, <2>4 DEF below
  <2>6. WholePaged'
    BY <1>2, <1>4, <2>2, <2>3, <2>5 DEF WholePaged
  <2> QED BY <1>1, <2>6 DEF Whole, WholeAsked, WholeWalked, WholeDone
<1>10. CASE \E e \in Nat : BucketSlice(e)
  <2>1. PICK e \in Nat : BucketSlice(e)
    BY <1>10
  <2>2. /\ token <= e /\ e <= n /\ Len(entries') = e - token
        /\ (e = token => req.max = 0)
        /\ \A i \in 1..(e - token) : entries'[i] = o[token + i]
        /\ nextindex' = IF e < n THEN e ELSE 0
    BY <2>1 DEF BucketSlice, there
  <2>3. /\ \A i \in 1..n : o[i] \in S /\ Cardinality(below(S, o[i])) = i - 1
        /\ \A i, j \in 1..n : i < j => o[i] < o[j]
    BY <1>3, OrderedKeys
  <2>4. \A k \in S : \E i \in 1..n : o[i] = k
    BY <1>3, OrderedRank
  <2> HIDE DEF o, n
  <2>5. ASSUME NEW i \in 1..n PROVE o[i] \in listed <=> i <= token
    <3>1. o[i] \in S /\ Cardinality(below(S, o[i])) = i - 1 /\ o[i] \in Int
      BY <1>3, <2>3
    <3>2. q <= o[i] => Cardinality(below(S, q)) <= Cardinality(below(S, o[i]))
      BY <1>3, <1>6, <3>1, BelowLess
    <3>3. o[i] < q => Cardinality(below(S, o[i])) < Cardinality(below(S, q))
      BY <1>3, <1>6, <3>1, BelowMore
    <3>4. o[i] < q <=> i <= token
      BY <1>3, <1>5, <1>6, <1>8, <3>1, <3>2, <3>3
    <3> QED BY <1>5, <3>1, <3>4 DEF below
  <2>6. ASSUME NEW i \in 1..n PROVE o[i] \in page' <=> token < i /\ i <= e
    <3>1. ASSUME token < i, i <= e PROVE o[i] \in page'
      <4>1. PICK j \in 1..(e - token) : i = token + j
        <5>1. i - token \in 1..(e - token) /\ i = token + (i - token)
          BY <1>3, <3>1
        <5> QED BY <5>1
      <4>2. j \in DOMAIN entries' /\ entries'[j] = o[i]
        BY <1>7, <2>2, <4>1
      <4> QED BY <4>2 DEF page
    <3>2. ASSUME o[i] \in page' PROVE token < i /\ i <= e
      <4>1. PICK j \in DOMAIN entries' : o[i] = entries'[j]
        BY <3>2 DEF page
      <4>2. j \in 1..(e - token) /\ entries'[j] = o[token + j]
        BY <1>7, <2>2, <4>1
      <4>3. PICK m \in 1..n : m = token + j /\ token < m /\ m <= e
        BY <1>3, <1>8, <2>2, <4>2
      <4>4. Cardinality(below(S, o[i])) = i - 1 /\ Cardinality(below(S, o[m])) = m - 1 /\ o[i] = o[m]
        BY <2>3, <4>1, <4>2, <4>3
      <4>5. i = m
        BY <1>8, <4>4
      <4> QED BY <4>3, <4>5
    <3> QED BY <3>1, <3>2
  <2>7. page' \in SUBSET S
    <3> SUFFICES ASSUME NEW j \in DOMAIN entries' PROVE entries'[j] \in S
      BY DEF page
    <3>1. j \in 1..(e - token) /\ entries'[j] = o[token + j]
      BY <1>7, <2>2
    <3>2. token + j \in 1..n
      BY <1>3, <1>8, <2>2, <3>1
    <3> QED BY <2>3, <3>1, <3>2
  <2>8. listed \in SUBSET S /\ \A i \in 1..n : o[i] \in listed \cup page' <=> i <= e
    BY <1>3, <1>5, <1>8, <2>2, <2>5, <2>6 DEF below
  <2>9. CASE truncated'
    <3>1. nextindex' # 0
      BY <1>1, <2>9 DEF truncated
    <3>2. e < n /\ nextindex' = e /\ e + 1 \in 1..n
      BY <1>3, <1>8, <2>2, <3>1
    <3>3. PICK p \in S : p = o[e + 1]
      BY <2>3, <3>2
    <3>4. Cardinality(below(S, p)) = e
      <4>1. Cardinality(below(S, p)) = (e + 1) - 1
        BY <2>3, <3>2, <3>3
      <4> QED BY <4>1
    <3>5. p \in 1..(N + 1) /\ p \in Int
      BY <1>3, ListingsAssumption DEF Keys
    <3>6. ASSUME NEW i \in 1..n PROVE o[i] < p <=> i <= e
      <4>1. i < e + 1 => o[i] < p
        BY <2>3, <3>2, <3>3
      <4>2. e + 1 < i => p < o[i]
        BY <2>3, <3>2, <3>3
      <4>3. o[i] \in Int /\ (i = e + 1 => o[i] = p)
        BY <1>3, <2>3, <3>3
      <4> QED BY <1>8, <3>2, <3>5, <4>1, <4>2, <4>3
    <3>7. \A k : k \in listed \cup page' <=> k \in below(S, p)
      <4>1. \A k \in S : k \in listed \cup page' <=> k < p
        BY <2>4, <2>8, <3>6
      <4> QED BY <2>7, <2>8, <4>1, Zenon DEF below
    <3>8. (listed \cup page)' = below(whole, p)'
      BY <1>2, <1>4, <3>7
    <3>9. Resumes(IF req.op \in ByMarker THEN nextmarker ELSE nextindex, p)'
      BY <1>1, <1>2, <1>4, <3>2, <3>4 DEF Resumes, ByMarker
    <3>10. WholePaged'
      BY <1>1, <2>7, <2>9, <3>5, <3>8, <3>9 DEF WholePaged, there
    <3> QED BY <1>1, <3>10 DEF Whole, WholeAsked, WholeWalked, WholeDone
  <2>10. CASE ~ truncated'
    <3>1. nextindex' = 0
      BY <1>1, <2>10 DEF truncated
    <3>2. e = n
      <4> SUFFICES ASSUME e < n PROVE FALSE
        BY <1>8, <2>2
      <4>1. token = 0 /\ e = 0
        BY <1>3, <2>2, <3>1
      <4>2. begun = {}
        BY <2>2, <4>1 DEF Quiet
      <4>3. 1 \in 1..n
        BY <1>8
      <4> QED BY <2>3, <4>2, <4>3 DEF there
    <3>3. \A k \in S : k \in listed \cup page'
      BY <2>4, <2>8, <3>2
    <3>4. (listed \cup page)' = whole'
      BY <1>2, <1>4, <2>7, <2>8, <3>3
    <3>5. WholePaged'
      BY <1>1, <2>7, <2>10, <3>4 DEF WholePaged, there
    <3> QED BY <1>1, <3>5 DEF Whole, WholeAsked, WholeWalked, WholeDone
  <2> QED BY <2>9, <2>10
<1> QED BY <1>9, <1>10, BucketPage DEF there

LEMMA WholeInit == Init => WholeInv
<1> SUFFICES ASSUME Init PROVE WholeInv
  OBVIOUS
<1>1. SizeInv
  BY SizeInit
<1>2. phase = "ask" /\ listing = <<>> /\ token = 0 /\ present = begun /\ added = {}
  BY DEF Init
<1>3. DOMAIN listing = {}
  BY <1>2, NoEntries, Zenon
<1>4. listed = {}
  BY <1>3 DEF listed
<1>5. Resumes(token, 1) /\ listed = below(whole, 1)
  <2>1. Cardinality(below(firstkeys, 1)) = 0 /\ below(whole, 1) = {}
    BY <1>1, WantedKeys, BelowEnds
  <2> QED BY <1>2, <1>4, <2>1 DEF Resumes
<1>6. 1 \in 1..(N + 1)
  BY ListingsAssumption
<1>7. Whole
  BY <1>2, <1>5, <1>6 DEF Whole, WholeAsked, WholeWalked, WholePaged, WholeDone
<1> QED BY <1>2, <1>7 DEF WholeInv

LEMMA WholeSame == ASSUME UNCHANGED vars, Whole PROVE Whole'
<1>1. UNCHANGED <<present, begun, req, token, listing, phase, entries, pos, known, count, markerhit,
                  commonprefix, nextindex, nextmarker>>
  BY DEF vars, bucket, client, walk
<1>2. /\ listed' = listed /\ page' = page /\ there' = there /\ (truncated' <=> truncated)
      /\ firstkeys' = firstkeys /\ whole' = whole /\ marker' = marker
      /\ \A t, q : Resumes(t, q)' <=> Resumes(t, q)
  BY <1>1, SameWanted DEF listed, page, there, truncated, marker
<1>3. WholeAsked' /\ WholeDone'
  BY <1>1, <1>2 DEF Whole, WholeAsked, WholeDone, Resumes
<1>4. Walks' <=> Walks
  BY <1>1, <1>2 DEF Walks, MetLast
<1>5. WholeWalked'
  BY <1>1, <1>2, <1>4 DEF Whole, WholeWalked, Resumes
<1>6. WholePaged'
  BY <1>1, <1>2 DEF Whole, WholePaged, Resumes
<1> QED BY <1>3, <1>5, <1>6 DEF Whole

LEMMA WholeStep == ASSUME SizeInv, WholeInv, [Next]_vars PROVE WholeInv'
<1>1. CASE \E k \in Keys : Change(k)
  <2>1. changes' = changes + 1 /\ changes \in Nat
    BY <1>1, ListingsAssumption DEF Change, SizeInv, TypeOK
  <2>2. changes' # 0
    BY <2>1
  <2> QED BY <2>2 DEF WholeInv, Quiet
<1>2. CASE UNCHANGED vars
  <2>1. UNCHANGED <<present, changes, begun, added, req>>
    BY <1>2 DEF vars, bucket, client
  <2> QED BY <1>2, <2>1, WholeSame DEF WholeInv, Quiet
<1>3. CASE Serve
  <2>1. UNCHANGED <<present, changes, begun, added, req>>
    BY <1>3 DEF Serve, Start_walk, Visit_skip, Visit_early, Visit_entry, Visit_full, Walk_ends,
                List_buckets, List_parts, Fill_start, Fetch_status, Fetched, Answer, bucket, client
  <2>2. ASSUME Quiet PROVE Whole'
    <3>1. present = begun /\ Whole
      BY <2>2 DEF WholeInv, Quiet
    <3>2. CASE Start_walk
      BY <3>1, <3>2, WholeStart
    <3>3. CASE Visit_skip \/ Visit_early
      BY <3>1, <3>3, WholePass
    <3>4. CASE Visit_entry
      BY <3>1, <3>4, WholeEntry
    <3>5. CASE Visit_full
      BY <2>2, <3>1, <3>5, WholeFull
    <3>6. CASE Walk_ends
      BY <3>1, <3>6, WholeEnds
    <3>7. CASE List_buckets
      BY <2>2, <3>1, <3>7, WholeBuckets
    <3>8. CASE List_parts
      BY <2>2, <3>8 DEF List_parts, Quiet
    <3>9. CASE Fill_start \/ Fetch_status \/ Fetched
      BY <3>1, <3>9, WholeFilled
    <3>10. CASE Answer
      BY <3>1, <3>10, WholeAnswer
    <3> QED BY <1>3, <3>2, <3>3, <3>4, <3>5, <3>6, <3>7, <3>8, <3>9, <3>10 DEF Serve
  <2> QED BY <2>1, <2>2 DEF WholeInv, Quiet
<1> QED BY <1>1, <1>2, <1>3 DEF Next, Ended
-----------------------------------------------------------------------------
LEMMA PartsInit == Init => PartsInv
BY DEF Init, PartsInv

LEMMA PartsStep == ASSUME SizeInv, WholeInv, PartsInv, [Next]_vars PROVE PartsInv'
<1> SUFFICES ASSUME req.op = "ListParts", UNCHANGED <<req, begun>> PROVE PartsInv'
  <2>1. UNCHANGED <<req, begun>>
    BY DEF Next, Serve, Start_walk, Visit_skip, Visit_early, Visit_entry, Visit_full, Walk_ends,
           List_buckets, List_parts, Fill_start, Fetch_status, Fetched, Answer, Change, Ended,
           vars, bucket, client
  <2> QED BY <2>1 DEF PartsInv
<1> DEFINE l == Max({0} \cup begun)
<1>1. CASE \E k \in Keys : Change(k)
  <2>1. changes' = changes + 1 /\ changes \in Nat /\ UNCHANGED phase
    BY <1>1, ListingsAssumption DEF Change, SizeInv, TypeOK
  <2>2. changes' # 0
    BY <2>1
  <2> QED BY <2>1, <2>2 DEF PartsInv
<1>2. CASE UNCHANGED vars
  BY <1>2 DEF vars, bucket, client, PartsInv
<1>3. CASE Answer
  <2>1. /\ phase = "answer" /\ phase' \in {"done", "ask", "tired"} /\ (req.max = -1 <=> phase' = "done")
        /\ UNCHANGED changes
    BY <1>3 DEF Answer, bucket, truncated
  <2>2. ASSUME changes = 0, req.max = -1
        PROVE  [i \in DOMAIN listing' |-> listing'[i].key] = slots(l)
    <3>1. listing = <<>> /\ entries = slots(l)
      BY <2>1, <2>2 DEF PartsInv
    <3>2. DOMAIN entries = 1..l
      BY <3>1 DEF slots
    <3>3. Len(listing) = 0
      BY <3>1, NoEntries, Zenon
    <3> DEFINE n == Len(entries)
    <3>4. /\ Len(listing') = 0 + n /\ DOMAIN listing' = 1..Len(listing') /\ n \in Nat
          /\ \A i \in 1..n : listing'[0 + i].key = entries[i]
      BY <1>3, <3>3, AnswerPage, LenProperties
    <3>5. 1..n = 1..l
      BY <3>2, ListingTypes
    <3> HIDE DEF n, l
    <3>6. DOMAIN listing' = 1..l /\ \A i \in 1..l : listing'[i].key = i
      <4>1. \A i \in 1..n : 0 + i = i
        BY <3>4
      <4>2. 0 + n = n
        BY <3>4
      <4>3. \A i \in 1..l : entries[i] = i
        BY <3>1 DEF slots
      <4> QED BY <3>4, <3>5, <4>1, <4>2, <4>3
    <3> QED BY <3>6 DEF slots
  <2> QED BY <2>1, <2>2 DEF PartsInv
<1>4. CASE List_parts
  <2>1. phase = "ask" /\ phase' = "answer" /\ UNCHANGED <<changes, token, listing>>
    BY <1>4 DEF List_parts, bucket, client
  <2>2. ASSUME changes = 0, req.max = -1
        PROVE  entries' = slots(l)
    <3>1. token = 0 /\ present = begun
      BY <2>1, <2>2 DEF PartsInv, WholeInv
    <3>2. PICK a, b, m \in 0..N : PartSlice(a, b, m)
      BY <1>4, PartPage
    <3>3. m = l /\ b = m /\ a = IF 0 <= m THEN 0 ELSE m
      BY <2>2, <3>1, <3>2, Zenon DEF PartSlice
    <3>4. entries' = [i \in 1..(b - a) |-> a + i]
      BY <3>2, Zenon DEF PartSlice
    <3> HIDE DEF l
    <3>5. a = 0 /\ b = l /\ l \in Int
      BY <3>3, ListingsAssumption
    <3>6. \A i \in 1..l : 0 + i = i
      BY <3>5
    <3>7. l - 0 = l
      BY <3>5
    <3> QED BY <3>4, <3>5, <3>6, <3>7 DEF slots
  <2> QED BY <2>1, <2>2 DEF PartsInv
<1>5. CASE Serve /\ ~ Answer /\ ~ List_parts
  BY <1>5 DEF Serve, Start_walk, Visit_skip, Visit_early, Visit_entry, Visit_full, Met, Walk_ends,
              List_buckets, Fill_start, Fetch_status, Fetched, Walking, PartsInv
<1> QED BY <1>1, <1>2, <1>3, <1>4, <1>5 DEF Next, Ended
-----------------------------------------------------------------------------
\* Keys in order, all of a set, are the set in order.
LEMMA OrderedAll ==
  ASSUME NEW S \in SUBSET Keys, NEW n \in Nat, NEW s \in [1..n -> S],
         \A i, j \in 1..n : i < j => s[i] < s[j],
         \A k \in S : \E i \in 1..n : s[i] = k
  PROVE  s = Ordered(S)
<1>1. S \in SUBSET Int /\ \A i \in 1..n : s[i] \in S /\ s[i] \in Int
  <2>1. S \in SUBSET Int
    BY ListingsAssumption DEF Keys
  <2> QED BY <2>1
<1>2. ASSUME NEW T, NEW m \in 0..n, \A i \in 1..m : s[i] \in T,
             \A k \in T : \E i \in 1..m : s[i] = k
      PROVE  Cardinality(T) = m
  <2> DEFINE f == [i \in 1..m |-> s[i]]
  <2>1. f \in [1..m -> T] /\ \A k \in T : \E i \in 1..m : f[i] = k
    BY <1>2
  <2>2. ASSUME NEW i \in 1..m, NEW j \in 1..m, f[i] = f[j] PROVE i = j
    <3>0. i \in 1..n /\ j \in 1..n
      OBVIOUS
    <3>1. s[i] \in Int /\ s[i] = s[j]
      BY <1>1, <2>2, <3>0
    <3> QED BY <3>0, <3>1
  <2> HIDE DEF f
  <2>3. f \in Injection(1..m, T)
    BY <2>1, <2>2 DEF Injection, IsInjective
  <2>4. f \in Surjection(1..m, T)
    BY <2>1 DEF Surjection
  <2>5. ExistsBijection(1..m, T)
    BY <2>3, <2>4 DEF ExistsBijection, Bijection
  <2> QED BY <2>5, FS_CountingElements
<1>3. Cardinality(S) = n
  BY <1>2
<1>4. ASSUME NEW i \in 1..n PROVE Ordered(S)[i] = s[i]
  <2> DEFINE T == below(S, s[i])
  <2>1. i - 1 \in 0..n /\ s[i] \in Int /\ s[i] \in S
    BY <1>1
  <2>2. ASSUME NEW j \in 1..(i - 1) PROVE s[j] \in T
    <3>1. j \in 1..n /\ j < i
      OBVIOUS
    <3> QED BY <3>1 DEF below
  <2>3. ASSUME NEW k \in T PROVE \E j \in 1..(i - 1) : s[j] = k
    <3>1. k \in S /\ k < s[i]
      BY DEF below
    <3>2. PICK j \in 1..n : s[j] = k
      BY <3>1
    <3>3. ~ (i < j) /\ i # j
      <4>1. i < j => s[i] < s[j]
        OBVIOUS
      <4>2. k \in Int
        BY <1>1, <3>1
      <4> QED BY <2>1, <3>1, <3>2, <4>1, <4>2
    <3>4. j \in 1..(i - 1)
      BY <3>3
    <3> QED BY <3>2, <3>4
  <2> HIDE DEF T
  <2>4. Cardinality(T) = i - 1
    BY <1>2, <2>1, <2>2, <2>3
  <2>5. Ordered(S)[Cardinality(below(S, s[i])) + 1] = s[i]
    BY <2>1, OrderedRank
  <2>6. (i - 1) + 1 = i
    OBVIOUS
  <2> QED BY <2>4, <2>5, <2>6 DEF T
<1> QED BY <1>3, <1>4 DEF Ordered

\* The pages of a listing put together, while nothing changes, are the listing
\* that one page without a limit would be, in order; a common prefix of uploads
\* comes again where its keys lie apart.  For every number of keys, every limit
\* of a page of at least 1, every prefix and common prefix, and every
\* StartAfter.
THEOREM PagesPutTogether == Spec => []PagesWhole
<1>1. ListingsInv /\ WholeInv /\ PartsInv => PagesWhole
  <2> SUFFICES ASSUME ListingsInv, WholeInv, PartsInv, phase = "done", changes = 0,
                      req.max > 0 \/ req.op = "ListParts" \/ begun = {}
               PROVE  [i \in DOMAIN listing |-> listing[i].key] =
                        IF req.op = "ListParts" THEN [i \in 1..Max({0} \cup begun) |-> i]
                        ELSE Ordered(wanted(begun))
    BY DEF PagesWhole
  <2>1. CASE req.op = "ListParts"
    <3>1. req.max = -1
      BY <2>1 DEF PartsInv
    <3> QED BY <2>1, <3>1 DEF PartsInv, slots
  <2>2. CASE req.op # "ListParts"
    <3>1. SizeInv
      BY DEF ListingsInv, SizeInv
    <3>2. listed = whole
      BY <2>2 DEF WholeInv, Quiet, Whole, WholeDone
    <3>3. ListingApart
      BY DEF WholeInv, ListingsInv, Chain
    <3> DEFINE n == Len(listing)
               s == [i \in DOMAIN listing |-> listing[i].key]
    <3>4. DOMAIN listing = 1..n /\ n \in Nat /\ whole \in SUBSET Keys
      BY <3>1, ListingTypes, WantedKeys
    <3> HIDE DEF n
    <3>5. s \in [1..n -> whole] /\ \A k \in whole : \E i \in 1..n : s[i] = k
      BY <3>2, <3>4 DEF listed
    <3>6. \A i, j \in 1..n : i < j => s[i] < s[j]
      BY <3>3, <3>4 DEF ListingApart, apart
    <3> HIDE DEF s
    <3>7. s = Ordered(whole)
      BY <3>4, <3>5, <3>6, OrderedAll
    <3> QED BY <2>2, <3>7 DEF s, whole
  <2> QED BY <2>1, <2>2
<1>2. Init => WholeInv /\ PartsInv
  BY WholeInit, PartsInit
<1>3. ListingsInv /\ WholeInv /\ PartsInv /\ [Next]_vars => (WholeInv /\ PartsInv)'
  BY WholeStep, PartsStep DEF ListingsInv, SizeInv
<1> QED BY <1>1, <1>2, <1>3, ListingsInvariant, PTL DEF Spec
-----------------------------------------------------------------------------
(***************************************************************************)
(* While keys are only added, all that is required before some key has     *)
(* been listed, and the token makes the next page start at that key or     *)
(* before it.  The key is not within the keys of a common prefix.          *)
(***************************************************************************)
Steady ==
  /\ removed = {} /\ req.max > 0 /\ req.op # "ListParts"
  /\ req.common = NoCommon \/ (req.op = "ListObjectsV2" /\ req.after = 0)

clean(c, q) == \A j, k \in Keys : j < q /\ q <= k => c[j] # c[k] \/ c[j] = 0

atfirst == begun \cap req.match
required == {k \in atfirst : req.after # 0 => req.after \in atfirst /\ k >= req.after}

\* What is required before key q, or its common prefix, is in L.
Got(L, q) ==
  \A k \in required : k < q => \E l \in L : class(req.common, l) = class(req.common, k)

\* A page that continues at token t starts at key q or before it.
Continues(t, q) ==
  IF req.op \in ByMarker THEN (t = 0 /\ q = 1) \/ (t = q /\ q \in there)
  ELSE clean(req.common, q) /\ t <= Cardinality(classes(req.common, there, 1, q))

\* What there is that the walk has met or will meet, and what it has met.
expected ==
  {k \in there : (Dir[k] = Top \/ \E j \in 1..(pos - 1) : Dir[j] = Dir[k]) => k \in known}
metkeys ==
  {k \in there : k < pos /\ (req.common[k] = 0 \/ req.common[k] = commonprefix
                             \/ settled(req.common, k, pos))}
met == {class(req.common, k) : k \in metkeys}

WalkContinues(q) ==
  IF req.op \in ByMarker
  THEN (token = 0 /\ q = 1) \/ (token = q /\ q \in expected /\ (q < pos => markerhit))
  ELSE /\ clean(req.common, q)
       /\ token <= count + Cardinality(ahead(req.common, expected, commonprefix, pos, q))

\* What is required from q on, up to where the walk is, is on the page.
Covers(q) ==
  /\ \A k \in required :
       q <= k /\ k < pos => \E e \in page : class(req.common, e) = class(req.common, k)
  /\ commonprefix # 0 =>
       \/ \E j \in Keys : j < q /\ req.common[j] = commonprefix
       \/ \E e \in page : req.common[e] = commonprefix

StableAsked ==
  phase = "ask" => \E q \in 1..(N + 1) : Continues(token, q) /\ Got(listed, q)

StableWalked ==
  phase = "walk" =>
    /\ known \subseteq present /\ page \subseteq present /\ atfirst \subseteq expected
    /\ count <= Cardinality(met)
    /\ req.after \in atfirst /\ req.after < pos => markerhit
    /\ \E q \in 1..(N + 1) : WalkContinues(q) /\ Got(listed, q) /\ Covers(q)

StablePaged ==
  phase \in {"fill", "status", "answer"} =>
    /\ page \subseteq present
    /\ IF truncated
       THEN \E q \in 1..(N + 1) :
              /\ Continues(IF req.op \in ByMarker THEN nextmarker ELSE nextindex, q)
              /\ Got(listed \cup page, q)
       ELSE Got(listed \cup page, N + 1)

StableDone == phase = "done" => Got(listed, N + 1)

Stable == StableAsked /\ StableWalked /\ StablePaged /\ StableDone

StableInv ==
  /\ removed = {} => begun \subseteq present
  /\ Steady => Stable

LEMMA StableTypes ==
  ASSUME SizeInv
  PROVE  /\ atfirst \in SUBSET Keys /\ required \in SUBSET atfirst /\ required \in SUBSET Keys
         /\ expected \in SUBSET there /\ expected \in SUBSET Keys /\ metkeys \in SUBSET there
         /\ \A k \in required : k \in Int
         /\ req.after \in Int /\ (req.after = 0 \/ req.op = "ListObjectsV2") /\ req.max \in Int
<1>1. begun \in SUBSET Keys /\ req \in Requests /\ there \in SUBSET Keys /\ Keys \in SUBSET Int
  BY ListingTypes DEF SizeInv, TypeOK
<1>2. atfirst \in SUBSET Keys /\ required \in SUBSET atfirst
  BY <1>1 DEF atfirst, required
<1>3. expected \in SUBSET there /\ metkeys \in SUBSET there
  BY DEF expected, metkeys
<1>4. req.after = 0 \/ req.op = "ListObjectsV2"
  BY <1>1, ListingsAssumption
<1>5. req.after \in Int /\ req.max \in Int
  BY <1>1, RequestType, ListingsAssumption DEF Keys
<1> QED BY <1>1, <1>2, <1>3, <1>4, <1>5

\* There is no common prefix, or it is one of objects.
LEMMA SteadyPrefixes == ASSUME SizeInv, Steady PROVE Adjoining(req.common)
<1>1. NoCommon \in [Keys -> 0..N] /\ \A k \in Keys : NoCommon[k] = 0
  BY ListingsAssumption DEF NoCommon
<1>2. Adjoining(NoCommon)
  BY <1>1, Zenon DEF Adjoining, together
<1> QED BY <1>2, ListingTypes DEF Steady

LEMMA SameRequired ==
  ASSUME UNCHANGED <<begun, req>>
  PROVE  /\ atfirst' = atfirst /\ required' = required
         /\ \A L, q : Got(L, q)' <=> Got(L, q)
<1>1. atfirst' = atfirst
  BY DEF atfirst
<1>2. required' = required
  BY <1>1 DEF required
<1> QED BY <1>1, <1>2 DEF Got

\* There are common prefixes only for ListObjectsV2 without StartAfter.
LEMMA PrefixesIndexed ==
  ASSUME SizeInv, Steady, NEW k \in Keys, req.common[k] # 0
  PROVE  req.op = "ListObjectsV2" /\ req.op \notin ByMarker /\ req.after = 0
BY DEF Steady, NoCommon, ByMarker

LEMMA GotMore ==
  ASSUME NEW L, NEW M, L \subseteq M, NEW p \in Int, NEW q \in Int, q <= p, Got(L, p), SizeInv
  PROVE  Got(M, q)
<1>1. \A k \in required : k < q => k < p
  BY StableTypes
<1> QED BY <1>1 DEF Got

\* Keys that are added leave a token as good as it was.
LEMMA ContinuesChanged ==
  ASSUME SizeInv, present \subseteq present', present' \subseteq Keys, UNCHANGED req,
         NEW q \in 1..(N + 1), NEW t \in Int, Continues(t, q)
  PROVE  Continues(t, q)'
<1>1. /\ there \in SUBSET there' /\ there' \in SUBSET Keys /\ q \in Int /\ 1 \in Int
      /\ req.op \notin ByMarker => Adjoining(req.common)
  BY ListingTypes, ListingsAssumption DEF there, ByMarker
<1>2. CASE req.op \in ByMarker
  BY <1>1, <1>2 DEF Continues
<1>3. CASE req.op \notin ByMarker
  <2> DEFINE A == classes(req.common, there, 1, q)
             B == classes(req.common, there', 1, q)
  <2>1. IsFiniteSet(B)
    BY <1>1, <1>3, ClassSets, Zenon
  <2>2. A \in SUBSET B
    BY <1>1, <1>3, ClassLess
  <2>3. t <= Cardinality(A) /\ clean(req.common, q)
    BY <1>3 DEF Continues
  <2> HIDE DEF A, B
  <2>4. t <= Cardinality(B)
    BY <2>1, <2>2, <2>3, CardLess
  <2>5. t <= Cardinality(classes(req'.common, there', 1, q)) /\ clean(req'.common, q)
    BY <2>3, <2>4 DEF B
  <2> QED BY <1>3, <2>5 DEF Continues
<1> QED BY <1>2, <1>3
-----------------------------------------------------------------------------
\* What each visit of the walk does.
Visited ==
  /\ phase = "walk" /\ pos <= N /\ pos' = pos + 1 /\ known' = read_dir
  /\ UNCHANGED <<bucket, client>>
  /\ \/ passed_over /\ UNCHANGED <<count, markerhit, commonprefix>>
     \/ Met

LEMMA ExpectedOn ==
  ASSUME SizeInv, Visited, known \subseteq present
  PROVE  /\ expected \in SUBSET expected' /\ expected' \in SUBSET Keys /\ read_dir \subseteq present
         /\ pos \in expected => pos \in read_dir /\ pos \in present /\ pos \in req.match
<1>1. /\ phase = "walk" /\ pos <= N /\ pos' = pos + 1 /\ known' = read_dir /\ pos \in Int
      /\ UNCHANGED <<present, req>> /\ there' = there /\ there \in SUBSET Keys
  BY ListingTypes DEF Visited, bucket, client, there
<1>2. known \subseteq read_dir /\ read_dir \subseteq present
  BY DEF read_dir
<1>3. ASSUME NEW k \in expected, Dir[k] = Top \/ \E j \in 1..pos : Dir[j] = Dir[k]
      PROVE  k \in read_dir
  <2>1. k \in there /\ k \in present
    BY DEF expected, there
  <2>2. CASE Dir[k] = Top \/ \E j \in 1..(pos - 1) : Dir[j] = Dir[k]
    BY <1>2, <2>2 DEF expected
  <2>3. CASE ~ (Dir[k] = Top \/ \E j \in 1..(pos - 1) : Dir[j] = Dir[k])
    <3>1. PICK j \in 1..pos : Dir[j] = Dir[k]
      BY <1>3, <2>3
    <3>2. j = pos
      BY <1>1, <2>3, <3>1
    <3> QED BY <2>1, <2>3, <3>1, <3>2 DEF read_dir
  <2> QED BY <2>2, <2>3
<1>4. pos' - 1 = pos /\ pos \in 1..pos
  BY <1>1, WalkHere DEF Keys
<1>5. expected \in SUBSET expected'
  <2> SUFFICES ASSUME NEW k \in expected PROVE k \in expected'
    OBVIOUS
  <2>1. k \in there'
    BY <1>1 DEF expected
  <2>2. (Dir[k] = Top \/ \E j \in 1..(pos' - 1) : Dir[j] = Dir[k]) => k \in known'
    BY <1>1, <1>3, <1>4
  <2> QED BY <2>1, <2>2 DEF expected
<1>6. expected' \in SUBSET Keys
  BY <1>1 DEF expected
<1>7. pos \in expected => pos \in read_dir /\ pos \in present /\ pos \in req.match
  BY <1>3, <1>4 DEF expected, there
<1> QED BY <1>2, <1>5, <1>6, <1>7

\* A key that is passed over although the walk expects it has the common
\* prefix that was met last.
LEMMA ExpectedPassed ==
  ASSUME SizeInv, Visited, known \subseteq present, pos \in expected, passed_over
  PROVE  req.common[pos] # 0 /\ req.common[pos] = commonprefix
BY ExpectedOn DEF passed_over, check_common_prefix

LEMMA MetHere ==
  ASSUME SizeInv, Visited, known \subseteq present, Met
  PROVE  /\ pos \in there /\ pos \in present /\ (req.common[pos] = 0 \/ req.common[pos] # commonprefix)
         /\ count' = count + 1
         /\ commonprefix' = IF req.common[pos] # 0 THEN req.common[pos] ELSE commonprefix
         /\ markerhit' <=> markerhit \/ (marker # 0 /\ marker = pos)
<1>1. read_dir \subseteq present
  BY ExpectedOn
<1> QED BY <1>1 DEF Met, passed_over, check_common_prefix, there

\* Each key that is met counts, with its class.
LEMMA CountMet ==
  ASSUME SizeInv, Steady, Visited, known \subseteq present, count <= Cardinality(met)
  PROVE  count' <= Cardinality(met')
<1> DEFINE c == req.common
<1>1. /\ pos \in Keys /\ pos \in Int /\ there \in SUBSET Keys /\ Keys \in SUBSET Int /\ Adjoining(c)
      /\ phase = "walk" /\ pos <= N /\ pos' = pos + 1 /\ UNCHANGED req /\ there' = there /\ count \in Int
  BY ListingTypes, SteadyPrefixes, WalkHere DEF Visited, bucket, client, there
<1>2. metkeys \in SUBSET metkeys'
  <2> SUFFICES ASSUME NEW k \in metkeys PROVE k \in metkeys'
    OBVIOUS
  <2>1. k \in there /\ k < pos /\ (c[k] = 0 \/ c[k] = commonprefix \/ settled(c, k, pos))
    BY DEF metkeys
  <2>2. k \in Keys /\ k \in Int
    BY <1>1, <2>1
  <2>3. k < pos + 1
    BY <1>1, <2>1, <2>2
  <2>4. c[k] = 0 \/ c[k] = commonprefix' \/ settled(c, k, pos + 1)
    <3>1. UNCHANGED commonprefix \/ Met
      BY DEF Visited
    <3> QED BY <1>1, <2>1, <2>2, <3>1, EntryVisited
  <2> QED BY <1>1, <2>1, <2>3, <2>4 DEF metkeys
<1>3. met \in SUBSET met'
  BY <1>1, <1>2 DEF met
<1>4. IsFiniteSet(met')
  <2>1. metkeys' \in SUBSET Keys
    BY <1>1 DEF metkeys
  <2>2. met' \in SUBSET ((-N)..N)
    BY <1>1, <2>1, ClassType DEF met
  <2>3. IsFiniteSet((-N)..N)
    BY FS_Interval, ListingsAssumption
  <2> QED BY <2>2, <2>3, CardLess
<1>5. CASE UNCHANGED count
  <2>1. Cardinality(met) <= Cardinality(met') /\ Cardinality(met) \in Nat /\ Cardinality(met') \in Nat
    BY <1>3, <1>4, CardLess
  <2> QED BY <1>1, <1>5, <2>1
<1>6. CASE Met
  <2>1. /\ pos \in there /\ (c[pos] = 0 \/ c[pos] # commonprefix) /\ count' = count + 1
        /\ commonprefix' = IF c[pos] # 0 THEN c[pos] ELSE commonprefix
    BY <1>6, MetHere
  <2>2. pos \in metkeys'
    <3>1. pos < pos + 1
      BY <1>1
    <3> QED BY <1>1, <2>1, <3>1 DEF metkeys
  <2>3. class(c, pos) \in met'
    BY <1>1, <2>2 DEF met
  <2>4. class(c, pos) \notin met
    <3> SUFFICES ASSUME NEW k \in metkeys, class(c, k) = class(c, pos) PROVE FALSE
      BY DEF met
    <3>1. k \in there /\ k < pos /\ (c[k] = 0 \/ c[k] = commonprefix \/ settled(c, k, pos))
      BY DEF metkeys
    <3>2. k \in Keys /\ k \in Int /\ k # pos /\ k >= 1 /\ pos >= 1 /\ pos \in pos..N
      <4>1. k \in Keys /\ k \in Int
        BY <1>1, <3>1
      <4> QED BY <1>1, <3>1, <4>1, ListingsAssumption DEF Keys
    <3>4. c[k] = c[pos] /\ c[k] # 0
      BY <1>1, <3>2, SameClass
    <3>5. ~ settled(c, k, pos)
      BY <1>1, <3>2, <3>4 DEF settled, Adjoining
    <3> QED BY <2>1, <3>1, <3>4, <3>5
  <2>5. Cardinality(met) + 1 <= Cardinality(met') /\ Cardinality(met) \in Nat /\ Cardinality(met') \in Nat
    BY <1>3, <1>4, <2>3, <2>4, CardMore, CardLess
  <2> QED BY <1>1, <2>1, <2>5
<1> QED BY <1>5, <1>6 DEF Visited

\* A visit brings the walk to where the page starts, or nearer to it.
LEMMA ContinuesOn ==
  ASSUME SizeInv, Steady, Visited, known \subseteq present, NEW q \in 1..(N + 1), WalkContinues(q)
  PROVE  WalkContinues(q)'
<1> DEFINE c == req.common
<1>1. /\ pos \in Keys /\ pos \in Int /\ pos >= 1 /\ Adjoining(c) /\ q \in Int /\ token \in Int
      /\ count \in Int /\ phase = "walk" /\ pos <= N /\ pos' = pos + 1 /\ UNCHANGED <<req, token>>
      /\ req.op \in Walking /\ commonprefix \in 0..N
  BY ListingTypes, SteadyPrefixes, WalkHere, ListingsAssumption DEF Visited, client, SizeInv, TypeOK, Keys
<1>2. expected \in SUBSET expected' /\ expected' \in SUBSET Keys /\ expected \in SUBSET Keys
  BY ExpectedOn, StableTypes
<1>3. CASE req.op \in ByMarker
  <2>1. CASE token = 0 /\ q = 1
    BY <1>1, <1>3, <2>1 DEF WalkContinues
  <2>2. CASE token = q /\ q \in expected /\ (q < pos => markerhit)
    <3>1. marker = token
      BY <1>3 DEF marker, Walking, ByMarker
    <3>2. q < pos => markerhit'
      BY <2>2, MetHere DEF Visited
    <3>3. q = pos => markerhit'
      <4> SUFFICES ASSUME q = pos PROVE markerhit'
        OBVIOUS
      <4>1. ~ passed_over
        <5> SUFFICES ASSUME passed_over PROVE FALSE
          OBVIOUS
        <5>1. req.common[pos] # 0
          BY <2>2, ExpectedPassed
        <5> QED BY <1>1, <1>3, <5>1, PrefixesIndexed
      <4>2. Met
        BY <4>1 DEF Visited
      <4> QED BY <1>1, <2>2, <3>1, <4>2, MetHere
    <3>4. q < pos + 1 => markerhit'
      BY <1>1, <3>2, <3>3
    <3> QED BY <1>1, <1>2, <1>3, <2>2, <3>4 DEF WalkContinues
  <2> QED BY <1>3, <2>1, <2>2 DEF WalkContinues
<1>4. CASE req.op \notin ByMarker
  <2> DEFINE A == ahead(c, expected, commonprefix, pos, q)
             B == ahead(c, expected', commonprefix', pos + 1, q)
  <2>1. clean(c, q) /\ token <= count + Cardinality(A)
    BY <1>4 DEF WalkContinues
  <2>2. IsFiniteSet(B)
    <3>1. IsFiniteSet(classes(c, expected', pos + 1, q))
      <4>1. pos + 1 \in Int
        BY <1>1
      <4> QED BY <1>1, <1>2, <4>1, ClassSets, Zenon
    <3> QED BY <3>1, FS_Difference DEF ahead
  <2>3. ASSUME NEW x \in A
        PROVE  /\ x # - commonprefix
               /\ \/ x \in classes(c, expected', pos + 1, q)
                  \/ pos \in expected /\ x = class(c, pos)
    <3>1. x \in classes(c, expected, pos, q) /\ x # - commonprefix
      BY DEF ahead
    <3>2. PICK k \in expected : pos <= k /\ k < q /\ x = class(c, k)
      BY <3>1, ClassOf
    <3>3. CASE k = pos
      BY <3>1, <3>2, <3>3
    <3>4. CASE k # pos
      <4>1. k \in Int
        BY <1>1, <1>2, ListingTypes
      <4>2. pos + 1 <= k /\ k \in expected'
        BY <1>1, <1>2, <3>2, <3>4, <4>1
      <4> QED BY <3>1, <3>2, <4>2, ClassMember
    <3> QED BY <3>3, <3>4
  <2>4. token <= count' + Cardinality(B)
    <3>1. CASE passed_over /\ UNCHANGED <<count, markerhit, commonprefix>>
      <4>1. pos \in expected => class(c, pos) = - commonprefix
        BY <1>1, <3>1, ExpectedPassed, ClassType
      <4>2. A \in SUBSET B
        BY <2>3, <3>1, <4>1 DEF ahead
      <4> HIDE DEF A, B
      <4>3. Cardinality(A) <= Cardinality(B) /\ Cardinality(A) \in Nat /\ Cardinality(B) \in Nat
        BY <2>2, <4>2, CardLess
      <4> QED BY <1>1, <2>1, <3>1, <4>3
    <3>2. CASE Met
      <4>1. count' = count + 1 /\ commonprefix' = IF c[pos] # 0 THEN c[pos] ELSE commonprefix
        BY <3>2, MetHere
      <4>2. c[pos] # 0 => class(c, pos) = - c[pos]
        BY <1>1, ClassType
      <4>3. A \in SUBSET (B \cup {class(c, pos)})
        BY <2>3, <4>1, <4>2 DEF ahead
      <4>4. IsFiniteSet(B \cup {class(c, pos)}) /\ Cardinality(B \cup {class(c, pos)}) <= Cardinality(B) + 1
            /\ Cardinality(B) \in Nat
        <5> HIDE DEF B
        <5> QED BY <2>2, FS_AddElement, FS_CardinalityType
      <4> DEFINE C == B \cup {class(c, pos)}
      <4>5. A \in SUBSET C /\ IsFiniteSet(C) /\ Cardinality(C) <= Cardinality(B) + 1 /\ Cardinality(B) \in Nat
        BY <4>3, <4>4
      <4> HIDE DEF A, B, C
      <4>6. Cardinality(A) <= Cardinality(C) /\ Cardinality(A) \in Nat /\ Cardinality(C) \in Nat
        BY <4>5, CardLess
      <4> QED BY <1>1, <2>1, <4>1, <4>5, <4>6
    <3> QED BY <3>1, <3>2 DEF Visited
  <2> QED BY <1>1, <1>4, <2>1, <2>4 DEF WalkContinues
<1> QED BY <1>3, <1>4

\* From the start of the page on, what is required is not too early.
LEMMA InTime ==
  ASSUME SizeInv, phase = "walk", pos <= N, NEW q \in 1..(N + 1), WalkContinues(q), q <= pos,
         req.after = 0 \/ pos \in required,
         req.after \in atfirst /\ req.after < pos => markerhit
  PROVE  ~ too_early
<1>1. /\ pos \in Keys /\ pos \in Int /\ pos >= 1 /\ q \in Int /\ token \in Int /\ count \in Int
      /\ count >= 0 /\ req.op \in Walking /\ req.after \in Int
  BY ListingTypes, WalkHere, StableTypes, ListingsAssumption DEF SizeInv, TypeOK, Keys
<1>2. CASE req.op \in ByMarker
  <2>1. marker = token /\ index = 0
    BY <1>2 DEF marker, index, Walking, ByMarker
  <2>2. (token = 0 /\ q = 1) \/ (token = q /\ (q < pos => markerhit))
    BY <1>2 DEF WalkContinues
  <2> QED BY <1>1, <2>1, <2>2 DEF too_early
<1>3. CASE req.op = "ListObjectsV2"
  <2>1. marker = req.after /\ index = token
    BY <1>3 DEF marker, index
  <2> DEFINE A == ahead(req.common, expected, commonprefix, pos, q)
  <2>2. token <= count + Cardinality(A)
    BY <1>3 DEF WalkContinues, ByMarker
  <2>3. A = {}
    <3> SUFFICES ASSUME NEW x \in A PROVE FALSE
      OBVIOUS
    <3>1. PICK k \in expected : pos <= k /\ k < q
      BY ClassOf DEF ahead
    <3>2. k \in Int
      BY StableTypes, ListingTypes
    <3> QED BY <1>1, <3>1, <3>2
  <2> HIDE DEF A
  <2>4. Cardinality(A) = 0
    BY <2>3, FS_EmptySet
  <2>5. ~ (count < index)
    BY <1>1, <2>1, <2>2, <2>4
  <2>6. req.after = 0 \/ (req.after < pos /\ markerhit) \/ req.after = pos
    <3>1. CASE pos \in required /\ req.after # 0
      <4>1. req.after \in atfirst /\ pos >= req.after
        BY <3>1 DEF required
      <4> QED BY <1>1, <4>1
    <3> QED BY <3>1
  <2> QED BY <2>1, <2>5, <2>6 DEF too_early
<1> QED BY <1>1, <1>2, <1>3, WalkingOps

\* StartAfter is met when the walk comes to it.
LEMMA AfterMet ==
  ASSUME SizeInv, Steady, Visited, known \subseteq present, atfirst \subseteq expected,
         req.after \in atfirst /\ req.after < pos => markerhit
  PROVE  req'.after \in atfirst' /\ req'.after < pos' => markerhit'
<1>1. /\ pos \in Keys /\ pos \in Int /\ phase = "walk" /\ pos <= N /\ pos' = pos + 1
      /\ UNCHANGED <<req, begun>> /\ req.after \in Int /\ (req.after = 0 \/ req.op = "ListObjectsV2")
      /\ atfirst \in SUBSET Keys
  BY ListingTypes, WalkHere, StableTypes DEF Visited, bucket, client
<1> SUFFICES ASSUME req.after \in atfirst, req.after < pos + 1 PROVE markerhit'
  BY <1>1, SameRequired
<1>2. req.after # 0 /\ (req.after < pos \/ req.after = pos)
  BY <1>1, ListingsAssumption DEF Keys
<1>3. CASE req.after < pos
  BY <1>3, MetHere DEF Visited
<1>4. CASE req.after = pos
  <2>1. marker = pos /\ marker # 0
    BY <1>1, <1>2, <1>4 DEF marker
  <2>2. ~ passed_over
    <3> SUFFICES ASSUME passed_over PROVE FALSE
      OBVIOUS
    <3>1. req.common[pos] # 0
      BY <1>4, ExpectedPassed
    <3> QED BY <1>1, <1>2, <3>1, PrefixesIndexed
  <2> QED BY <2>1, <2>2, MetHere DEF Visited
<1> QED BY <1>2, <1>3, <1>4

\* A walk expects all that is there when it starts.
LEMMA StableStart ==
  ASSUME SizeInv, Steady, begun \subseteq present, Stable, Start_walk PROVE Stable'
<1> DEFINE c == req.common
<1>1. /\ phase = "ask" /\ req.op \in Walking /\ phase' = "walk" /\ pos' = 1 /\ entries' = <<>>
      /\ known' = {k \in present : Dir[k] = Top} /\ count' = 0 /\ commonprefix' = 0
      /\ UNCHANGED <<present, begun, req, token, listing>>
  BY DEF Start_walk, bucket, client
<1>2. /\ listed' = listed /\ there' = there /\ atfirst' = atfirst /\ required' = required
      /\ \A L, q : Got(L, q)' <=> Got(L, q)
  BY <1>1, SameRequired DEF listed, there
<1>3. page' = {}
  <2>1. DOMAIN entries' = {}
    BY <1>1, NoEntries, Zenon
  <2> QED BY <2>1 DEF page
<1>4. /\ there \in SUBSET Keys /\ Adjoining(c) /\ atfirst \in SUBSET Keys /\ token \in Int
      /\ \A k \in Keys : ~ (k < 1) /\ k \in Int
      /\ required \in SUBSET Keys /\ req.after \in Int
  BY ListingTypes, SteadyPrefixes, StableTypes, ListingsAssumption DEF Keys
<1>5. expected' = there
  <2>1. 1..(pos' - 1) = {}
    BY <1>1
  <2>2. \A k \in there : Dir[k] = Top => k \in known'
    BY <1>1 DEF there
  <2> QED BY <1>2, <2>1, <2>2 DEF expected
<1>6. atfirst' \subseteq expected'
  BY <1>2, <1>5 DEF atfirst, there
<1>7. count' <= Cardinality(met')
  <2>1. metkeys' = {}
    BY <1>1, <1>2, <1>4 DEF metkeys
  <2>2. met' = {}
    BY <2>1 DEF met
  <2> QED BY <1>1, <2>2, FS_EmptySet
<1>8. ~ (req'.after \in atfirst' /\ req'.after < pos')
  BY <1>1, <1>2, <1>4
<1>9. PICK q \in 1..(N + 1) : Continues(token, q) /\ Got(listed, q)
  BY <1>1 DEF Stable, StableAsked
<1>10. WalkContinues(q)'
  <2>1. CASE req.op \in ByMarker
    <3>1. \A k \in there : ~ (k < 1)
      BY <1>4
    <3> QED BY <1>1, <1>5, <1>9, <2>1, <3>1 DEF Continues, WalkContinues
  <2>2. CASE req.op \notin ByMarker
    <3> DEFINE A == classes(c, there, 1, q)
    <3>1. clean(c, q) /\ token <= Cardinality(A)
      BY <1>9, <2>2 DEF Continues
    <3>2. ahead(c, there, 0, 1, q) = A
      <4> SUFFICES ASSUME NEW k \in there, k < q PROVE class(c, k) # - 0
        BY DEF ahead, classes
      <4>1. 0 \in 0..N /\ q \in Int /\ (c[k] = 0 \/ c[k] # 0)
        BY ListingsAssumption
      <4>2. class(c, k) \in ahead(c, there, 0, k, q)
        BY <1>4, <4>1, ClassHere
      <4> QED BY <4>2 DEF ahead
    <3>3. Cardinality(A) \in Nat
      <4>1. q \in Int /\ 1 \in Int
        BY ListingsAssumption
      <4> QED BY <1>4, <4>1, ClassSets, Zenon
    <3> HIDE DEF A
    <3>4. token <= 0 + Cardinality(A)
      BY <3>1, <3>3
    <3> QED BY <1>1, <1>5, <2>2, <3>1, <3>2, <3>4 DEF WalkContinues
  <2> QED BY <2>1, <2>2
<1>11. Covers(q)'
  BY <1>1, <1>2, <1>4 DEF Covers
<1>12. StableWalked'
  <2>1. known' \subseteq present' /\ page' \subseteq present'
    BY <1>1, <1>3
  <2> QED BY <1>2, <1>6, <1>7, <1>8, <1>9, <1>10, <1>11, <2>1 DEF StableWalked
<1> QED BY <1>1, <1>12 DEF Stable, StableAsked, StablePaged, StableDone

\* What a visit puts on the page.
LEMMA StableVisit ==
  ASSUME SizeInv, Steady, Stable, Visit_skip \/ Visit_early \/ Visit_entry PROVE Stable'
<1> DEFINE c == req.common
<1>1. /\ phase = "walk" /\ pos <= N /\ phase' = "walk" /\ Visited /\ pos' = pos + 1 /\ known' = read_dir
      /\ UNCHANGED <<present, begun, req, token, listing>>
  BY DEF Visit_skip, Visit_early, Visit_entry, Met, Visited, bucket, client
<1>2. /\ listed' = listed /\ atfirst' = atfirst /\ required' = required
      /\ \A L, q : Got(L, q)' <=> Got(L, q)
  BY <1>1, SameRequired DEF listed
<1>3. /\ known \subseteq present /\ page \subseteq present /\ atfirst \subseteq expected
      /\ count <= Cardinality(met)
      /\ req.after \in atfirst /\ req.after < pos => markerhit
  BY <1>1 DEF Stable, StableWalked
<1>4. PICK q \in 1..(N + 1) : WalkContinues(q) /\ Got(listed, q) /\ Covers(q)
  BY <1>1 DEF Stable, StableWalked
<1>5. /\ pos \in Keys /\ pos \in Int /\ q \in Int /\ required \in SUBSET atfirst
      /\ \A k \in required : k \in Int
  BY <1>1, WalkHere, ListingTypes, StableTypes, ListingsAssumption
<1>6. known' \subseteq present' /\ atfirst' \subseteq expected' /\ WalkContinues(q)'
      /\ count' <= Cardinality(met') /\ Got(listed, q)'
      /\ (req'.after \in atfirst' /\ req'.after < pos' => markerhit')
  BY <1>1, <1>2, <1>3, <1>4, ExpectedOn, CountMet, AfterMet, ContinuesOn
<1>7. page' = IF Visit_entry THEN page \cup {pos} ELSE page
  <2>1. CASE Visit_entry
    <3>1. pos \in present
      BY <1>1, <1>3, <2>1, MetHere DEF Visit_entry
    <3> QED BY <1>5, <2>1, <3>1, PageAppend DEF Visit_entry
  <2>2. CASE ~ Visit_entry
    BY <2>2 DEF Visit_skip, Visit_early, page
  <2> QED BY <2>1, <2>2
<1>8. page' \subseteq present'
  <2>1. Visit_entry => pos \in present
    BY <1>1, <1>3, MetHere DEF Visit_entry
  <2> QED BY <1>1, <1>3, <1>7, <2>1
<1>9. ASSUME NEW k \in required, q <= k, k < pos + 1
      PROVE  \E e \in page' : class(c, e) = class(c, k)
  <2>1. CASE k < pos
    BY <1>4, <1>7, <1>9, <2>1 DEF Covers
  <2>2. CASE k = pos
    <3>1. CASE Visit_skip
      <4>1. c[pos] # 0 /\ c[pos] = commonprefix
        BY <1>1, <1>3, <1>5, <2>2, <3>1, ExpectedPassed DEF Visit_skip
      <4>2. clean(c, q)
        BY <1>4, <1>5, <4>1, PrefixesIndexed DEF WalkContinues
      <4>3. PICK e \in page : c[e] = commonprefix
        BY <1>4, <1>5, <1>9, <2>2, <4>1, <4>2 DEF Covers, clean
      <4>4. class(c, e) = class(c, pos)
        BY <4>1, <4>3 DEF class
      <4> QED BY <1>7, <2>2, <4>3, <4>4
    <3>2. CASE Visit_early
      BY <1>1, <1>3, <1>4, <1>9, <2>2, <3>2, InTime DEF Visit_early
    <3>3. CASE Visit_entry
      BY <1>7, <2>2, <3>3
    <3> QED BY <3>1, <3>2, <3>3
  <2> QED BY <1>5, <1>9, <2>1, <2>2
<1>10. ASSUME commonprefix' # 0
       PROVE  \/ \E j \in Keys : j < q /\ c[j] = commonprefix'
              \/ \E e \in page' : c[e] = commonprefix'
  <2>1. CASE commonprefix' = commonprefix
    <3>1. page \subseteq page'
      BY <1>7
    <3> QED BY <1>4, <1>10, <2>1, <3>1 DEF Covers
  <2>2. CASE commonprefix' # commonprefix
    <3>1. Met /\ c[pos] # 0 /\ commonprefix' = c[pos]
      BY <1>1, <1>3, <2>2, MetHere DEF Visited
    <3>2. CASE Visit_entry
      BY <1>7, <3>1, <3>2
    <3>3. CASE Visit_early
      <4>1. req.after = 0
        BY <1>5, <3>1, PrefixesIndexed
      <4>2. ~ (q <= pos)
        BY <1>1, <1>3, <1>4, <3>3, <4>1, InTime DEF Visit_early
      <4> QED BY <1>5, <3>1, <4>2
    <3>4. CASE Visit_skip
      BY <2>2, <3>4 DEF Visit_skip
    <3> QED BY <3>2, <3>3, <3>4
  <2> QED BY <2>1, <2>2
<1>11. Covers(q)'
  BY <1>1, <1>2, <1>9, <1>10 DEF Covers
<1>12. StableWalked'
  BY <1>2, <1>6, <1>8, <1>11 DEF StableWalked
<1> QED BY <1>1, <1>12 DEF Stable, StableAsked, StablePaged, StableDone

\* The keys of a common prefix start at a key that is within none.
LEMMA CleanBefore ==
  ASSUME NEW c, Adjoining(c), NEW p \in Keys
  PROVE  \E q \in 1..(N + 1) :
           /\ q <= p /\ clean(c, q)
           /\ \A j \in Keys : q <= j /\ j < p => c[j] = c[p] /\ c[p] # 0
<1>1. p \in Int /\ p \in 1..(N + 1) /\ Keys \in SUBSET Int /\ Keys \in SUBSET (0..N)
  BY ListingsAssumption DEF Keys
<1>2. CASE c[p] = 0
  <2>1. clean(c, p)
    <3> SUFFICES ASSUME NEW j \in Keys, NEW k \in Keys, j < p, p <= k, c[j] = c[k], c[j] # 0 PROVE FALSE
      BY DEF clean
    <3>1. p < k
      <4>1. k \in Int /\ p # k
        BY <1>1, <1>2
      <4> QED BY <1>1, <4>1
    <3> QED BY <1>2, <3>1 DEF Adjoining, together
  <2>2. p <= p /\ \A j \in Keys : ~ (p <= j /\ j < p)
    BY <1>1
  <2> QED BY <1>1, <2>1, <2>2
<1>3. CASE c[p] # 0
  <2> DEFINE S == {j \in Keys : c[j] = c[p]}
  <2>1. S \in SUBSET (0..N) /\ S \in SUBSET Keys /\ p \in S
    BY <1>1
  <2>2. PICK q \in S : \A j \in S : ~ (j < q)
    <3> HIDE DEF S
    <3>1. IsFiniteSet(S) /\ Cardinality(S) \in Nat /\ Cardinality(S) # 0
      BY <2>1, KeySets, FS_EmptySet
    <3>2. 1 \in 1..Cardinality(S)
      BY <3>1
    <3>3. PICK q \in S : Cardinality(below(S, q)) = 1 - 1
      BY <2>1, <3>2, RankTaken
    <3>4. IsFiniteSet(below(S, q)) /\ Cardinality(below(S, q)) = 0
      BY <2>1, <3>3, KeySets
    <3>5. below(S, q) = {}
      BY <3>4, FS_EmptySet
    <3> QED BY <3>5 DEF below
  <2>3. q \in Keys /\ c[q] = c[p]
    OBVIOUS
  <2>4. q \in Int /\ q <= p /\ q \in 1..(N + 1)
    BY <1>1, <2>1, <2>2, <2>3, ListingsAssumption DEF Keys
  <2>5. clean(c, q)
    <3> SUFFICES ASSUME NEW j \in Keys, NEW k \in Keys, j < q, q <= k, c[j] = c[k], c[j] # 0 PROVE FALSE
      BY DEF clean
    <3>1. k \in Int /\ (k = q \/ q < k)
      <4>1. k \in Int
        BY <1>1
      <4> QED BY <2>4, <4>1
    <3>2. c[j] = c[q]
      BY <2>3, <3>1 DEF Adjoining, together
    <3> QED BY <2>2, <2>3, <3>2
  <2>6. \A j \in Keys : q <= j /\ j < p => c[j] = c[p]
    <3> SUFFICES ASSUME NEW j \in Keys, q <= j, j < p PROVE c[j] = c[p]
      OBVIOUS
    <3>1. j \in Int /\ (j = q \/ q < j)
      <4>1. j \in Int
        BY <1>1
      <4> QED BY <2>4, <4>1
    <3> QED BY <1>3, <2>3, <3>1 DEF Adjoining, together
  <2> QED BY <1>3, <2>4, <2>5, <2>6
<1> QED BY <1>2, <1>3

\* What is required before where the walk is, is listed or on the page.
LEMMA GotSoFar ==
  ASSUME SizeInv, NEW q \in 1..(N + 1), Got(listed, q), Covers(q)
  PROVE  Got(listed \cup page, pos)
<1> SUFFICES ASSUME NEW k \in required, k < pos
             PROVE  \E l \in listed \cup page : class(req.common, l) = class(req.common, k)
  BY DEF Got
<1>1. k \in Int /\ q \in Int
  BY StableTypes, ListingsAssumption
<1>2. CASE k < q
  BY <1>2 DEF Got
<1>3. CASE q <= k
  BY <1>3 DEF Covers
<1> QED BY <1>1, <1>2, <1>3

\* The next page starts before this key, or at it, when the page is full.
LEMMA StableFull == ASSUME SizeInv, Steady, Stable, Visit_full PROVE Stable'
<1> DEFINE c == req.common
<1>1. /\ phase = "walk" /\ pos <= N /\ phase' = "fill" /\ Met /\ Visited /\ counted >= req.max
      /\ nextindex' = count /\ nextmarker' = pos
      /\ UNCHANGED <<present, begun, req, token, listing, entries>>
  BY DEF Visit_full, Met, Visited, bucket, client
<1>2. /\ listed' = listed /\ page' = page /\ there' = there
      /\ \A L, q : Got(L, q)' <=> Got(L, q)
  BY <1>1, SameRequired DEF listed, page, there
<1>3. known \subseteq present /\ page \subseteq present /\ count <= Cardinality(met)
  BY <1>1 DEF Stable, StableWalked
<1>4. /\ pos \in Keys /\ pos \in Int /\ pos \in 1..(N + 1) /\ there \in SUBSET Keys /\ Keys \in SUBSET Int
      /\ Adjoining(c) /\ count \in Int /\ pos >= 1
  BY <1>1, WalkHere, ListingTypes, SteadyPrefixes, ListingsAssumption DEF Keys
<1>5. Got(listed \cup page, pos)
  BY <1>1, GotSoFar DEF Stable, StableWalked
<1>6. pos \in there /\ (c[pos] = 0 \/ c[pos] # commonprefix)
  BY <1>1, <1>3, MetHere
<1>7. count # 0
  <2>1. req.max > 0 /\ req.max \in Int
    BY StableTypes DEF Steady
  <2>2. counted \in Nat /\ counted <= Len(entries)
    BY CountedEntries DEF SizeInv, Sized
  <2>3. count \in Nat /\ Len(entries) \in Nat /\ Len(entries) <= count
    BY <1>1, WalkHere
  <2> QED BY <1>1, <2>1, <2>2, <2>3
<1>8. truncated'
  BY <1>1, <1>4, <1>7 DEF truncated, Steady
<1>9. \E q \in 1..(N + 1) :
        /\ Continues(IF req.op \in ByMarker THEN nextmarker ELSE nextindex, q)'
        /\ Got(listed \cup page, q)
  <2>1. CASE req.op \in ByMarker
    <3>1. PICK p \in 1..(N + 1) : p = pos
      BY <1>4
    <3>2. Continues(IF req.op \in ByMarker THEN nextmarker ELSE nextindex, p)'
      BY <1>1, <1>2, <1>6, <2>1, <3>1 DEF Continues
    <3> QED BY <1>5, <3>1, <3>2
  <2>2. CASE req.op \notin ByMarker
    <3>1. PICK q \in 1..(N + 1) :
            /\ q <= pos /\ clean(c, q)
            /\ \A j \in Keys : q <= j /\ j < pos => c[j] = c[pos] /\ c[pos] # 0
      BY <1>4, CleanBefore
    <3>2. q \in Int /\ 1 \in Int
      BY ListingsAssumption
    <3> DEFINE A == classes(c, there, 1, q)
    <3>3. met \in SUBSET A
      <4> SUFFICES ASSUME NEW k \in metkeys PROVE class(c, k) \in A
        BY DEF met
      <4>1. k \in there /\ k < pos /\ (c[k] = 0 \/ c[k] = commonprefix \/ settled(c, k, pos))
        BY DEF metkeys
      <4>2. k \in Keys /\ k \in Int /\ 1 <= k /\ pos \in pos..N
        <5>1. k \in Keys /\ k \in Int
          BY <1>4, <4>1
        <5> QED BY <1>1, <1>4, <5>1, ListingsAssumption DEF Keys
      <4>3. ~ (q <= k)
        <5> SUFFICES ASSUME q <= k PROVE FALSE
          OBVIOUS
        <5>1. c[k] = c[pos] /\ c[pos] # 0
          BY <3>1, <4>1, <4>2
        <5>2. ~ settled(c, k, pos)
          BY <1>4, <4>2, <5>1 DEF settled, Adjoining
        <5> QED BY <1>6, <4>1, <5>1, <5>2
      <4>4. k < q
        BY <3>2, <4>2, <4>3
      <4> QED BY <4>1, <4>2, <4>4, ClassMember
    <3>4. IsFiniteSet(A)
      BY <1>4, <3>2, ClassSets, Zenon
    <3> HIDE DEF A
    <3>5. count <= Cardinality(A)
      <4>1. Cardinality(met) <= Cardinality(A) /\ Cardinality(met) \in Nat /\ Cardinality(A) \in Nat
        BY <3>3, <3>4, CardLess
      <4> QED BY <1>3, <1>4, <4>1
    <3>6. nextindex' <= Cardinality(classes(req'.common, there', 1, q)) /\ clean(req'.common, q)
      BY <1>1, <1>2, <3>1, <3>5 DEF A
    <3>7. Continues(IF req.op \in ByMarker THEN nextmarker ELSE nextindex, q)'
      BY <1>1, <2>2, <3>6 DEF Continues
    <3>8. Got(listed \cup page, q)
      BY <1>4, <1>5, <3>1, <3>2, GotMore
    <3> QED BY <3>7, <3>8
  <2> QED BY <2>1, <2>2
<1>10. StablePaged'
  <2>1. PICK q \in 1..(N + 1) :
          /\ Continues(IF req.op \in ByMarker THEN nextmarker ELSE nextindex, q)'
          /\ Got(listed \cup page, q)
    BY <1>9
  <2>2. Got(listed \cup page, q)'
    BY <1>2, <2>1
  <2> QED BY <1>1, <1>2, <1>3, <1>8, <2>1, <2>2 DEF StablePaged
<1> QED BY <1>1, <1>10 DEF Stable, StableAsked, StableWalked, StableDone

LEMMA StableEnds == ASSUME SizeInv, Steady, Stable, Walk_ends PROVE Stable'
<1>1. /\ phase = "walk" /\ pos > N /\ phase' = "fill"
      /\ UNCHANGED <<present, begun, req, token, listing, entries, nextindex, nextmarker>>
  BY DEF Walk_ends, bucket, client, walk
<1>2. /\ listed' = listed /\ page' = page /\ \A L, q : Got(L, q)' <=> Got(L, q)
  BY <1>1, SameRequired DEF listed, page
<1>3. pos = N + 1
  BY <1>1, ListingsAssumption DEF SizeInv, TypeOK
<1>4. Got(listed \cup page, N + 1) /\ page \subseteq present
  BY <1>1, <1>3, GotSoFar DEF Stable, StableWalked
<1>5. ~ truncated'
  <2>1. nextindex = 0 /\ nextmarker = 0 /\ req.op \in Walking
    BY <1>1 DEF SizeInv, Walked
  <2> QED BY <1>1, <2>1 DEF truncated, Walking
<1>6. Got(listed \cup page, N + 1)'
  BY <1>2, <1>4
<1>7. StablePaged'
  BY <1>1, <1>2, <1>4, <1>5, <1>6 DEF StablePaged
<1> QED BY <1>1, <1>7 DEF Stable, StableAsked, StableWalked, StableDone

\* A page of buckets has all that is there from its start to its end.
LEMMA StableBuckets ==
  ASSUME SizeInv, Steady, begun \subseteq present, Stable, List_buckets PROVE Stable'
<1> DEFINE c == req.common
           S == there
           n == Cardinality(S)
           o == Ordered(S)
           r(k) == Cardinality(below(S, k))
<1>1. /\ phase = "ask" /\ req.op = "ListBuckets" /\ phase' = "fill"
      /\ UNCHANGED <<present, begun, req, token, listing>>
  BY DEF List_buckets, bucket, client
<1>2. /\ listed' = listed /\ there' = there /\ \A L, q : Got(L, q)' <=> Got(L, q)
  BY <1>1, SameRequired DEF listed, there
<1>3. S \in SUBSET Keys /\ Keys \in SUBSET Int /\ token \in Int /\ token >= 0 /\ S \in SUBSET (0..N)
  BY ListingTypes, ListingsAssumption DEF SizeInv, TypeOK, Keys
<1>4. required \in SUBSET S
  <2>1. atfirst \in SUBSET S
    BY DEF atfirst, there
  <2> QED BY <2>1, StableTypes
<1>5. PICK q \in 1..(N + 1) : Continues(token, q) /\ Got(listed, q)
  BY <1>1 DEF Stable, StableAsked
<1>6. q \in Int /\ token <= r(q) /\ r(q) \in Nat
  <2>1. q \in Int
    BY ListingsAssumption
  <2>2. token <= Cardinality(classes(c, there, 1, q))
    BY <1>1, <1>5 DEF Continues, ByMarker
  <2>3. classes(c, there, 1, q) = below(S, q)
    BY <1>1, <2>1, NoPrefixes
  <2> QED BY <1>3, <2>1, <2>2, <2>3, KeySets
<1>7. entries' \in Seq(Keys) /\ DOMAIN entries' = 1..Len(entries')
  BY BucketPage, LenProperties
<1>8. n \in Nat /\ \A k \in S : k \in Int /\ r(k) \in Nat /\ r(k) + 1 \in 1..n /\ o[r(k) + 1] = k
  BY <1>3, KeySets, OrderedRank
<1>9. ASSUME NEW k \in S, q <= k PROVE token <= r(k)
  <2>1. r(q) <= r(k)
    BY <1>3, <1>6, <1>8, <1>9, BelowLess
  <2> HIDE DEF r
  <2> QED BY <1>3, <1>6, <1>8, <2>1
<1>10. \A k \in required : k \in S /\ k \in Int /\ (k < q \/ q <= k)
  BY <1>4, <1>6, <1>8
<1>11. CASE n <= token /\ Len(entries') = 0 /\ nextindex' = 0
  <2>1. DOMAIN entries' = {}
    BY <1>7, <1>11
  <2>2. page' = {}
    BY <2>1 DEF page
  <2>3. ~ truncated'
    BY <1>1, <1>11 DEF truncated
  <2>4. ASSUME NEW k \in S PROVE ~ (q <= k)
    <3>1. q <= k => token <= r(k)
      BY <1>9
    <3>2. r(k) \in Nat /\ r(k) + 1 \in 1..n
      BY <1>8
    <3> HIDE DEF r, n
    <3> QED BY <1>3, <1>8, <1>11, <3>1, <3>2
  <2>5. Got(listed, N + 1)
    BY <1>5, <1>10, <2>4 DEF Got
  <2>6. Got(listed \cup page, N + 1)'
    <3>1. listed' \cup page' = listed
      BY <1>2, <2>2
    <3>2. Got(listed \cup page, N + 1)' <=> Got(listed, N + 1)
      BY <1>2, <3>1
    <3> QED BY <2>5, <3>2
  <2>7. StablePaged'
    BY <2>2, <2>3, <2>6 DEF StablePaged
  <2> QED BY <1>1, <2>7 DEF Stable, StableAsked, StableWalked, StableDone
<1>12. CASE \E e \in Nat : BucketSlice(e)
  <2>1. PICK e \in Nat : BucketSlice(e)
    BY <1>12
  <2>2. /\ token <= e /\ e <= n /\ Len(entries') = e - token
        /\ (e = token => req.max = 0)
        /\ \A i \in 1..(e - token) : entries'[i] = o[token + i]
        /\ nextindex' = IF e < n THEN e ELSE 0
    BY <2>1 DEF BucketSlice, there
  <2>3. \A i \in 1..n : o[i] \in S /\ r(o[i]) = i - 1
    BY <1>3, OrderedKeys
  <2>4. ASSUME NEW k \in S, NEW p \in S, k < p PROVE r(k) < r(p)
    <3>1. k \in Int /\ p \in Int
      BY <1>8
    <3> QED BY <1>3, <2>4, <3>1, BelowMore
  <2> HIDE DEF o, n, r
  <2>5. ASSUME NEW k \in S, q <= k, r(k) < e PROVE k \in page'
    <3>1. token <= r(k) /\ r(k) \in Nat /\ o[r(k) + 1] = k
      BY <1>8, <1>9, <2>5
    <3>2. PICK j \in 1..(e - token) : r(k) + 1 = token + j
      <4>1. (r(k) + 1) - token \in 1..(e - token) /\ r(k) + 1 = token + ((r(k) + 1) - token)
        BY <1>3, <2>5, <3>1
      <4> QED BY <4>1
    <3>3. j \in DOMAIN entries' /\ entries'[j] = k
      BY <1>7, <2>2, <3>1, <3>2
    <3> QED BY <3>3 DEF page
  <2>6. ASSUME NEW k \in required, r(k) < e
        PROVE  \E l \in listed' \cup page' : class(c, l) = class(c, k)
    <3>1. CASE k < q
      BY <1>2, <1>5, <3>1 DEF Got
    <3>2. CASE q <= k
      BY <1>10, <2>5, <2>6, <3>2
    <3> QED BY <1>10, <3>1, <3>2
  <2>7. page' \in SUBSET S
    <3> SUFFICES ASSUME NEW j \in DOMAIN entries' PROVE entries'[j] \in S
      BY DEF page
    <3>1. j \in 1..(e - token) /\ entries'[j] = o[token + j]
      BY <1>7, <2>2
    <3>2. token + j \in 1..n
      BY <1>3, <1>8, <2>2, <3>1
    <3> QED BY <2>3, <3>1, <3>2
  <2>8. page' \subseteq present'
    BY <1>1, <2>7 DEF there
  <2>9. required' = required
    BY <1>1, SameRequired
  <2>10. CASE truncated'
    <3>1. nextindex' # 0
      BY <1>1, <2>10 DEF truncated
    <3>2. e < n /\ nextindex' = e /\ e + 1 \in 1..n
      BY <1>3, <1>8, <2>2, <3>1
    <3>3. PICK p \in S : p = o[e + 1]
      BY <2>3, <3>2
    <3>4. r(p) = e
      <4>1. r(p) = (e + 1) - 1
        BY <2>3, <3>2, <3>3
      <4> QED BY <4>1
    <3>5. p \in 1..(N + 1) /\ p \in Int
      BY <1>3, ListingsAssumption DEF Keys
    <3>6. Got(listed \cup page, p)'
      <4>1. \A k \in required : k < p => r(k) < e
        BY <1>10, <2>4, <3>4
      <4> QED BY <1>1, <2>6, <2>9, <4>1 DEF Got
    <3>7. Continues(IF req.op \in ByMarker THEN nextmarker ELSE nextindex, p)'
      <4>1. classes(c, there, 1, p) = below(S, p)
        BY <1>1, <3>5, NoPrefixes
      <4>2. clean(c, p)
        BY <1>1, NoPrefixes DEF clean
      <4>3. e <= e
        OBVIOUS
      <4>4. nextindex' <= Cardinality(classes(req'.common, there', 1, p)) /\ clean(req'.common, p)
        BY <1>1, <1>2, <3>2, <3>4, <4>1, <4>2, <4>3 DEF r
      <4> QED BY <1>1, <4>4 DEF Continues, ByMarker
    <3>8. StablePaged'
      BY <2>8, <2>10, <3>5, <3>6, <3>7 DEF StablePaged
    <3> QED BY <1>1, <3>8 DEF Stable, StableAsked, StableWalked, StableDone
  <2>11. CASE ~ truncated'
    <3>1. nextindex' = 0
      BY <1>1, <2>11 DEF truncated
    <3>2. e = n
      <4> SUFFICES ASSUME e < n PROVE FALSE
        BY <1>8, <2>2
      <4>1. token = 0 /\ e = 0
        BY <1>3, <2>2, <3>1
      <4> QED BY <2>2, <4>1 DEF Steady
    <3>3. ASSUME NEW k \in required PROVE r(k) < e
      <4>1. r(k) \in Nat /\ r(k) + 1 \in 1..n
        BY <1>8, <1>10
      <4> QED BY <1>8, <3>2, <4>1
    <3>4. Got(listed \cup page, N + 1)'
      BY <1>1, <2>6, <2>9, <3>3 DEF Got
    <3>5. StablePaged'
      BY <2>8, <2>11, <3>4 DEF StablePaged
    <3> QED BY <1>1, <3>5 DEF Stable, StableAsked, StableWalked, StableDone
  <2> QED BY <2>10, <2>11
<1> QED BY <1>11, <1>12, BucketPage DEF there

LEMMA StableFilled ==
  ASSUME SizeInv, Stable, Fill_start \/ Fetch_status \/ Fetched PROVE Stable'
<1>1. /\ phase \in {"fill", "status"} /\ phase' \in {"status", "answer"}
      /\ UNCHANGED <<present, begun, req, token, listing, nextindex, nextmarker>>
  BY DEF Fill_start, Fetch_status, Fetched, bucket, client, walk
<1>2. page \subseteq present
  BY <1>1 DEF Stable, StablePaged
<1>3. UNCHANGED entries
  BY <1>2, PresentKept
<1>4. /\ listed' = listed /\ page' = page /\ there' = there /\ (truncated' <=> truncated)
      /\ \A L, q : Got(L, q)' <=> Got(L, q)
  BY <1>1, <1>3, SameRequired DEF listed, page, there, truncated
<1>5. StablePaged'
  <2>1. CASE truncated
    <3>1. PICK q \in 1..(N + 1) :
            /\ Continues(IF req.op \in ByMarker THEN nextmarker ELSE nextindex, q)
            /\ Got(listed \cup page, q)
      BY <1>1, <2>1 DEF Stable, StablePaged
    <3>2. Continues(IF req.op \in ByMarker THEN nextmarker ELSE nextindex, q)'
      BY <1>1, <1>4, <3>1 DEF Continues
    <3>3. Got(listed \cup page, q)'
      BY <1>4, <3>1
    <3> QED BY <1>1, <1>2, <1>4, <2>1, <3>2, <3>3 DEF StablePaged
  <2>2. CASE ~ truncated
    <3>1. Got(listed \cup page, N + 1)
      BY <1>1, <2>2 DEF Stable, StablePaged
    <3>2. Got(listed \cup page, N + 1)'
      BY <1>4, <3>1
    <3> QED BY <1>1, <1>2, <1>4, <2>2, <3>2 DEF StablePaged
  <2> QED BY <2>1, <2>2
<1> QED BY <1>1, <1>5 DEF Stable, StableAsked, StableWalked, StableDone

LEMMA StableAnswer == ASSUME SizeInv, Stable, Answer PROVE Stable'
<1>1. /\ phase = "answer" /\ phase' \in {"done", "ask", "tired"}
      /\ (phase' = "ask" => truncated) /\ (phase' = "done" => ~ truncated)
      /\ token' = IF req.op \in ByMarker THEN nextmarker ELSE nextindex
      /\ UNCHANGED <<present, begun, req, entries>>
  BY DEF Answer, bucket, ByMarker
<1>2. /\ listed' = listed \cup page /\ there' = there
      /\ \A L, q : Got(L, q)' <=> Got(L, q)
  BY <1>1, SameRequired, AnswerListed DEF there
<1>3. StableAsked'
  <2> SUFFICES ASSUME phase' = "ask" PROVE StableAsked'
    BY DEF StableAsked
  <2>1. PICK q \in 1..(N + 1) :
          /\ Continues(IF req.op \in ByMarker THEN nextmarker ELSE nextindex, q)
          /\ Got(listed \cup page, q)
    BY <1>1 DEF Stable, StablePaged
  <2>2. Continues(token, q)'
    BY <1>1, <1>2, <2>1 DEF Continues
  <2>3. Got(listed, q)'
    BY <1>2, <2>1
  <2> QED BY <2>2, <2>3 DEF StableAsked
<1>4. StableDone'
  <2>1. phase' = "done" => Got(listed \cup page, N + 1)
    BY <1>1 DEF Stable, StablePaged
  <2>2. phase' = "done" => Got(listed, N + 1)'
    BY <1>2, <2>1
  <2> QED BY <2>2 DEF StableDone
<1> QED BY <1>1, <1>3, <1>4 DEF Stable, StableWalked, StablePaged

\* Keys that are added, at any time, take nothing away.
LEMMA WalkContinuesChanged ==
  ASSUME SizeInv, expected \in SUBSET expected', expected' \in SUBSET Keys,
         UNCHANGED <<req, token, pos, count, markerhit, commonprefix>>,
         NEW q \in 1..(N + 1), WalkContinues(q)
  PROVE  WalkContinues(q)'
<1>1. CASE req.op \in ByMarker
  BY <1>1 DEF WalkContinues
<1>2. CASE req.op \notin ByMarker
  <2> DEFINE A == ahead(req.common, expected, commonprefix, pos, q)
             B == ahead(req.common, expected', commonprefix, pos, q)
  <2>1. Adjoining(req.common) /\ q \in Int /\ pos \in Int /\ count \in Int /\ token \in Int
    BY <1>2, ListingTypes, ListingsAssumption DEF ByMarker
  <2>2. IsFiniteSet(B)
    <3>1. IsFiniteSet(classes(req.common, expected', pos, q))
      BY <2>1, ClassSets, Zenon
    <3> QED BY <3>1, FS_Difference DEF ahead
  <2>3. A \in SUBSET B
    <3>1. classes(req.common, expected, pos, q) \in SUBSET classes(req.common, expected', pos, q)
      BY <2>1, ClassLess
    <3> QED BY <3>1 DEF ahead
  <2>4. token <= count + Cardinality(A) /\ clean(req.common, q)
    BY <1>2 DEF WalkContinues
  <2> HIDE DEF A, B
  <2>5. Cardinality(A) <= Cardinality(B) /\ Cardinality(A) \in Nat /\ Cardinality(B) \in Nat
    BY <2>2, <2>3, CardLess
  <2>6. token <= count + Cardinality(B)
    BY <2>1, <2>4, <2>5
  <2> QED BY <1>2, <2>4, <2>6 DEF WalkContinues, B
<1> QED BY <1>1, <1>2

LEMMA StableChange ==
  ASSUME SizeInv, Steady, Stable, present \subseteq present', present' \subseteq Keys,
         UNCHANGED <<begun, req, token, listing, phase, entries, walk>>
  PROVE  Stable'
<1> DEFINE c == req.common
<1>1. UNCHANGED <<pos, known, count, markerhit, commonprefix, nextindex, nextmarker>>
  BY DEF walk
<1>2. /\ listed' = listed /\ page' = page /\ (truncated' <=> truncated)
      /\ atfirst' = atfirst /\ required' = required
      /\ \A L, q : Got(L, q)' <=> Got(L, q)
  BY <1>1, SameRequired DEF listed, page, truncated
<1>3. /\ token \in Int /\ nextindex \in Int /\ nextmarker \in Int /\ Adjoining(c)
      /\ there \in SUBSET there' /\ there' \in SUBSET Keys
  BY ListingTypes, SteadyPrefixes DEF there
<1>4. StableAsked'
  <2> SUFFICES ASSUME phase = "ask" PROVE StableAsked'
    BY DEF StableAsked
  <2>1. PICK q \in 1..(N + 1) : Continues(token, q) /\ Got(listed, q)
    BY DEF Stable, StableAsked
  <2>2. Continues(token, q)'
    BY <1>3, <2>1, ContinuesChanged
  <2>3. Got(listed, q)'
    BY <1>2, <2>1
  <2> QED BY <2>2, <2>3 DEF StableAsked
<1>5. StableWalked'
  <2> SUFFICES ASSUME phase = "walk" PROVE StableWalked'
    BY DEF StableWalked
  <2>1. /\ known \subseteq present /\ page \subseteq present /\ atfirst \subseteq expected
        /\ count <= Cardinality(met)
        /\ req.after \in atfirst /\ req.after < pos => markerhit
    BY DEF Stable, StableWalked
  <2>2. PICK q \in 1..(N + 1) : WalkContinues(q) /\ Got(listed, q) /\ Covers(q)
    BY DEF Stable, StableWalked
  <2>3. expected \in SUBSET expected' /\ expected' \in SUBSET Keys
    BY <1>1, <1>3 DEF expected
  <2>4. count' <= Cardinality(met')
    <3>1. metkeys \in SUBSET metkeys' /\ metkeys' \in SUBSET Keys
      BY <1>1, <1>3 DEF metkeys
    <3>2. met \in SUBSET met'
      BY <3>1 DEF met
    <3>3. met' \in SUBSET ((-N)..N)
      BY <1>3, <3>1, ClassType DEF met
    <3>4. IsFiniteSet((-N)..N)
      BY FS_Interval, ListingsAssumption
    <3>5. IsFiniteSet(met')
      BY <3>3, <3>4, CardLess
    <3>6. Cardinality(met) <= Cardinality(met') /\ Cardinality(met) \in Nat /\ Cardinality(met') \in Nat
      BY <3>2, <3>5, CardLess
    <3> QED BY <1>1, <2>1, <3>6, ListingTypes
  <2>5. WalkContinues(q)'
    BY <1>1, <2>2, <2>3, WalkContinuesChanged
  <2>6. Got(listed, q)' /\ Covers(q)'
    BY <1>1, <1>2, <2>2 DEF Covers
  <2>7. known' \subseteq present' /\ page' \subseteq present' /\ atfirst' \subseteq expected'
    BY <1>1, <1>2, <2>1, <2>3
  <2> QED BY <1>1, <1>2, <2>1, <2>4, <2>5, <2>6, <2>7 DEF StableWalked
<1>6. StablePaged'
  <2> SUFFICES ASSUME phase \in {"fill", "status", "answer"} PROVE StablePaged'
    BY DEF StablePaged
  <2>1. page' \subseteq present'
    BY <1>2 DEF Stable, StablePaged
  <2>2. CASE truncated
    <3> DEFINE t == IF req.op \in ByMarker THEN nextmarker ELSE nextindex
    <3>1. PICK q \in 1..(N + 1) : Continues(t, q) /\ Got(listed \cup page, q)
      BY <2>2 DEF Stable, StablePaged
    <3>2. t \in Int /\ t' = t
      BY <1>1, <1>3
    <3> HIDE DEF t
    <3>3. Continues(t, q)'
      BY <3>1, <3>2, ContinuesChanged
    <3> USE DEF t
    <3>4. Got(listed \cup page, q)'
      BY <1>2, <3>1
    <3> QED BY <1>2, <2>1, <2>2, <3>3, <3>4 DEF StablePaged
  <2>3. CASE ~ truncated
    <3>1. Got(listed \cup page, N + 1)
      BY <2>3 DEF Stable, StablePaged
    <3>2. Got(listed \cup page, N + 1)'
      BY <1>2, <3>1
    <3> QED BY <1>2, <2>1, <2>3, <3>2 DEF StablePaged
  <2> QED BY <2>2, <2>3
<1>7. StableDone'
  <2>1. phase = "done" => Got(listed, N + 1)
    BY DEF Stable, StableDone
  <2>2. phase' = "done" => Got(listed, N + 1)'
    BY <1>2, <2>1
  <2> QED BY <2>2 DEF StableDone
<1> QED BY <1>4, <1>5, <1>6, <1>7 DEF Stable

LEMMA StableInit == Init => StableInv
<1> SUFFICES ASSUME Init PROVE StableInv
  OBVIOUS
<1>1. SizeInv
  BY SizeInit
<1>2. phase = "ask" /\ token = 0 /\ present = begun
  BY DEF Init
<1>3. 1 \in 1..(N + 1) /\ \A k \in Keys : ~ (k < 1)
  BY ListingsAssumption DEF Keys
<1>4. Got(listed, 1)
  BY <1>1, <1>3, StableTypes DEF Got
<1>5. Continues(token, 1)
  <2>1. CASE req.op \in ByMarker
    BY <1>2, <2>1 DEF Continues
  <2>2. CASE req.op \notin ByMarker
    <3>1. clean(req.common, 1)
      BY <1>3 DEF clean
    <3>2. Cardinality(classes(req.common, there, 1, 1)) \in Nat
      <4>1. Adjoining(req.common) /\ there \in SUBSET Keys /\ 1 \in Int
        BY <1>1, <2>2, ListingTypes DEF ByMarker
      <4> QED BY <4>1, ClassSets, Zenon
    <3>3. token <= Cardinality(classes(req.common, there, 1, 1))
      BY <1>2, <3>2
    <3> QED BY <2>2, <3>1, <3>3 DEF Continues
  <2> QED BY <2>1, <2>2
<1>6. Stable
  BY <1>2, <1>3, <1>4, <1>5 DEF Stable, StableAsked, StableWalked, StablePaged, StableDone
<1> QED BY <1>2, <1>6 DEF StableInv

LEMMA StableStep == ASSUME SizeInv, StableInv, [Next]_vars PROVE StableInv'
<1>1. present \subseteq Keys
  BY DEF SizeInv, TypeOK
<1>2. CASE \E k \in Keys : Change(k)
  <2> SUFFICES ASSUME removed' = {} PROVE StableInv'
    BY DEF StableInv, Steady
  <2>1. PICK k \in Keys : Change(k)
    BY <1>2
  <2>2. UNCHANGED <<begun, req, token, listing, phase, entries, walk>>
    BY <2>1 DEF Change, client
  <2>3. removed = {} /\ present' = present \cup {k}
    BY <2>1 DEF Change
  <2>4. begun \subseteq present'
    BY <2>3 DEF StableInv
  <2>5. Steady' => Stable'
    <3> SUFFICES ASSUME Steady' PROVE Stable'
      OBVIOUS
    <3>1. Steady /\ Stable
      BY <2>2, <2>3 DEF StableInv, Steady
    <3> QED BY <1>1, <2>2, <2>3, <3>1, StableChange
  <2> QED BY <2>2, <2>4, <2>5 DEF StableInv
<1>3. CASE UNCHANGED vars
  <2>1. UNCHANGED <<present, removed, begun, req, token, listing, phase, entries, walk>>
    BY <1>3 DEF vars, bucket, client
  <2>2. Steady /\ Stable => Stable'
    BY <1>1, <2>1, StableChange
  <2> QED BY <2>1, <2>2 DEF StableInv, Steady
<1>4. CASE Serve
  <2>1. UNCHANGED <<present, removed, begun, req>>
    BY <1>4 DEF Serve, Start_walk, Visit_skip, Visit_early, Visit_entry, Visit_full, Walk_ends,
                List_buckets, List_parts, Fill_start, Fetch_status, Fetched, Answer, bucket, client
  <2>2. ASSUME Steady PROVE Stable'
    <3>1. begun \subseteq present /\ Stable
      BY <2>2 DEF StableInv, Steady
    <3>2. CASE Start_walk
      BY <2>2, <3>1, <3>2, StableStart
    <3>3. CASE Visit_skip \/ Visit_early \/ Visit_entry
      BY <2>2, <3>1, <3>3, StableVisit
    <3>4. CASE Visit_full
      BY <2>2, <3>1, <3>4, StableFull
    <3>5. CASE Walk_ends
      BY <2>2, <3>1, <3>5, StableEnds
    <3>6. CASE List_buckets
      BY <2>2, <3>1, <3>6, StableBuckets
    <3>7. CASE List_parts
      BY <2>2, <3>7 DEF List_parts, Steady
    <3>8. CASE Fill_start \/ Fetch_status \/ Fetched
      BY <3>1, <3>8, StableFilled
    <3>9. CASE Answer
      BY <3>1, <3>9, StableAnswer
    <3> QED BY <1>4, <3>2, <3>3, <3>4, <3>5, <3>6, <3>7, <3>8, <3>9 DEF Serve
  <2> QED BY <2>1, <2>2 DEF StableInv, Steady
<1> QED BY <1>2, <1>3, <1>4 DEF Next, Ended

\* A key that is there all the time is listed, or its common prefix is,
\* although any others are added before, between and during the pages: for
\* every number of keys and every limit of a page of at least 1.
THEOREM StableKeysListed == Spec => []StableListed
<1>1. SizeInv /\ PartsInv /\ StableInv => StableListed
  <2> SUFFICES ASSUME SizeInv, PartsInv, StableInv, phase = "done", removed = {}, req.max > 0,
                      req.common = NoCommon \/ (req.op = "ListObjectsV2" /\ req.after = 0),
                      NEW k \in wanted(begun)
               PROVE  \/ k \in listed
                      \/ check_common_prefix(k) # 0
                         /\ \E l \in listed : check_common_prefix(l) = check_common_prefix(k)
    BY DEF StableListed
  <2>1. req.op # "ListParts"
    BY DEF PartsInv
  <2>2. Got(listed, N + 1)
    BY <2>1 DEF StableInv, Steady, Stable, StableDone
  <2>3. k \in required
    BY DEF wanted, firsts, required, atfirst
  <2>4. k \in Keys /\ listed \in SUBSET Keys /\ Adjoining(req.common)
    BY <2>1, <2>3, StableTypes, ListingTypes, SteadyPrefixes DEF Steady
  <2>5. k < N + 1
    BY <2>4, ListingsAssumption DEF Keys
  <2>6. PICK l \in listed : class(req.common, l) = class(req.common, k)
    BY <2>2, <2>3, <2>5 DEF Got
  <2>7. l = k \/ (req.common[k] # 0 /\ req.common[l] = req.common[k])
    BY <2>4, <2>6, SameClass
  <2> QED BY <2>6, <2>7 DEF check_common_prefix
<1>2. Init => PartsInv /\ WholeInv /\ StableInv
  BY WholeInit, PartsInit, StableInit
<1>3. SizeInv /\ PartsInv /\ WholeInv /\ StableInv /\ [Next]_vars => (PartsInv /\ WholeInv /\ StableInv)'
  BY WholeStep, PartsStep, StableStep
<1> QED BY <1>1, <1>2, <1>3, SizeInvariant, PTL DEF Spec
=============================================================================
