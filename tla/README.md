# Verification of s3-baby-server

TLA+ models of the S3-compatible server in `src/v1/server`, TLC runs that check
them on small instances and TLAPS proofs for all values of their constants.
Paths below are relative to `src/v1/server` unless they start with `src/`.

## The system

Baby-server serves S3 requests from a directory of ordinary files. Each HTTP
request is a goroutine that runs one action of `api-action.go` (one per S3
operation). There is no database and no log: the state of the service is the
filesystem, and the only shared state in memory is the monitor that serializes
modifications and the table of scratch-file suffixes.

| Component | Source | State | Operations |
|---|---|---|---|
| Monitor | `monitor.go` | a queue of waiting requests per object, a condition variable, an unbuffered channel, a timer | `Enter`, `Exit`, `Attest`, `Guard_loop`, `Done` |
| Object operations | `api-action.go`, `copying.go`, `deleting.go`, `fs-operation.go`, `metainfo.go` | the object file, the metainfo file `.name@meta`, scratch files `.name@random` | `PutObject`, `CopyObject`, `DeleteObject(s)`, tagging, `GetObject`, `HeadObject`, `GetObjectAttributes` |
| Multipart uploads | same files | a directory `.name@mpul` with `info`, `list` (the catalog) and parts | create, upload part, copy part, list, complete, abort |
| Buckets | `api-action.go`, `listing.go` | a directory per bucket | create, delete (only if empty), head, list |
| Listings | `listing.go` | none (a walk of the directory) | objects, buckets, uploads, parts, with markers, prefixes, delimiters and page limits |
| Request parameters | `hodgepodge.go`, `src/pkg/httpaide/scanner.go` | request ids, scratch suffixes in use | conditions, ranges, tags, part numbers |
| Chunked reader | `chunked-reader.go` | position in an aws-chunked or chunked stream | `Read` |
| Server | `server.go` | the HTTP server | start, control, shutdown |
| Generated code | `handler.go`, `dispatcher.go`, `marshaler.go` and tables | none | decode a request, call an action, encode the response |

How they interact. An action that modifies an object prepares a scratch file
and reads what it needs *without* a lock. It then calls `serialize_access`
(`Monitor.Enter` on the object's name), rechecks by *entity-key* (a hash of
inode number, size and mtime) that the object is the one it has read, stores the
metainfo file, renames the scratch file to the object, and calls
`release_access` (`Monitor.Exit`) in a deferred call. Reading actions never lock
while they read. A metainfo file carries the entity-key of its object and is
ignored when it does not match. `GetObject` and `HeadObject` of a large object
without metainfo save the MD5 they have calculated in a metainfo file; this is
the one case where a reader writes.

What is hard here:

- everything read before exclusion may be stale in exclusion, and the recheck
  sees only what changes the entity-key;
- two files make one object, and are replaced one after the other while readers
  look at them and the server may be killed;
- `CopyObject` copies by hard link, which brings an old entity-key back;
- wakeups of the monitor pass through a channel, a goroutine, a broadcast and a
  mutex, with timeouts at any moment;
- every early return must release the lock and remove the scratch file;
- an upload is a directory of files that creations, parts, aborts and completions
  change while completions and listings read it without a lock;
- buckets and objects are not serialized against each other, and listings not
  against anything;
- a body arrives in reads of any size, and may break anywhere;
- a quit ends the process under the requests in progress.

`PROJECT.json` lists these hazards at their lines, with the properties that
cover them. What makes each component correct:

| Component | Correctness |
|---|---|
| Monitor | one request at a time per object, in order of arrival; no `log.Fatal`; no lost wakeup; `Enter` returns |
| Object operations | an object with its metadata changes in one step, by an acknowledged request, when its conditions hold; ETags are those of the data; nothing is left behind; failures lose at most metadata |
| Multipart uploads | a completed object is made of the parts the catalog names; parts of another upload id never enter; abort leaves nothing |
| Buckets | an object that is in a bucket is not removed with it |
| Listings | pages put together give the whole listing, each key once, and end |
| Chunked reader | only payload is delivered, and what is accepted is complete |
| Server | ids increase, no two requests share scratch files, a quit stops |

## Modules

| Module | What it is |
|---|---|
| `Exclusion` | what the monitor promises: a line of requests per object, first come first served |
| `Monitor` | `monitor.go`; refines `Exclusion` |
| `MonitorProofs` | theorems about `Monitor` |
| `Objects` | what the object operations promise: a map from keys to objects with data, tags and headers, changed atomically by acknowledged requests; a second specification, `LossySpec`, in which objects may lose their metadata |
| `ObjectStore` | the object operations on files, metainfo files and scratch files; refines `Objects` |
| `ObjectStoreProofs` | theorems about `ObjectStore`: types, clean returns |
| `ETagProofs` | theorems about `ObjectStore`: ETags, without `CopyObject` |
| `Uploads` | what the multipart operations promise about one object: at most one upload with its parts, changed by acknowledged requests in one step |
| `Multipart` | the multipart operations on the directory of an upload; refines `Uploads` |
| `MultipartProofs` | theorems about `Multipart`, with the refinement |
| `Buckets` | the directories of one bucket under bucket operations, puts, uploads and deletes |
| `BucketsProofs` | theorems about `Buckets` |
| `Listings` | the five listings, page by page, while keys come and go |
| `ListingsProofs` | theorems about `Listings` |
| `ChunkedReader` | the body of one upload, from the connection to the scratch file |
| `ChunkedReaderProofs` | theorems about `ChunkedReader` |
| `Server` | request ids, scratch suffixes, quit and the end of the process |
| `ServerProofs` | theorems about `Server` |
| `MCMonitor`, `MCObjectStore`, `MCMultipart`, `MCBuckets`, `MCListings`, `MCChunkedReader`, `MCServer` | instances for TLC: the requests of each run |

`ObjectStore` uses the monitor through its abstract specification: `holder[k]`
is the request in `Exclusion`'s `inside` for `k`. `ImplementsExclusion` of
`Monitor` is what justifies that composition, in `Multipart` and `Buckets` too. The
modules meet at these points: a request id of `Server` is a request of `Monitor`,
its suffix names `scratch[t]`; the scratch file that `ChunkedReader` fills is that
of `Upload_scratch` (a `result` other than `OK` is `Upload_fault`); the end of the
process in `Server` is `Crash` in `ObjectStore` and `Multipart`.

### Monitor

`waitings` is `m.waitings`; `pc[r]` is where a request's goroutine is:
`enter_send` and `exit_send` (blocked at `m.schedule <- struct{}{}`), `test`
(in the loop of `Enter`), `blocked` (in `m.blocker.Wait`), `service` (between
`Enter` and `Exit`). `guard` is the place in `Guard_loop`. One action is one
section under the mutex, the rendezvous on the channel, the broadcast, or a
firing of the timer. A section under the mutex is atomic: nothing blocks in it,
and `Cond.Wait` joins the notification list before it unlocks, so that a
broadcast, which takes no lock, falls before or after it. `Attest` is the test
that the request is first in its queue. Times are relative to now (`left`,
`timer`), which keeps the state space finite without a bound on time. A due that
has passed is 0. `Done` may be called when nobody uses the monitor.

### ObjectStore

A task is the goroutine of one request. One action is one filesystem call with
the computation up to the next, so that other requests may interleave between
any two calls. The sequence of program counters for each operation is in the
head of the module. The correspondence:

- `file[k]`: the object file, an inode number and its data. The inode number
  stands for the entity-key: a file's size and mtime do not change after its
  creation, and numbers are not used twice. A hard link has the number of its
  source.
- `meta[k]`: the metainfo file, with entity-key, ETag, tags and headers. `hdrs`
  stands for metadata headers, content headers and the stored checksum, `tags`
  for the tag set. `Nil` is a missing file.
- `scratch[t]`: the scratch file of a request. `stat`, `etag`, `seen`: what it
  has read before. `resp`: its response.
- `Data` stands for contents, their MD5 and their ETag. `LargeData` are those of
  at least `Etag_save_threshold`, for which metainfo is made in any case.
- `prior` is a history variable, used in the refinement mapping only.
- `answer` is a return: the deferred `release_access` and `discard_scratch_file`
  follow as the steps `unlock` and `discard`.
- `Faults` are the calls that may fail (`upload`, `link`, `store`, `rename`,
  `remove`); `Crash` kills the server, with files left as they are.

A request's task is used once; a run has as many requests as tasks.

The refinement mapping to `Objects` (`view`) shows an object with the metainfo
that is valid for it, except in the window in which a writer has replaced (or a
delete has removed) the metainfo and not yet the object: there it is shown with
the metainfo it had when the lock was taken. `CopyObject` is not part of
`Objects`: the code documents that the check of its source is not serialized.

### Multipart

One object and the directory `.name@mpul` of its upload: `info` is the info file,
by its upload id (which stands for initiation time, checksum algorithm and
metainfo), `list` the catalog, by the ETag of each part, and `part[n]` the part
files, each with the id it was sent for (history). A part's data stands for its
ETag. `source` is the object UploadPartCopy copies from, changed by other requests
up to `MaxPuts` times; a copy of all of it is a hard link, a copy of a range has
its own data. Ids are random numbers in the code: `Create_mpul_directory` takes any
id but the one that is there, so that an id may come back. The object and its
metainfo are placed in one step; their two files are the subject of `ObjectStore`.
`os.RemoveAll` removes files one by one in any order, with the info file gone
before. Of the conditions, If-None-Match `*` and If-Match-Initiated-Time are
modelled; those on the source are a nondeterministic outcome.

In the mapping to `Uploads`, a creation takes effect when the empty catalog is
stored and a completion when the object is renamed; in the steps between, the
upload is shown as it was before, or as over. `Uploads` lets a completion end
whatever upload is going on: the code does not recheck the id there.

### Buckets

`dirs` are the directories that exist (`Top` is the bucket's), `objs`, `mpuls` and
`scratch` what is in them, by `Home`, and `special` the directories with a file
that is neither a directory nor a regular file. Puts, uploads and deletes are not
serialized with bucket operations: they check the bucket, make the directories
that are missing, make a file and rename it. DeleteBucket tries `os.Remove`, then
checks directory by directory, then removes entry by entry. `kept` is history: the
objects there when the check began that are there since.

### Listings

A key is its place in the order of the walk. `fs.WalkDir` reads a directory when it
comes to it (`known`), visits each file in a step, and each entry's status is read
in a later step. A request has a limit, a set of keys with its prefix, and the
common prefix of each key. Objects with one common prefix are next to each other in
the walk, as all paths that begin alike are; uploads are not, unless the delimiter is
`/`: the walk meets `.a-1@mpul`, `.b-1@mpul` and `a-2/.x@mpul`. `together` is that
adjacency. The client asks page after page with the token, index
or marker of the answer, and others add or remove a key up to `MaxChanges` times at
any moment. `MaxPages` bounds a client that would never come to the end: it is
then `tired`, which `PagingEnds` excludes. `name` in an entry is what the client is
told; for parts it is the place on the page.

### ChunkedReader

The stream is a sequence of units: chunk headers, blocks of data, CR, LF, trailer.
`Fill` is a read by the `bufio.Reader` of 1 to `MaxRead` units, `Cut` breaks the
connection. A header is one unit since it is peeked; the peek waits for `PeekSize`
units (160 bytes in the code) or the end of the stream. CR LF after a chunk are two,
since `consume_cr_lf` makes one plain `Read`. A trailer is one unit with the empty
line at its end, and an empty line alone (CR LF or LF, `Read_empty_line`) is a
trailer without headers. Sizes of chunks and the decoded length are any integers, as
`ParseInt` takes them; with a negative size the handler panics. `wants` is how much
of the stream the next step needs, `Waiting` that the buffer has less. `up` holds the
headers and the payload that the client means. `meant` says that the data of a
stream, as far as it goes, is the payload, in the chunks that the headers tell;
`complete` that the stream has all of it, with its CR LF and its trailer or empty
line, and that the headers of the request agree. Both are definitions over the
stream, not flags of the instance: TLC evaluates (`UploadsMeant`) that the uploads of
the run are all meant, and which of them are complete. `out` is the scratch file,
`held` the data of a `Read` that has not returned.

The stream is the body that `net/http` hands to the handler. The comment of
`chunked-reader.go:16-19` assumes that "Golang's http server does NOT handle
http1-chunked streams", and what is said of `Chunked_HTTP1` holds where that is so.
`net/http` does decode such a body; then the stream of an http1-chunked upload is its
data without headers, which is the upload `[Raw(2) EXCEPT !.te = TRUE]` of the run:
it is refused as `InvalidRequest`. An aws-chunked stream within one is not affected
as long as nesting is not configured; with it, the inner http1-chunked reader is taken
as a connection under the same assumption.

### Server

`Arrive` to `Return` are the steps of `ServeHTTP`; `kind` tells object requests from
`quit`. The time is any of `1..MaxTime` at each reading, so that it may stand and go
back. `shut[t]` is the goroutine that a quit starts. `Suffix_fatal` (no free suffix
in ten tries) is enabled when all suffixes are in use; that ten random tries miss
the free ones is left out. What a handler does is in the other modules.

## Runs

| Run | Instance | Distinct states | Properties |
|---|---|---|---|
| `Monitor` | 3 requests, 2 objects, `FairSpec` | 165,352 | `TypeOK`, `MutualExclusion`, `QueueStateGood`, `WakeupKept`, `ImplementsExclusion`, `EnterReturns` hold |
| `StoreUpdates` | 3 requests of 9 kinds, 1 key | 377,252 | `TypeOK`, `ImplementsObjects` hold |
| `StoreFailures` | 3 requests of 8 kinds (4 updates, 4 reads), 1 key, four faults, 1 crash | 964,435 | `NothingLeft`, `ETagSound`, `GetConsistent`, `ImplementsLossyObjects` hold |
| `StoreCopies` | 3 requests of 8 kinds, 2 keys, `link` may fail | 408,953 | `ETagSound` holds without ETag-saving readers |
| `StoreAnswers` | 3 requests of 4 kinds, 1 key, `FairSpec` | 191,856 | `Answered` holds |
| `StoreTagsLost` | tagging and a reader | | `ETagStoredWhenEmpty` violated |
| `MultipartFailures` | 3 requests of 8 kinds, 2 ids, 2 parts, three faults, 2 crashes | 939,378 | `TypeOK`, `CatalogBacked`, `DirectoryGone`, `CompletedAsListed`, `PartsOwned` hold |
| `MultipartCopies` | 3 requests of 10 kinds, 1 change of the source | 1,408,950 | `ImplementsUploads` holds |
| `Buckets` | 3 requests of 8 kinds, 2 objects in 2 directories, a special file or none | 494,157 | `TypeOK`, `ObjectsKept` hold |
| `Listings` | 5 keys in 3 directories, pages of 1 and 2, 2 changes | 971,789 | `TypeOK`, `PagesWhole`, `NoneTwice`, `StableListed`, `PagingEnds` hold |
| `ChunkedReader` | 41 uploads of up to 4 blocks in up to 3 chunks | 3,347 | `TypeOK`, `OnlyPayload`, `WholeWhenOK`, `ErrorsExplained`, `ReadEnds` hold |
| `Server` | 3 requests, 2 suffixes, 2 times | 225,157 | `TypeOK`, `SuffixOwned`, `IdsIncrease`, `QuitStops` hold |

Bounds. Two requests are enough for a race between two actors; the third gives
the monitor a queue with a head, a second and a last, and gives the store a
reader (or a copy) between two writers, which is what an entity-key that comes
back needs, and the multipart run a creation between an upload's start and its end.
One key is enough where operations touch one key; copies have two. Two contents,
one of them large, separate the paths with and without saved ETags; two labels
separate the metadata of two writers. The waiting times 2, 4 and 1 keep the order
`SmallWait` < `ExclusionWait` < `IdleWait` of 10 ms, 5 s and 3600 s. Two parts and
two ids allow a list with a wrong order, a part twice, a missing part, and an id
that is replaced and comes back. Two directories let the emptiness test of a
bucket be between them. Five keys with pages of one and two put a page boundary
before, in and after a common prefix, and a StartAfter within one; for uploads, two of
the four common prefix maps have one that lies apart, with keys or with another common
prefix between; two changes allow an addition and a removal.
`MaxRead` 4 and `CopySize` 2 let a read end anywhere, and span two chunks; `PeekSize` 3
makes a peek wait for units behind the header. The uploads of the run have trailers
that are there, empty, cut short and wrong, a chunk of size -1, and decoded lengths
that are missing, wrong, -1 and -2. Two suffixes for three requests let them run out.
Symmetry of tasks is used in the runs without liveness.

What the runs with properties under a condition show, and why:

- `CatalogBacked` is about an upload whose id clients may know. While a creation
  overtakes an old directory, the new id is stored before the empty catalog. A kill
  between the two gives the parts of the old upload to the new id; they are still
  backed by files. The property is about at most one kill, see *Second kill* below.
- `CompletedAsListed` is checked for clients that always send the same data for a
  part: `SteadyParts`, which TLC evaluates for the requests of the runs.
- `ObjectsKept` excepts objects below a special file, and objects that come after
  the check has begun.
- `NoneTwice` and `StableListed` say which changes a listing by index or by marker
  stands. `NoneTwice` is about all keys, and about common prefixes whose keys lie
  `together`; `PagesWhole` says of the others that they are listed as often as one page
  without a limit would list them.
- `WholeWhenOK` is about all of the payload. Of the trailer it says that none is taken
  that is not announced, and that one that is announced is missed only when an empty
  line stands in its place.
- `ErrorsExplained` names the one way a correct upload fails.
- `ReadEnds` says that a read hangs only on a client that is silent for ever.

## Behaviours of the code that the models show

`StoreTagsLost` is a run: a reader that saves an ETag overwrites tags stored since
it read, although "it is otherwise empty" (`fs-operation.go:405`). `PROJECT.json`
has it under `findings`. The following come out of the same models and are worth
knowing; each can be reproduced by asking TLC for the opposite.

- *Late timeout.* The head of a queue that times out removes itself without
  waking the guard (`monitor.go:132`), which does not plan for heads of queues. The
  next request, now the head, sleeps on past its due until other traffic comes, or
  for an hour. `WakeupKept` names this step as the only one that loses a wakeup.
- *Revived metainfo.* A copy by link without metadata leaves an older metainfo
  file in place, which matches again (`copying.go:754`).
- *Missing target.* A conditional put, or completion, on a missing key uses a nil
  status and panics (`copying.go:356`): `Recheck_panic`, and `Recheck_target` in
  `Multipart`. The deferred calls are made; the client gets no answer.
- *Wrong ETag.* `fetch_object_etag` drops the entity-key of the file it has summed
  (`fs-operation.go:871`). `GetObject` is safe, as it compares the entity-key when
  it opens the file (`GetConsistent`), but with a link copy in between the recheck
  in exclusion does not see the change either, and a wrong ETag is saved. This is
  why `StoreCopies` has no reader. `HeadObject` can return the ETag of one file with
  the size of another.
- *Scratch link left.* An error after the link of a copy leaves the link
  (`copying.go:544`). `CleanReturn` excludes this fault.
- *No metadata in the window.* `GetObject` reads status before metainfo, and in the
  window of a writer returns an object without its metadata.
- *Part sent again.* A part replaced by other data between the check of its ETag
  and its concatenation enters the object unseen (`copying.go:615`).
- *Completion of another upload.* A completion in exclusion does not recheck the id
  and ends whatever upload is there; an abort and a completion of one upload can
  both be acknowledged.
- *Second kill.* A kill in the middle of a removal leaves a directory without its
  info file, but with a catalog and some of the parts it names. A creation takes the
  directory over, and a second kill between its info file and its empty catalog makes
  the old catalog that of an ongoing upload, naming parts that are gone. Its id has
  not been told to a client, but ListMultipartUploads shows it.
- *Part removed first.* A part that is copied again from the same source is removed
  before the rename; a failure in between leaves the catalog without its file.
- *Objects under a special file.* A special file that sorts before the objects of a
  directory ends its emptiness test (`listing.go:581`, `return nil`), and
  DeleteBucket removes the objects.
- *Bucket comes back.* A put that has checked its bucket makes the directory again
  after DeleteBucket; an object put during the check of DeleteBucket can be lost, as
  `design.md` says of bucket and object operations.
- *ListParts.* With MaxParts the answer is always truncated, and parts are numbered
  by their place on the page (`api-action.go:2232`).
- *Pages without end.* ListMultipartUploads with MaxUploads=0 answers with empty pages
  and a marker at the same key for ever, as the marker alone makes it truncated; so does
  ListParts with MaxParts. Both are left out of the run, whose `PagingEnds` is about
  the others; other listings with a limit of 0 end with one empty page.
- *Common prefix of uploads twice.* `list_mpuls_flat` compares a common prefix with the
  last one only (`listing.go:465`), where the comment says "check if already
  encountered" (`listing.go:461`). With the delimiter `-`, uploads of `a-1`, `D/x-1` and
  `a-2/z` give `a-` twice, on one page. `firsts`, which `PagesWhole` compares with, has
  it again too, and `NoneTwice` is about common prefixes that lie `together`.
- *Markers.* A ListObjects marker that is deleted, or is no longer the first of its
  common prefix, ends the listing; StartAfter is inclusive and must exist;
  ListMultipartUploads returns its next marker as KeyMarker. A StartAfter that is not
  the first key of its common prefix lists nothing: the walk skips a key whose common
  prefix it has met before it compares the key with the marker (`listing.go:308`).
- *Split CR LF.* A read that ends between CR and LF fails a correct upload
  (`chunked-reader.go:347`).
- *Missing trailer.* A stream that announces a trailer and has an empty line after its
  last chunk is accepted: `ReadMIMEHeader` returns no headers and no error
  (`chunked-reader.go:366`), and a checksum that was to come there is not compared.
- *Negative numbers.* A negative chunk size panics in the slice of `read_chunk_body`
  (`chunked-reader.go:325`); the client gets no answer. `X-Amz-Decoded-Content-Length:
  -1` turns the comparison of lengths off (`copying.go:721`).
- *Long peek.* A header is peeked with 160 bytes, so that a chunk that has arrived is
  not delivered before the next bytes of the stream have (`chunked-reader.go:456`).
- *Quit.* Shutdown has the context of the quit request, which is cancelled when its
  handler returns; and main returns as soon as the listener is closed. Requests in
  progress, and the answer to the quit, may be cut off.

## Fairness

`Monitor!FairSpec`: weak fairness of the guard, of the loop of `Enter`, of `Exit`
(the work in exclusion ends) and of the clock; strong fairness of `Send`, as Go
serves the senders of a channel in order. `Enter` is not fair: clients need not
come. `ObjectStore!FairSpec`: weak fairness of the steps of a request, strong
fairness of `Serialize_access`, justified by the first-come-first-served order of
`Exclusion`; the data of an upload is taken to arrive, as `Answered` is about the time
after. `Listings!Spec`: the goroutine of the request runs, and the client goes on
asking. `ChunkedReader!Spec`: the goroutine runs when it has what it needs. That the
client sends (`Fill`) is not granted: `ReadTimeout` is 0, that is none, unless it is
configured (`server.go:278-286`), and "Baby-server would wait indefinitely in service"
(`design.md`). A timeout that is configured is a `Cut`. `Server!Spec`: each goroutine of a
request or of a shutdown, and main, run. Timeouts and crashes are never assumed to
happen, nor are requests to come.

## Proofs

All proofs hold for any sets of requests, objects, tasks, keys, parts, ids, data and
uploads, from the named assumption of each module (`MonitorAssumption`: the waiting
times are positive; `StoreAssumption`, `MultipartAssumption` and `BucketsAssumption`:
requests have the parameters their operation needs, and `Nil` is none of the values;
`ServerAssumption`, `ChunkedReaderAssumption`: types; `ListingsAssumption`: keys of
objects, not of uploads, with the same common prefix are next to each other, buckets
and parts have no common prefixes, and their limits are not negative, which the code
does not reject: its slices panic then). Each is evaluated by TLC in the runs. What a
theorem needs beyond is a hypothesis of it.

`MonitorProofs`:

- `TypeCorrect`: `Spec => []TypeOK`.
- `QueueInvariant`: the inductive invariant `MonitorInv`. A request is in
  exactly one queue, once, while its `pc` says so, namely the queue of its
  `object`; a request in service is first in it. Mutual exclusion alone is not
  inductive: that two requests are first in the same queue is excluded only by
  their being in it once, and that the one in service stays first needs that
  only it removes itself.
- `MutuallyExclusive`, `NeverFatal` follow from it.
- `WakeupsKept`: the action property `WakeupKept`. A request falls asleep only
  when it is not first; it becomes first only by the removal of the first one,
  and `Exit` leaves the remover in `exit_send`.
- `Implementation`: `Spec => ImplementsExclusion`, step by step.

`ObjectStoreProofs`:

- `TypeCorrect`: `Spec => []TypeOK`. The invariant `TypeInv` adds `Ready`: at
  each program counter, what the step dereferences is there (the request, the
  scratch file from the lock to the rename, the status and the ETag or metainfo
  of what is going to be stored).
- `CleanReturn`: `NothingLeft`, with any failures if there are no copies, and with
  copies if the checksum after a link does not fail (`LinksClean`). The
  invariant `NeatInv` says that a task holds at most the lock of its own key, and
  only at the program counters in exclusion, and that it has ended only with its
  scratch file gone. The excluded fault is the one of the scratch link that is left.

`ETagProofs`, under the assumption `NoCopy` (no request is a `CopyObject`), with
any failures and any number of crashes:

- `ETagsSound`: `[]ETagSound`, and `GetsConsistent`: `[]GetConsistent`. Neither is
  inductive: the metainfo that makes `ETagSound` true or false is written by a
  reader with an entity-key and an ETag that it has read in two earlier steps,
  or by a writer before its scratch file becomes the object. The invariant
  `EntityInv` therefore says that entity-keys are of files made so far
  (`Bounded`); that nobody has the entity-key of a scratch file but its request
  (`Private`); that metainfo fits the object and also the scratch file it names,
  if it names one (`MetaSound`); and that what a request has read fits together
  *unless the object has changed* (`Reads`). The last one is the point: an ETag
  of another file than the status may be stored, but the entity-key it is stored
  with is then one that no file gets again. The proof has a lemma for each way a
  step treats files (`DataLess`, `DataNew`, `DataPlace`, ...) and each way it
  goes on (`ControlGo`, `ControlAnswer`, ...).
- `LossyObjectsImplemented`: `Spec => ImplementsLossyObjects`. Each step is a step of
  `Objects`, a loss of tags and headers (`Lose`) or a stutter, with any failures and
  crashes. `ObjectsImplemented`: `Spec => ImplementsObjects`, without losses, unless
  `MayLose`: a rename or a removal can fail, the server can be killed, or a reader can
  save the ETag of a large object. In no other way is a step a loss; an upload or a
  store of metainfo that fails leaves the object as it was. The answer of a request
  and the change of the object are one step of `Objects`, so the proof has to know, at
  the step that places or removes the file, that the conditions checked earlier still
  hold. `StoreInv` joins the
  invariants above with `UpdateInv`: a request that finds the object it has read has
  its ETag too (`Judged`), so that the recheck in exclusion means that the conditions
  hold on the object (`Granted`); from there to the rename only the holder touches the
  two files (`Outside`); metainfo for a scratch file is there only if its request has
  prepared it (`Fresh`), so that an object never gets the headers of another
  request; the tagging operations have read the object as it is (`Tagged`); and what
  metainfo is stored before, in and after the window between the two files
  (`Windowed`), during which the refinement mapping takes the metainfo kept in `prior`.
- `NoCopy` is needed for `ETagSound`: a hard link makes an entity-key come back,
  which is the wrong ETag described above. `Objects` has no copies: a copy
  reads and links its source outside of exclusion, and is not one step.

`ServerProofs`, with any clock:

- `TypeCorrect`, `SuffixesOwned` (`[]SuffixOwned`) and `IdsAlwaysIncrease`
  (`IdsIncrease`). `SuffixOwned` speaks of requests in service; its invariant
  `ServerInv` also says that ids of two requests differ, that a request has one from
  `make_request_id` on, and that whatever is registered for the id of a request is its
  suffix, while it is in service. That the id of a request is nobody else's rests on
  `rid_past` being the largest one so far.

`MultipartProofs`, with any failures and any number of kills where nothing else is
said:

- `UploadInvariant`: the invariant `UploadInv`. What a step uses is there
  (`Ready`); exactly the task at a step in exclusion is the holder (`Exclusive`); the
  holder knows the upload of the directory after its recheck (`Owner`); and part files,
  catalog, scratch files and the object have data that was sent for their part
  numbers (`FilesSent`, `ListReady`, `ObjectSent`). `TypeCorrect` follows.
- `PartsAreOwned`: `PartsOwned`, from `Owner`: between the recheck of the id and the
  rename only the holder changes `info`.
- `CompletesAsListed`: `SteadyParts => (Spec => []CompletedAsListed)`. A completion
  concatenates without exclusion, so that nothing relates its parts to the catalog
  any more except that both were sent for the part: this is what `UploadInv` keeps,
  and why `SteadyParts` is needed (*Part sent again*).
- `CatalogIsBacked`: `NoLinks => (Spec => []CatalogBacked)`. By itself `CatalogBacked`
  is not inductive: before a kill `CatalogInv` has the catalog backed all the time,
  with an upload or without, except in a removal. `NoLinks` (each UploadPartCopy has a
  range) excludes *Part removed first*.
- `DirectoriesGo`: `[]DirectoryGone`, with failing uploads, stores and renames; the
  calls that remove the directory succeed in the model. `DirectoryInv` says who is
  making or removing a directory without an info file.
- `UploadsImplemented`: `Spec => ImplementsUploads`, if `SteadyParts`, no kill, and the
  stores of info and catalog do not fail; uploads, links and renames may fail and
  requests may time out. Each step is a step of `Uploads` or a stutter; that a part or
  an abort takes effect on the upload it was sent for is `Owner`. The excluded failure
  is that of a creation which has overtaken an earlier upload: it removes the directory
  of both, and is answered with an error.

`BucketsProofs`, for any number of directories one level below the bucket's and any
special files:

- `TypeCorrect`: every file is in a directory that exists.
- `ObjectsAreKept`: `ObjectsKept`. The invariant `BucketInv` says of DeleteBucket's
  check, directory by directory, that each object that was there when it began and is
  still there is in a directory it has not come to, or is behind a special file; when
  the check ends without an entry, none is ahead.

`ChunkedReaderProofs`, under the hypothesis `Meant` (every upload is `meant`), for
streams of any length, any sizes of chunks, reads and buffers, and a break anywhere:

- `ReaderInvariant`: the invariant `ReaderInv`. The buffer and the connection have the
  rest of the stream (`Flow`); what is written and held is a prefix of the payload
  (`Prefix`); at a header, all data of the stream so far is written (`Headed`); in a
  chunk, its header is `chunk_n + 1` units back and what is written is what comes
  before the header and `chunk_n` blocks more (`InChunk`). The last two are what makes
  `Prefix` inductive: which part of the payload the next block is, is known only by
  counting from the header. After the last chunk, `Blank` and `Trailed` say what stood
  in the place of the trailer.
- `TypeCorrect`, `OnlyPayloadWritten` (`[]OnlyPayload`), `AcceptedWhole`
  (`[]WholeWhenOK`) and `ErrorsAreExplained` (`[]ErrorsExplained`) follow. The last
  needs that in a stream that is `complete` the next unit is the one the reader wants;
  the one leaf where this does not exclude an error is a buffer that is just a CR.

`ListingsProofs`, for any number of keys, directories, prefixes, common prefixes and
limits, and any number of changes by others:

- `TypeCorrect`: `[]TypeOK`, with the limit of a page.
- `NoneListedTwice`: `[]NoneTwice`. That what was listed is in order says nothing of
  the next page, which starts a new walk from the first key. The invariant
  `ListingsInv` says that there is a key `q` after all that was listed, and after all
  keys with their common prefixes where these lie together (`settled`), such that the
  next page lists nothing before `q`: for a marker because `q` is not after it; for
  an index because there are no more keys and common prefixes before `q` than the
  index (`Guard`). A removal keeps this, as it makes the number smaller; an addition
  does not, which is why `NoneTwice` speaks of additions only for markers. In a walk,
  what is counted so far and what is still there before `q` is at most the index
  (`WalkGuard`), and what is there before `pos` is at most what was counted
  (`Counted`), so that the index of a page that is full is one for the key that did
  not fit; this needs that the walk knows all files of the directories it has read,
  as long as none is added. The lemmas under it are about numbers of elements:
  `Ordered` is defined by how many keys are below one (`RankTaken`, `OrderedKeys`),
  and a key that is met counts for one, once (`ClassMet`).
- `PagesPutTogether`: `[]PagesWhole`. While nothing changes, `WholeInv` has a key `q`
  such that exactly the keys below it that are `wanted` have been listed, and the
  token resumes exactly at `q`: as a marker it is `q`, as an index it is the number
  of keys and first keys of common prefixes below `q`. In a walk `count` is that
  number below `pos`, and the page has what is wanted from `q` to `pos`. Where common
  prefixes lie apart (only by marker), what the walk compares with is the common
  prefix met last (`MetLast`), which is that of the last key before `pos` that has
  one. With `ListingsInv` for the order, a sequence in order of all wanted keys is
  `Ordered` of them (`OrderedAll`). ListParts has an invariant of its own
  (`PartsInv`): one page without MaxParts, no last page with it.
- `StableKeysListed`: `[]StableListed`. While keys are only added, numbers are bounds:
  all that is required below some `q` has been listed (`Got`), and the token resumes
  at `q` or before it (`Continues`), since the keys below `q` only become more. A
  common prefix must not be split by `q` (`clean`), or an addition in front of its
  first key would list its entry elsewhere. In a walk, `count` is at most the number
  of what it has met, and the token at most `count` and what is still ahead of `pos`
  below `q` (`WalkContinues`); this needs that a key that is there is read with its
  directory (`expected`). The exception in `StableListed`, a marker with a common
  prefix, is where there is no such `q`.

Only model-checked: the liveness properties (`EnterReturns`, `Answered`,
`PagingEnds`, `ReadEnds`, `QuitStops`), which are out of this prover's reach, and
what the hypotheses of the theorems leave out: `ETagSound` with copies and no
ETag-saving readers (`StoreCopies`).

## Not modelled

- Ranges (`scan_range`) and conditions on mtime and size: computations without
  state. Of the ranges, a suffix range `bytes=-n` is read as `0..n`, and a start
  beyond the size is not rejected.
- Checksum algorithms: data stands for its checksums.
- Failures of removals. Beyond the failures that `Faults` names, calls that clean up
  succeed: the removal of metainfo (`deleting.go:66`, `copying.go:763`), of the target
  of a copy to itself (`copying.go:792`), of a scratch file (`copying.go:818`), of the
  info file and the directory of an upload (`fs-operation.go:285-299`). The code logs
  most of these errors and goes on. `NothingLeft` and `DirectoryGone` are therefore
  about the calls being made on every path, not about their outcome.
- Directories below the first level of a bucket: `Buckets` has the bucket's directory
  and those in it.
- Errors of reads of existing files, files changed from outside of the server, and
  files replaced by directories of the same name.
- `list_objects_delimited`, which is not called (`always_use_flat_lister`).
- The inner reader of a nested chunked stream as a second reader: it is a
  connection that returns as much as it likes.
- Configuration, logging, TLS, the profiler and the control request `stat`.
- Generated handlers, dispatcher, marshaler and error tables; signing; quoting; the
  stub generator, the command and the test clients: no state of interest.

## What is left

Every invariant, action property and refinement that a run checks is also stated by a
theorem, under the hypotheses above. What could still be added:

1. CopyObject in the refinement: an abstract copy whose read of the source and change
   of the target are two steps, and `ETagSound` for copies without ETag-saving
   readers, with an entity-key that two files may share.
2. Properties for what has none yet: reads in the window
   of a writer, a failed copy of an object to itself, a copy of another version than
   the one that was checked, dropped errors of a page, and the bounds of ranges.
3. Liveness stays with TLC.
