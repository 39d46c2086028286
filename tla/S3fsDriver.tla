----------------------------- MODULE S3fsDriver -----------------------------
(***************************************************************************)
(* drivers/storage/s3fs/storage/s3fs_storage.go: buckets as volumes.  The  *)
(* provider knows no attachments, and the driver reports every bucket as   *)
(* attached to whoever asks.                                               *)
(*                                                                         *)
(* What matters of a bucket is what it holds, because a bucket that is not *)
(* empty is not deleted: the versions of its objects and, when versioning  *)
(* is on, a delete marker for each key deleted without naming a version.   *)
(* Listings come in pages, in the order of the keys.                       *)
(***************************************************************************)
EXTENDS Cloud

CONSTANTS
    Keys,      \* object keys, numbers in their order
    PageSize,  \* entries in one page of a listing
    USEast     \* the region whose buckets have no location constraint

VARIABLES
    bucket,   \* what each bucket holds: versioning, versions, delete markers
    page      \* the page each server is working on: its keys, the last of them,
              \* whether more follow

s3vars == <<bucket, page>>

NoPage == [keys |-> {}, last |-> 0, more |-> FALSE]

Empty == [on |-> FALSE, vers |-> {}, marks |-> {}]

InitBuckets ==
    /\ page = [h \in Hosts |-> NoPage]
    /\ \E on \in BOOLEAN, held \in SUBSET Keys :
          /\ driver # "s3fs" => ~on /\ held = {}
          /\ bucket = [v \in Vols |-> IF driver = "s3fs" /\ Exists(v)
                                      THEN [Empty EXCEPT !.on = on, !.vers = held]
                                      ELSE Empty]

\* Keys with a current object.
Objects(v) == bucket[v].vers \ bucket[v].marks

\* The PageSize first entries of S after a marker.
Page(S, after) ==
    LET rest == {k \in S : k > after}
        first == {k \in rest : Cardinality({j \in rest : j < k}) < PageSize}
    IN [keys |-> first, last |-> CHOOSE k \in first \cup {0} : \A j \in first : j <= k,
        more |-> first # rest]

\* A host that has mounted the bucket writes an object.
Write(v, k) ==
    /\ driver = "s3fs"
    /\ Exists(v) /\ left > 0
    /\ left' = left - 1
    /\ bucket' = [bucket EXCEPT ![v].vers = @ \cup {k}, ![v].marks = @ \ {k}]
    /\ reply' = NoReply
    /\ req' = [h \in Hosts |-> IF req[h].id = v THEN [req[h] EXCEPT !.lap = TRUE]
                               ELSE req[h]]
    /\ UNCHANGED <<driver, zone, vol, faults, page>>

-----------------------------------------------------------------------------

toTypeVolume(h) == {h}

\* ListBuckets: all the buckets of the account.
toTypeVolumes == {v \in Vols : Exists(v)}

Volumes(h) ==
    /\ At(h, "list")
    /\ \/ Faulty /\ Fail(h)
       \/ Same /\ Return(h, "ok", toTypeVolumes)
    /\ UNCHANGED s3vars

\* HeadBucket; any error is "not found".
getVolume(h) ==
    /\ \/ Faulty /\ Fail(h)
       \/ ~Exists(req[h].id) /\ Same /\ Fail(h)
       \/ Exists(req[h].id) /\ Same /\ Return(h, "ok", toTypeVolume(h))
    /\ UNCHANGED s3vars

VolumeInspect(h) == At(h, "inspect") /\ getVolume(h)

\* Nothing is attached or detached.
VolumeAttach(h) == At(h, "attach") /\ getVolume(h)

VolumeDetach(h) == At(h, "detach") /\ getVolume(h)

\* A request to encrypt is refused.  For the region us-east-1 a bucket one owns
\* is created again without an error, elsewhere it is refused.
VolumeCreate(h) ==
    LET v == req[h].id IN
    /\ At(h, "create")
    /\ \/ ~req[h].good /\ Same /\ Fail(h)
       \/ req[h].good /\ Faulty /\ Fail(h)
       \/ req[h].good /\ Exists(v) /\ Same /\ (Fail(h) \/ Return(h, "ok", {}))
       \/ /\ req[h].good /\ ~Exists(v)
          /\ SetVol(v, NewVol("available", NoName, FALSE, FALSE)) /\ Return(h, "ok", {})
    /\ UNCHANGED s3vars

\* The region of the session that the operations of a removal use: the location of
\* the bucket, or, where it has none, the region the driver is configured with.
getService(v) == IF vol[v].zone = USEast THEN Home ELSE vol[v].zone

\* S3 may refuse to serve a bucket in a region that is not its own.
Misdirected(v) == getService(v) # vol[v].zone

\* Mutant: force is not asked for.
getServiceForBucketForced(h) ==
    LET v == req[h].id IN
    /\ At(h, "remove")
    /\ \/ Faulty /\ Fail(h)
       \/ ~Exists(v) /\ Same /\ Fail(h)
       \/ Exists(v) /\ Same /\ Goto(h, "ListObjects")
    /\ UNCHANGED s3vars

\* Mutant: force is not passed on.
getServiceForBucketUnforced(h) ==
    LET v == req[h].id IN
    /\ At(h, "remove")
    /\ \/ Faulty /\ Fail(h)
       \/ ~Exists(v) /\ Same /\ Fail(h)
       \/ Exists(v) /\ Same /\ Goto(h, "DeleteBucket")
    /\ UNCHANGED s3vars

\* The location of the bucket is looked up, any error of that is "not found", and a
\* session for it is made unless there is one.
getServiceForBucket(h) ==
    LET v == req[h].id IN
    /\ At(h, "remove")
    /\ \/ Faulty /\ Fail(h)
       \/ ~Exists(v) /\ Same /\ Fail(h)
       \/ Exists(v) /\ Same /\ Goto(h, IF req[h].force THEN "ListObjects" ELSE "DeleteBucket")
    /\ UNCHANGED s3vars

\* One page of a listing, after the last key of the page before.  Of a listing of
\* versions only the versions are looked at; when the first page holds none the
\* loop is not entered.
ListPage(h, l, S, vers, loop, done) ==
    LET p == Page(S, page[h].last) IN
    /\ At(h, l)
    /\ UNCHANGED bucket
    /\ \/ Faulty /\ Fail(h) /\ page' = [page EXCEPT ![h] = NoPage]
       \/ /\ ~Exists(req[h].id) \/ Misdirected(req[h].id)
          /\ Same /\ Fail(h) /\ page' = [page EXCEPT ![h] = NoPage]
       \/ /\ Exists(req[h].id) /\ Same
          /\ IF page[h] = NoPage /\ p.keys \cap vers = {}
             THEN Goto(h, done) /\ UNCHANGED page
             ELSE /\ Goto(h, loop)
                  /\ page' = [page EXCEPT ![h] = [p EXCEPT !.keys = @ \cap vers]]

\* One DeleteObject of the page, or the page is done.
DeletePage(h, l, next, done, Delete(_)) ==
    /\ At(h, l)
    /\ \/ /\ page[h].keys # {} /\ Faulty /\ Fail(h)
          /\ page' = [page EXCEPT ![h] = NoPage] /\ UNCHANGED bucket
       \/ /\ page[h].keys # {} /\ (~Exists(req[h].id) \/ Misdirected(req[h].id))
          /\ Same /\ Fail(h)
          /\ page' = [page EXCEPT ![h] = NoPage] /\ UNCHANGED bucket
       \/ \E k \in page[h].keys :
             /\ \A j \in page[h].keys : k <= j
             /\ Exists(req[h].id) /\ Same /\ Goto(h, l)
             /\ bucket' = [bucket EXCEPT ![req[h].id] = Delete(k)]
             /\ page' = [page EXCEPT ![h].keys = @ \ {k}]
       \/ /\ page[h].keys = {} /\ Same /\ UNCHANGED bucket
          /\ IF page[h].more
             THEN Goto(h, next) /\ UNCHANGED page
             ELSE Goto(h, done) /\ page' = [page EXCEPT ![h] = NoPage]

\* DeleteObject without a version marks the key when versioning is on.
VolumeRemove(h) ==
    LET v == req[h].id
        b == bucket[v]
    IN
    \/ ListPage(h, "ListObjects", Objects(v), Objects(v), "DeleteObjects", "ListVersions")
    \/ DeletePage(h, "DeleteObjects", "ListObjects", "ListVersions",
                  LAMBDA k : IF b.on THEN [b EXCEPT !.marks = @ \cup ({k} \cap b.vers)]
                             ELSE [b EXCEPT !.vers = @ \ {k}])
    \/ ListPage(h, "ListVersions", b.vers \cup b.marks, b.vers, "DeleteVersions",
                "DeleteBucket")
    \/ DeletePage(h, "DeleteVersions", "ListVersions", "DeleteBucket",
                  LAMBDA k : [b EXCEPT !.vers = @ \ {k}])
    \/ /\ At(h, "DeleteBucket")
       /\ UNCHANGED page
       /\ \/ Faulty /\ Fail(h) /\ UNCHANGED bucket
          \/ /\ ~Exists(v) \/ b.vers \cup b.marks # {} \/ Misdirected(v)
             /\ Same /\ Fail(h) /\ UNCHANGED bucket
          \/ /\ Exists(v) /\ b.vers \cup b.marks = {}
             /\ SetVol(v, Absent) /\ Return(h, "ok", {})
             /\ bucket' = [bucket EXCEPT ![v] = Empty]

Step(h) ==
    \/ Volumes(h) \/ VolumeInspect(h) \/ VolumeAttach(h)
    \/ VolumeDetach(h) \/ VolumeCreate(h) \/ getServiceForBucket(h)
    \/ VolumeRemove(h)
=============================================================================
