----------------------------- MODULE GceDriver ------------------------------
(***************************************************************************)
(* drivers/storage/gcepd/storage/gce_storage.go: Google persistent disks.  *)
(*                                                                         *)
(* The ID of a disk is its name.  Calls that change something start an     *)
(* operation, and the driver polls that operation, not the disk, until it  *)
(* is done.  With a tag configured a disk is labelled by a further call    *)
(* and only labelled disks are listed.                                     *)
(***************************************************************************)
EXTENDS Cloud

\* A disk that is not there is an answer, not an error.
getDisk(v) == Exists(v)

\* With a tag configured the listing is filtered by label.
getDisks == {v \in Vols : Exists(v) /\ (Tag => vol[v].tag)}

\* The users of a disk.
getAttachment(v) == Listed(v)

toTypeVolume(v) == getAttachment(v)

\* The zone the request names, if it names one, is the driver's.
validZone(h) == req[h].good

Volumes(h) ==
    /\ At(h, "list")
    /\ \/ Faulty /\ Fail(h)
       \/ Same /\ Return(h, "ok", getDisks)

VolumeInspect(h) ==
    LET v == req[h].id IN
    /\ At(h, "inspect")
    /\ \/ Faulty /\ Fail(h)
       \/ ~getDisk(v) /\ Same /\ Fail(h)
       \/ getDisk(v) /\ Same /\ Return(h, "ok", toTypeVolume(v))

\* A request for another zone, or with an invalid name or size, is refused.
VolumeCreate(h) ==
    LET v == req[h].id IN
    /\ At(h, "create")
    /\ \/ ~validZone(h) /\ Same /\ Fail(h)
       \/ validZone(h) /\ Faulty /\ Fail(h)
       \/ getDisk(v) /\ Same /\ Fail(h)
       \/ validZone(h) /\ ~getDisk(v) /\ Same /\ Goto(h, "createVolume")

\* Mutant: the labels are read and not written.
createVolumeUnlabelled(h) ==
    LET v == req[h].id IN
    \/ /\ At(h, "createVolume")
       /\ \/ Faulty /\ Fail(h)
          \/ Exists(v) /\ Same /\ Fail(h)
          \/ /\ ~Exists(v)
             /\ SetVol(v, NewVol("creating", NoName, FALSE, req[h].lap))
             /\ Goto(h, "waitInsert")
    \/ /\ At(h, "queryLabels")
       /\ \/ Faulty /\ Goto(h, "inspect")
          \/ ~getDisk(v) /\ Same /\ Panic(h)
          \/ getDisk(v) /\ Same /\ Goto(h, "inspect")
    \/ /\ At(h, "setLabels")
       /\ \/ Faulty /\ Goto(h, "inspect")
          \/ ~Exists(v) /\ Same /\ Goto(h, "inspect")
          \/ /\ Exists(v)
             /\ SetVol(v, [vol[v] EXCEPT !.tag = TRUE])
             /\ Goto(h, "inspect")


\* The label is set after the disk is complete; errors there are only logged,
\* but a disk that has gone by then is dereferenced.
createVolume(h) ==
    LET v == req[h].id IN
    \/ /\ At(h, "createVolume")
       /\ \/ Faulty /\ Fail(h)
          \/ Exists(v) /\ Same /\ Fail(h)
          \/ /\ ~Exists(v)
             /\ SetVol(v, NewVol("creating", NoName, FALSE, req[h].lap))
             /\ Goto(h, "waitInsert")
    \/ /\ At(h, "queryLabels")
       /\ \/ Faulty /\ Goto(h, "inspect")
          \/ ~getDisk(v) /\ Same /\ Panic(h)
          \/ getDisk(v) /\ Same /\ Goto(h, "setLabels")
    \/ /\ At(h, "setLabels")
       /\ \/ Faulty /\ Goto(h, "inspect")
          \/ ~Exists(v) /\ Same /\ Goto(h, "inspect")
          \/ /\ Exists(v)
             /\ SetVol(v, [vol[v] EXCEPT !.tag = TRUE])
             /\ Goto(h, "inspect")

\* The operation of this request is over; an attachment may have failed.
waitUntilOperationIsFinished(h) ==
    LET v == req[h].id IN
    /\ \E l \in {"waitInsert", "waitDelete", "waitAttach", "waitDetach"} : At(h, l)
    /\ \/ Faulty /\ Fail(h)
       \/ /\ At(h, "waitInsert") /\ vol[v].st # "creating"
          /\ Same /\ Goto(h, IF Tag THEN "queryLabels" ELSE "inspect")
       \/ /\ At(h, "waitDelete") /\ vol[v].st # "deleting"
          /\ Same /\ Return(h, "ok", {})
       \/ /\ At(h, "waitAttach") /\ vol[v].att[h] # "attaching" /\ ~req[h].operr
          /\ Same /\ Goto(h, "inspect")
       \/ At(h, "waitAttach") /\ req[h].operr /\ Same /\ Fail(h)
       \/ /\ At(h, "waitDetach")
          /\ \A k \in Hosts : vol[v].att[k] # "detaching"
          /\ Same
          /\ IF req[h].operr THEN Fail(h)
             ELSE Goto(h, IF req[h].op = "attach" THEN "attachVolume" ELSE "inspect")

\* Whether the disk is attached is left to the provider to check.
VolumeRemove(h) ==
    LET v == req[h].id IN
    /\ At(h, "remove")
    /\ \/ Faulty /\ Fail(h)
       \/ (vol[v].st # "available" \/ Attachments(v) # {}) /\ Same /\ Fail(h)
       \/ /\ vol[v].st = "available" /\ Attachments(v) = {}
          /\ SetVol(v, Deleting(v)) /\ Goto(h, "waitDelete")

VolumeAttach(h) ==
    LET v == req[h].id IN
    /\ At(h, "attach")
    /\ \/ Faulty /\ Fail(h)
       \/ ~getDisk(v) /\ Same /\ Fail(h)
       \/ getAttachment(v) # {} /\ ~req[h].force /\ Same /\ Fail(h)
       \/ /\ getAttachment(v) # {} /\ req[h].force
          /\ Same /\ Keep(h, "getAttachedDeviceName", getAttachment(v))
       \/ getDisk(v) /\ getAttachment(v) = {} /\ Same /\ Goto(h, "attachVolume")

attachVolume(h) ==
    LET v == req[h].id IN
    /\ At(h, "attachVolume")
    /\ \/ Faulty /\ Fail(h)
       \/ (vol[v].st # "available" \/ Attachments(v) # {}) /\ Same /\ Fail(h)
       \/ /\ vol[v].st = "available" /\ Attachments(v) = {}
          /\ SetAtt(v, h, "attaching") /\ Goto(h, "waitAttach")

\* Whoever has the disk loses it, forced or not.
VolumeDetach(h) ==
    LET v == req[h].id IN
    /\ At(h, "detach")
    /\ \/ Faulty /\ Fail(h)
       \/ getAttachment(v) = {} /\ Same /\ Fail(h)
       \/ /\ getAttachment(v) # {}
          /\ Same /\ Keep(h, "getAttachedDeviceName", getAttachment(v))

\* The instance no longer has the disk its users list named.
getAttachedDeviceName(h) ==
    /\ At(h, "getAttachedDeviceName")
    /\ \/ Faulty /\ Fail(h)
       \/ \E k \in req[h].seen :
             \/ k \notin Listed(req[h].id) /\ Same /\ Fail(h)
             \/ k \in Listed(req[h].id) /\ Same /\ Goto(h, "detachVolume")

AfterDetach(h, k, e) ==
    /\ req' = [req EXCEPT ![h].seen = @ \ {k}, ![h].operr = @ \/ e,
                 ![h].pc = IF req[h].seen = {k} THEN "waitDetach"
                           ELSE "getAttachedDeviceName"]
    /\ Silent

\* A refused detachment is remembered and reported after the others finish.
detachVolume(h) ==
    LET v == req[h].id IN
    /\ At(h, "detachVolume")
    /\ \E k \in req[h].seen :
          \/ Faulty /\ AfterDetach(h, k, TRUE)
          \/ vol[v].att[k] # "attached" /\ Same /\ AfterDetach(h, k, TRUE)
          \/ /\ vol[v].att[k] = "attached"
             /\ SetAtt(v, k, "detaching") /\ AfterDetach(h, k, FALSE)

Step(h) ==
    \/ Volumes(h) \/ VolumeInspect(h) \/ VolumeCreate(h)
    \/ createVolume(h) \/ waitUntilOperationIsFinished(h)
    \/ VolumeRemove(h) \/ VolumeAttach(h) \/ attachVolume(h)
    \/ VolumeDetach(h) \/ getAttachedDeviceName(h)
    \/ detachVolume(h)
=============================================================================
