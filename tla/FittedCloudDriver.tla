------------------------- MODULE FittedCloudDriver --------------------------
(***************************************************************************)
(* drivers/storage/fittedcloud/storage/fittedcloud_storage.go: a           *)
(* FittedCloud volume is a set of EC2 disks that carry its name and the    *)
(* FittedCloudCreated tag; the local agent (fcagent) makes the disks and   *)
(* takes the volume apart, the driver attaches, detaches and deletes the   *)
(* disks one by one.                                                       *)
(***************************************************************************)
EXTENDS Cloud

\* DescribeVolumes is filtered by zone and by the FittedCloudCreated tag; asking
\* for an ID EC2 does not have is an error.
fittedcloudCreated(h, v) == InZone(h, v) /\ vol[v].tag

getVolume(h, n) == {v \in Named(n) : fittedcloudCreated(h, v)}

toTypesVolume(v) == Attachments(v)

\* What the driver polls a disk for, once a second and for ever.
waitVolumeComplete(w, action) ==
    /\ Exists(w)
    /\ \/ action = "detach" /\ Attachments(w) = {}
       \/ /\ action = "attach"
          /\ \E k \in Hosts : Attachments(w) = {k} /\ vol[w].att[k] = "attached"

\* The name tag is read with the volume and used to find all its disks.
Disks(h, l) ==
    /\ req' = [req EXCEPT ![h].pc = l, ![h].name = vol[req[h].id].name]
    /\ Silent

\* EC2 lists disks in an arbitrary order; the loops over them take one at a time.
Take(h, l, w) ==
    /\ req' = [req EXCEPT ![h].pc = l, ![h].disk = w, ![h].seen = @ \ {w}]
    /\ Silent

Volumes(h) ==
    LET all == {v \in Vols : fittedcloudCreated(h, v)} IN
    /\ At(h, "list")
    /\ \/ Faulty /\ Fail(h)
       \/ all = {} /\ Same /\ Fail(h)
       \/ all # {} /\ Same /\ Return(h, "ok", all)

VolumeInspect(h) ==
    LET v == req[h].id IN
    /\ At(h, "inspect")
    /\ \/ Faulty /\ Fail(h)
       \/ ~fittedcloudCreated(h, v) /\ Same /\ Fail(h)
       \/ fittedcloudCreated(h, v) /\ Same /\ Return(h, "ok", toTypesVolume(v))

VolumeCreate(h) ==
    /\ At(h, "create")
    /\ \/ Faulty /\ Fail(h)
       \/ getVolume(h, req[h].name) # {} /\ Same /\ Fail(h)
       \/ getVolume(h, req[h].name) = {} /\ Same /\ Goto(h, "CreateVol")

\* The agent makes one or more disks; the size is not checked to be there.
CreateVol(h) ==
    /\ At(h, "CreateVol")
    /\ \/ req[h].given = "nothing" /\ Same /\ Panic(h)
       \/ req[h].given = "all" /\ Faulty /\ Fail(h)
       \/ req[h].given = "all" /\ Fresh = {} /\ Same /\ Fail(h)
       \/ \E S \in SUBSET Fresh :
             /\ req[h].given = "all" /\ S # {}
             /\ vol' = [v \in Vols |->
                          IF v \in S
                          THEN NewVolIn(zone[h], "available", req[h].name, TRUE, req[h].lap)
                          ELSE vol[v]]
             /\ UNCHANGED faults
             /\ Goto(h, "createVolume")

\* The disks are looked up by name and the first is the volume.
createVolume(h) ==
    LET made == getVolume(h, req[h].name) IN
    /\ At(h, "createVolume")
    /\ \/ Faulty /\ Fail(h)
       \/ made = {} /\ Same /\ Panic(h)
       \/ \E v \in made :
             /\ req' = [req EXCEPT ![h].id = v, ![h].pc = "inspect"]
             /\ Same /\ Silent

\* A volume of another zone or that FittedCloud did not make is filtered out, and
\* indexed.
VolumeRemove(h) ==
    LET v == req[h].id IN
    \/ /\ At(h, "remove")
       /\ \/ Faulty /\ Fail(h)
          \/ ~Exists(v) /\ Same /\ Fail(h)
          \/ Exists(v) /\ ~fittedcloudCreated(h, v) /\ Same /\ Panic(h)
          \/ fittedcloudCreated(h, v) /\ Same /\ Disks(h, "removeDisks")
    \/ /\ At(h, "removeDisks")
       /\ \/ Faulty /\ Fail(h)
          \/ Same /\ Keep(h, "DeleteVolume", getVolume(h, req[h].name))
    \/ At(h, "DeleteVolume") /\ req[h].seen = {} /\ Same /\ Return(h, "ok", {})
    \/ /\ At(h, "DeleteVolume")
       /\ \E w \in req[h].seen :
             \/ Faulty /\ Fail(h)
             \/ (~Exists(w) \/ Attachments(w) # {}) /\ Same /\ Fail(h)
             \/ /\ Exists(w) /\ Attachments(w) = {}
                /\ SetVol(w, Absent) /\ Keep(h, "DeleteVolume", req[h].seen \ {w})

VolumeAttach(h) ==
    LET v == req[h].id IN
    \/ /\ At(h, "attach")
       /\ \/ Faulty /\ Fail(h)
          \/ ~fittedcloudCreated(h, v) /\ Same /\ Fail(h)
          \/ toTypesVolume(v) # {} /\ ~req[h].force /\ Same /\ Fail(h)
          \/ /\ fittedcloudCreated(h, v) /\ toTypesVolume(v) # {} /\ req[h].force
             /\ Same /\ Goto(h, "detach")
          \/ /\ fittedcloudCreated(h, v) /\ toTypesVolume(v) = {}
             /\ Same /\ Disks(h, "attachDisks")
    \/ /\ At(h, "attachDisks")
       /\ \/ ~req[h].good /\ Same /\ Fail(h)
          \/ req[h].good /\ Faulty /\ Fail(h)
          \/ req[h].good /\ Same /\ Keep(h, "attachVolume", getVolume(h, req[h].name))

\* One disk, and the wait for it.  The next device name is looked up on the
\* server after each disk; when there is none left, and so when the request names
\* the empty one, the remaining disks are not attached.
attachVolume(h) ==
    \/ At(h, "attachVolume") /\ req[h].seen = {} /\ Same /\ Goto(h, "inspect")
    \/ /\ At(h, "attachVolume")
       /\ \E w \in req[h].seen :
             \/ Faulty /\ Fail(h)
             \/ Same /\ Fail(h)
             \/ /\ Exists(w) /\ Attachments(w) = {}
                /\ SetAtt(w, h, "attaching") /\ Take(h, "waitVolumeAttach", w)
    \/ /\ At(h, "waitVolumeAttach")
       /\ LET w == req[h].disk IN
          \/ Faulty /\ Fail(h)
          \/ ~Exists(w) /\ Same /\ Fail(h)
          \/ /\ waitVolumeComplete(w, "attach")
             /\ Same /\ Take(h, "attachVolume", NoVol)

\* The first attachment is indexed without a check.  The agent's volume is
\* deleted before any disk is detached.
VolumeDetach(h) ==
    LET v == req[h].id IN
    \/ /\ At(h, "detach")
       /\ \/ Faulty /\ Fail(h)
          \/ ~fittedcloudCreated(h, v) /\ Same /\ Fail(h)
          \/ fittedcloudCreated(h, v) /\ toTypesVolume(v) = {} /\ Same /\ Panic(h)
          \/ toTypesVolume(v) # {} /\ Same /\ Disks(h, "DelVol")
    \/ /\ At(h, "detachDisks")
       /\ \/ Faulty /\ Fail(h)
          \/ Same /\ Keep(h, "DetachVolume", getVolume(h, req[h].name))

\* The agent's volume goes, its disks stay attached for the moment.
DelVol(h) ==
    /\ At(h, "DelVol")
    /\ \/ Faulty /\ Fail(h)
       \/ Same /\ Goto(h, "detachDisks")

Remember(h, l, w, e) ==
    /\ req' = [req EXCEPT ![h].pc = l, ![h].operr = @ \/ e,
                 ![h].disk = w, ![h].seen = @ \ {w}]
    /\ Silent

\* A disk that cannot be detached is remembered, waited for, and passed over.
DetachVolume(h) ==
    \/ /\ At(h, "DetachVolume") /\ req[h].seen = {} /\ Same
       /\ IF req[h].operr THEN Fail(h)
          ELSE Goto(h, IF req[h].op = "attach" THEN "attachDisks" ELSE "inspect")
    \/ /\ At(h, "DetachVolume")
       /\ \E w \in req[h].seen :
             \/ Faulty /\ Remember(h, "waitVolumeDetach", w, TRUE)
             \/ Attachments(w) = {} /\ Same /\ Remember(h, "waitVolumeDetach", w, TRUE)
             \/ /\ Attachments(w) # {}
                /\ SetVol(w, [vol[w] EXCEPT !.att =
                                [k \in Hosts |-> IF @[k] = "no" THEN "no" ELSE "detaching"]])
                /\ Remember(h, "waitVolumeDetach", w, FALSE)
    \/ /\ At(h, "waitVolumeDetach")
       /\ LET w == req[h].disk IN
          \/ Faulty /\ Remember(h, "DetachVolume", NoVol, TRUE)
          \/ ~Exists(w) /\ Same /\ Remember(h, "DetachVolume", NoVol, TRUE)
          \/ /\ waitVolumeComplete(w, "detach")
             /\ Same /\ Remember(h, "DetachVolume", NoVol, FALSE)

Step(h) ==
    \/ Volumes(h) \/ VolumeInspect(h)
    \/ VolumeCreate(h) \/ CreateVol(h)
    \/ createVolume(h) \/ VolumeRemove(h)
    \/ VolumeAttach(h) \/ attachVolume(h)
    \/ VolumeDetach(h) \/ DelVol(h) \/ DetachVolume(h)
=============================================================================
