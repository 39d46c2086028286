----------------------------- MODULE EbsDriver ------------------------------
(***************************************************************************)
(* drivers/storage/ebs/storage/ebs_storage.go: the Amazon EBS driver.      *)
(*                                                                         *)
(* One action per EC2 call.  A step name is the function that makes the    *)
(* call; the waits have one name per thing waited for.  The name of a new  *)
(* volume is a tag set by a second call, after the volume exists.          *)
(***************************************************************************)
EXTENDS Cloud

\* DescribeVolumes filtered by zone and name: the name asked for is the client's,
\* while the stored one carries the prefix when a tag is configured.
getVolume(h, n) == {v \in Named(n) : InZone(h, v) /\ ~vol[v].tag}

\* The attachments the driver reports: every one EC2 lists, whatever its state.
toTypesVolume(v) == Attachments(v)

\* Volumes reports no volume at all as an error.
Volumes(h) ==
    LET all == {v \in Vols : InZone(h, v)} IN
    /\ At(h, "list")
    /\ \/ Faulty /\ Fail(h)
       \/ all = {} /\ Same /\ Fail(h)
       \/ all # {} /\ Same /\ Return(h, "ok", all)

\* Also the last step of create, attach and detach.
VolumeInspect(h) ==
    /\ At(h, "inspect")
    /\ \/ Faulty /\ Fail(h)
       \/ ~InZone(h, req[h].id) /\ Same /\ Fail(h)
       \/ InZone(h, req[h].id) /\ Same /\ Return(h, "ok", toTypesVolume(req[h].id))

\* Mutant: the name is not looked up.
VolumeCreateUnchecked(h) ==
    /\ At(h, "create")
    /\ \/ Faulty /\ Fail(h)
       \/ Same /\ Goto(h, "createVolume")

VolumeCreate(h) ==
    /\ At(h, "create")
    /\ \/ Faulty /\ Fail(h)
       \/ getVolume(h, req[h].name) # {} /\ Same /\ Fail(h)
       \/ getVolume(h, req[h].name) = {} /\ Same /\ Goto(h, "createVolume")

\* The zone the request names, or that of the instance if it names the empty one;
\* a request without a zone is not expected.
createVolumeEnsureAvailabilityZone(h) ==
    IF req[h].given = "elsewhere" THEN Zones \ {zone[h]} ELSE {zone[h]}

\* CreateVolume; with no identity left the provider's quota is exhausted.
createVolume(h) ==
    /\ At(h, "createVolume")
    /\ \/ Faulty /\ Fail(h)
       \/ req[h].given = "nothing" /\ Same /\ Panic(h)
       \/ req[h].given # "nothing" /\ Fresh = {} /\ Same /\ Fail(h)
       \/ /\ req[h].given # "nothing"
          /\ \E v \in Fresh, z \in createVolumeEnsureAvailabilityZone(h) :
                Make(h, v, NewVolIn(z, "creating", NoName, FALSE,
                                    req[h].lap \/ z # zone[h]), "createTags")

\* A failure here leaves the volume behind, without a name.
createTags(h) ==
    LET v == req[h].id IN
    /\ At(h, "createTags")
    /\ \/ Faulty /\ Fail(h)
       \/ ~Exists(v) /\ Same /\ Fail(h)
       \/ /\ Exists(v)
          /\ SetVol(v, [vol[v] EXCEPT !.name = req[h].name, !.tag = Tag])
          /\ Goto(h, "waitVolumeCreate")

\* Mutant: an attachment under way is taken for complete.
waitVolumeCompleteEarly(h) ==
    LET v == req[h].id IN
    /\ \E l \in {"waitVolumeCreate", "waitVolumeAttach", "waitVolumeDetach"} : At(h, l)
    /\ \/ Faulty /\ Fail(h)
       \/ ~Exists(v) /\ Same /\ Fail(h)
       \/ Exists(v) /\ ~InZone(h, v) /\ Same /\ Panic(h)
       \/ /\ At(h, "waitVolumeCreate")
          /\ InZone(h, v) /\ vol[v].st = "available"
          /\ Same /\ Goto(h, "inspect")
       \/ /\ At(h, "waitVolumeAttach")
          /\ \E k \in Hosts : Attachments(v) = {k} /\ vol[v].att[k] # "no"
          /\ Same /\ Goto(h, "inspect")
       \/ /\ At(h, "waitVolumeDetach")
          /\ Exists(v) /\ Attachments(v) = {}
          /\ Same /\ Goto(h, IF req[h].op = "attach" THEN "nextDevice" ELSE "inspect")

\* The loop has no bound and asks about the volume, not about the operation:
\* attachment is complete when exactly one host, whichever, is attached.  The first
\* volume found is indexed, and none is found in another zone.
waitVolumeComplete(h) ==
    LET v == req[h].id IN
    /\ \E l \in {"waitVolumeCreate", "waitVolumeAttach", "waitVolumeDetach"} : At(h, l)
    /\ \/ Faulty /\ Fail(h)
       \/ ~Exists(v) /\ Same /\ Fail(h)
       \/ Exists(v) /\ ~InZone(h, v) /\ Same /\ Panic(h)
       \/ /\ At(h, "waitVolumeCreate")
          /\ InZone(h, v) /\ vol[v].st = "available"
          /\ Same /\ Goto(h, "inspect")
       \/ /\ At(h, "waitVolumeAttach")
          /\ \E k \in Hosts : Attachments(v) = {k} /\ vol[v].att[k] = "attached"
          /\ Same /\ Goto(h, "inspect")
       \/ /\ At(h, "waitVolumeDetach")
          /\ Exists(v) /\ Attachments(v) = {}
          /\ Same /\ Goto(h, IF req[h].op = "attach" THEN "nextDevice" ELSE "inspect")

\* DeleteVolume; EC2 refuses a volume that is attached or not yet created.
VolumeRemove(h) ==
    LET v == req[h].id IN
    /\ At(h, "remove")
    /\ \/ Faulty /\ Fail(h)
       \/ /\ vol[v].st # "available" \/ Attachments(v) # {}
          /\ Same /\ Fail(h)
       \/ /\ vol[v].st = "available" /\ Attachments(v) = {}
          /\ SetVol(v, Absent) /\ Return(h, "ok", {})

\* The device name is looked at only after a forced detachment.
VolumeAttach(h) ==
    LET v == req[h].id IN
    \/ /\ At(h, "attach")
       /\ \/ Faulty /\ Fail(h)
          \/ ~InZone(h, v) /\ Same /\ Fail(h)
          \/ toTypesVolume(v) # {} /\ ~req[h].force /\ Same /\ Fail(h)
          \/ InZone(h, v) /\ toTypesVolume(v) # {} /\ req[h].force /\ Same /\ Goto(h, "detach")
          \/ InZone(h, v) /\ toTypesVolume(v) = {} /\ Same /\ Goto(h, "nextDevice")
    \/ /\ At(h, "nextDevice")
       /\ \/ ~req[h].good /\ Same /\ Fail(h)
          \/ req[h].good /\ Same /\ Goto(h, "attachVolume")

\* AttachVolume; EC2 refuses a volume that is in use.
attachVolume(h) ==
    LET v == req[h].id IN
    /\ At(h, "attachVolume")
    /\ \/ Faulty /\ Fail(h)
       \/ /\ vol[v].st # "available" \/ Attachments(v) # {}
          /\ Same /\ Fail(h)
       \/ /\ vol[v].st = "available" /\ Attachments(v) = {}
          /\ SetAtt(v, h, "attaching") /\ Goto(h, "waitVolumeAttach")

\* DetachVolume names no instance: it takes the volume from whoever has it.
VolumeDetach(h) ==
    LET v == req[h].id IN
    \/ /\ At(h, "detach")
       /\ \/ Faulty /\ Fail(h)
          \/ (~InZone(h, v) \/ Attachments(v) = {}) /\ Same /\ Fail(h)
          \/ InZone(h, v) /\ Attachments(v) # {} /\ Same /\ Goto(h, "DetachVolume")
    \/ /\ At(h, "DetachVolume")
       /\ \/ Faulty /\ Fail(h)
          \/ Attachments(v) = {} /\ Same /\ Fail(h)
          \/ /\ Attachments(v) # {}
             /\ SetVol(v, [vol[v] EXCEPT !.att =
                             [k \in Hosts |-> IF @[k] = "no" THEN "no" ELSE "detaching"]])
             /\ Goto(h, "waitVolumeDetach")

Step(h) ==
    \/ Volumes(h) \/ VolumeInspect(h) \/ VolumeCreate(h)
    \/ createVolume(h) \/ createTags(h) \/ waitVolumeComplete(h)
    \/ VolumeRemove(h) \/ VolumeAttach(h) \/ attachVolume(h)
    \/ VolumeDetach(h)
=============================================================================
