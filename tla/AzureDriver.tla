---------------------------- MODULE AzureDriver -----------------------------
(***************************************************************************)
(* drivers/storage/azureud/storage/azure_storage.go: page blobs as data    *)
(* disks of virtual machines.                                              *)
(*                                                                         *)
(* The ID of a volume is the name of its blob.  A blob is a disk once its  *)
(* VHD footer is written ("tag").  Attaching and detaching read the list   *)
(* of data disks of a machine, change the copy and write the whole list    *)
(* back; nothing ties the write to the read.                               *)
(***************************************************************************)
EXTENDS Cloud

\* The machine's profile: its list of data disks.
getVM(k) == {w \in Vols : vol[w].att[k] = "attached"}

Owned(w, k) == Attachments(w) \ {k} # {}

\* CreateOrUpdate of machine k.  A disk another machine has cannot be leased.
WriteDisks(k, disks) ==
    /\ vol' = [w \in Vols |->
                 [vol[w] EXCEPT !.att[k] = IF w \in disks THEN "attached" ELSE "no"]]
    /\ UNCHANGED faults

LeaseFails(k, disks) == \E w \in disks : Owned(w, k)

Unusable(disks) == \E w \in disks : ~Exists(w) \/ ~vol[w].tag

\* The machine named in the blob's metadata.
toTypesVolume(v) == Attachments(v)

Volumes(h) ==
    /\ At(h, "list")
    /\ \/ Faulty /\ Fail(h)
       \/ Same /\ Return(h, "ok", {v \in Vols : Exists(v)})

\* The blobs whose names begin with the ID are listed; none, or more than one, is
\* an error.  The conversion leaves out a blob that is no disk, and the first of
\* what is left is indexed.
getVolume(h) == req[h].given = "all" /\ Exists(req[h].id)

getVolumeRefuses(h) ==
    req[h].given = "prefix" \/ (req[h].given = "all" /\ ~Exists(req[h].id))

getVolumePanics(h) == req[h].given = "other"

\* The last step of create, attach and detach too.  An ID that a single other name
\* begins with finds the volume of that name.
VolumeInspect(h) ==
    /\ At(h, "inspect")
    /\ \/ Faulty /\ Fail(h)
       \/ getVolumeRefuses(h) /\ Same /\ Fail(h)
       \/ getVolumePanics(h) /\ Same /\ Panic(h)
       \/ getVolume(h) /\ Same /\ Return(h, "ok", toTypesVolume(req[h].id))
       \/ /\ req[h].given = "prefix" /\ req[h].op = "inspect"
          /\ \E w \in Vols : Exists(w) /\ Same /\ Return(h, "ok", toTypesVolume(w))

\* Encryption is refused.  No step asks whether the blob exists: PutPageBlob
\* starts it afresh unless a machine holds its lease.
VolumeCreate(h) ==
    LET v == req[h].id IN
    /\ At(h, "create")
    /\ \/ ~req[h].good /\ Same /\ Fail(h)
       \/ req[h].good /\ Faulty /\ Fail(h)
       \/ Attachments(v) # {} /\ Same /\ Fail(h)
       \/ /\ req[h].good /\ Attachments(v) = {}
          /\ SetVol(v, NewVol("available", NoName, FALSE, FALSE))
          /\ Goto(h, "createDiskBlob")

\* When the footer cannot be written the blob is deleted, whoever made it;
\* errors of the deletion are ignored.
createDiskBlob(h) ==
    LET v == req[h].id IN
    \/ /\ At(h, "createDiskBlob")
       /\ \/ Faulty /\ Goto(h, "deleteDiskBlob")
          \/ (~Exists(v) \/ Attachments(v) # {}) /\ Same /\ Goto(h, "deleteDiskBlob")
          \/ /\ Exists(v) /\ Attachments(v) = {}
             /\ SetVol(v, [vol[v] EXCEPT !.tag = TRUE]) /\ Goto(h, "inspect")
    \/ /\ At(h, "deleteDiskBlob")
       /\ \/ Faulty /\ Fail(h)
          \/ Attachments(v) # {} /\ Same /\ Fail(h)
          \/ Attachments(v) = {} /\ SetVol(v, Absent) /\ Fail(h)

\* A blob that is not there is removed successfully.
VolumeRemove(h) ==
    LET v == req[h].id IN
    /\ At(h, "remove")
    /\ \/ Faulty /\ Fail(h)
       \/ Attachments(v) # {} /\ Same /\ Fail(h)
       \/ Attachments(v) = {} /\ SetVol(v, Absent) /\ Return(h, "ok", {})

\* The next device is looked at first.
VolumeAttach(h) ==
    LET v == req[h].id IN
    /\ At(h, "attach")
    /\ \/ ~req[h].good /\ Same /\ Fail(h)
       \/ req[h].good /\ Faulty /\ Fail(h)
       \/ getVolumeRefuses(h) /\ Same /\ Fail(h)
       \/ req[h].good /\ getVolumePanics(h) /\ Same /\ Panic(h)
       \/ getVolume(h) /\ toTypesVolume(v) # {} /\ ~req[h].force /\ Same /\ Fail(h)
       \/ /\ req[h].good /\ getVolume(h) /\ toTypesVolume(v) # {} /\ req[h].force
          /\ Same /\ Keep(h, "getVM", toTypesVolume(v))
       \/ /\ req[h].good /\ getVolume(h) /\ toTypesVolume(v) = {}
          /\ Same /\ Goto(h, "getOwnVM")

\* The caller's machine, whether or not it is the one that has the volume.
VolumeDetach(h) ==
    LET v == req[h].id IN
    /\ At(h, "detach")
    /\ \/ Faulty /\ Fail(h)
       \/ getVolumeRefuses(h) /\ Same /\ Fail(h)
       \/ getVolumePanics(h) /\ Same /\ Panic(h)
       \/ getVolume(h) /\ toTypesVolume(v) = {} /\ Same /\ Fail(h)
       \/ getVolume(h) /\ toTypesVolume(v) # {} /\ Same /\ Keep(h, "getVM", {h})

\* The read of the list, and the write of the changed copy.  A detachment after a
\* refused lease ends in the error of the attachment.
detachDisk(h) ==
    LET v == req[h].id
        k == CHOOSE k \in Hosts : k \in req[h].seen
        disks == req[h].seen \cap Vols
    IN
    \/ /\ At(h, "getVM")
       /\ \/ Faulty /\ Fail(h)
          \/ v \notin getVM(k) /\ Same /\ Fail(h)
          \/ /\ v \in getVM(k)
             /\ Same /\ Keep(h, "detachDisk", {k} \cup (getVM(k) \ {v}))
    \/ /\ At(h, "detachDisk")
       /\ \/ Faulty /\ Fail(h)
          \/ IF LeaseFails(k, disks) \/ Unusable(disks) THEN Same /\ Fail(h)
             ELSE /\ WriteDisks(k, disks)
                  /\ IF req[h].operr THEN Fail(h)
                     ELSE Goto(h, IF req[h].op = "attach" THEN "getOwnVM" ELSE "inspect")

\* The list of the caller's own machine; all its 64 LUNs may be taken, by disks
\* that are not in the model.  When a lease cannot be had VolumeDetach is called for
\* the caller's machine, and an error is returned either way.
attachDisk(h) ==
    LET v == req[h].id
        disks == req[h].seen \cap Vols
    IN
    \/ /\ At(h, "getOwnVM")
       /\ \/ Faulty /\ Fail(h)
          \/ Same /\ Fail(h)
          \/ Same /\ Keep(h, "attachDisk", {h, v} \cup getVM(h))
    \/ /\ At(h, "attachDisk")
       /\ \/ Faulty /\ Fail(h)
          \/ Unusable(disks) /\ Same /\ Fail(h)
          \/ /\ LeaseFails(h, disks) /\ ~Unusable(disks)
             /\ req' = [req EXCEPT ![h].pc = "detach", ![h].operr = TRUE]
             /\ Same /\ Silent
          \/ /\ ~LeaseFails(h, disks) /\ ~Unusable(disks)
             /\ WriteDisks(h, disks) /\ Goto(h, "inspect")

Step(h) ==
    \/ Volumes(h) \/ VolumeInspect(h) \/ VolumeCreate(h)
    \/ createDiskBlob(h) \/ VolumeRemove(h) \/ VolumeAttach(h)
    \/ VolumeDetach(h) \/ detachDisk(h) \/ attachDisk(h)
=============================================================================
