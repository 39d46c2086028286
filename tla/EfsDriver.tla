----------------------------- MODULE EfsDriver ------------------------------
(***************************************************************************)
(* drivers/storage/efs/storage/efs_storage.go: Amazon file systems, whose  *)
(* attachments are mount targets, one per subnet (here, per host).         *)
(*                                                                         *)
(* The name of a volume is a tag that is written after the file system is  *)
(* made ("tag"); the creation token, which is derived from the name, keeps *)
(* two file systems from having the same one.                              *)
(***************************************************************************)
EXTENDS Cloud

getVolumeAttachments(v) == Attachments(v)

getAllFileSystems == {v \in Vols : Exists(v)}

\* Those with the driver's name tag that are ready.
Volumes(h) ==
    /\ At(h, "list")
    /\ \/ Faulty /\ Fail(h)
       \/ Same /\ Return(h, "ok", {v \in getAllFileSystems :
                                     vol[v].tag /\ vol[v].st = "available"})

\* A file system that is not ready is no volume and no error.
VolumeInspect(h) ==
    LET v == req[h].id IN
    /\ At(h, "inspect")
    /\ \/ Faulty /\ Fail(h)
       \/ ~Exists(v) /\ Same /\ Fail(h)
       \/ Exists(v) /\ vol[v].st # "available" /\ Same /\ Return(h, "nil", {})
       \/ /\ Exists(v) /\ vol[v].st = "available"
          /\ Same /\ Return(h, "ok", getVolumeAttachments(v))

\* CreateFileSystem, CreateTags and, when the tags cannot be written,
\* DeleteFileSystem, whose failure is only logged.
VolumeCreate(h) ==
    LET v == req[h].id
        n == req[h].name
    IN
    \/ /\ At(h, "create")
       /\ \/ Faulty /\ Fail(h)
          \/ Named(n) # {} /\ Same /\ Fail(h)
          \/ /\ Named(n) = {}
             /\ \E w \in Fresh :
                   Make(h, w, NewVol("creating", n, FALSE, FALSE), "CreateTags")
    \/ /\ At(h, "CreateTags")
       /\ \/ Faulty /\ Goto(h, "deleteUntagged")
          \/ ~Exists(v) /\ Same /\ Goto(h, "deleteUntagged")
          \/ /\ Exists(v)
             /\ SetVol(v, [vol[v] EXCEPT !.tag = TRUE])
             /\ Goto(h, "getFileSystemLifeCycleState")
    \/ /\ At(h, "deleteUntagged")
       /\ \/ Faulty /\ Fail(h)
          \/ (~Exists(v) \/ Attachments(v) # {}) /\ Same /\ Fail(h)
          \/ Exists(v) /\ Attachments(v) = {} /\ SetVol(v, Deleting(v)) /\ Fail(h)

\* Polled until the answer is not "creating".  Errors are logged and the poll
\* goes on, also when the file system is not there any more.
getFileSystemLifeCycleState(h) ==
    LET v == req[h].id IN
    /\ At(h, "getFileSystemLifeCycleState")
    /\ \/ Faulty /\ UNCHANGED req /\ Silent
       \/ vol[v].st \in {"available", "deleting"} /\ Same /\ Goto(h, "inspect")

\* The mount targets are read once and deleted one by one; the file system is
\* deleted when none is left, whoever made them.
VolumeRemove(h) ==
    LET v == req[h].id IN
    \/ /\ At(h, "remove")
       /\ \/ Faulty /\ Fail(h)
          \/ ~Exists(v) /\ Same /\ Fail(h)
          \/ Exists(v) /\ Same /\ Keep(h, "DeleteMountTarget", Attachments(v))
    \/ /\ At(h, "DeleteMountTarget")
       /\ \/ req[h].seen # {} /\ Faulty /\ Fail(h)
          \/ \E k \in req[h].seen :
                \/ vol[v].att[k] = "no" /\ Same /\ Fail(h)
                \/ /\ vol[v].att[k] # "no"
                   /\ SetAtt(v, k, "detaching")
                   /\ Keep(h, "DeleteMountTarget", req[h].seen \ {k})
          \/ req[h].seen = {} /\ Same /\ Goto(h, "waitMountTargets")
    \/ /\ At(h, "DeleteFileSystem")
       /\ \/ Faulty /\ Fail(h)
          \/ (~Exists(v) \/ Attachments(v) # {}) /\ Same /\ Fail(h)
          \/ /\ Exists(v) /\ Attachments(v) = {}
             /\ SetVol(v, Deleting(v)) /\ Goto(h, "waitDeleted")
    \/ /\ At(h, "waitDeleted")
       /\ \/ Faulty /\ Fail(h)
          \/ ~Exists(v) /\ Same /\ Return(h, "ok", {})

\* Mutant: the poll ends once it has seen a mount target go.
waitMountTargetsGone(h) ==
    LET v == req[h].id IN
    /\ At(h, "waitMountTargets")
    /\ \/ Faulty /\ Fail(h)
       \/ ~Exists(v) /\ Same /\ Fail(h)
       \/ /\ Exists(v) /\ Attachments(v) = {} /\ req[h].had # {}
          /\ Same /\ Goto(h, "DeleteFileSystem")

\* Polled until there are no mount targets.
waitMountTargets(h) ==
    LET v == req[h].id IN
    /\ At(h, "waitMountTargets")
    /\ \/ Faulty /\ Fail(h)
       \/ ~Exists(v) /\ Same /\ Fail(h)
       \/ Exists(v) /\ Attachments(v) = {} /\ Same /\ Goto(h, "DeleteFileSystem")

\* The volume that is returned is the one that was read before the mount target
\* was made; nothing waits for the mount target.
VolumeAttach(h) ==
    LET v == req[h].id IN
    \/ /\ At(h, "attach")
       /\ \/ Faulty /\ Fail(h)
          \/ ~Exists(v) /\ Same /\ Fail(h)
          \/ Exists(v) /\ vol[v].st # "available" /\ Same /\ Panic(h)
          \/ /\ vol[v].st = "available"
             /\ \/ h \in Attachments(v) /\ Same /\ Return(h, "ok", Attachments(v))
                \/ h \notin Attachments(v) /\ ~req[h].good /\ Same /\ Fail(h)
                \/ /\ h \notin Attachments(v) /\ req[h].good
                   /\ Same /\ Keep(h, "CreateMountTarget", Attachments(v))
    \/ /\ At(h, "CreateMountTarget")
       /\ \/ Faulty /\ Fail(h)
          \/ vol[v].st # "available" /\ Same /\ Fail(h)
          \/ /\ vol[v].st = "available"
             /\ SetAtt(v, h, "attaching") /\ Return(h, "ok", req[h].seen)

VolumeDetach(h) == At(h, "detach") /\ Same /\ Return(h, "nil", {})

Step(h) ==
    \/ Volumes(h) \/ VolumeInspect(h) \/ VolumeCreate(h)
    \/ getFileSystemLifeCycleState(h) \/ VolumeRemove(h)
    \/ waitMountTargets(h) \/ VolumeAttach(h) \/ VolumeDetach(h)
=============================================================================
