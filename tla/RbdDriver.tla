----------------------------- MODULE RbdDriver ------------------------------
(***************************************************************************)
(* drivers/storage/rbd/storage/rbd_storage.go and rbd/utils/utils.go: Ceph *)
(* images mapped by the rbd command on the server's own host.              *)
(*                                                                         *)
(* Ceph keeps nobody from mapping an image another host has mapped, or     *)
(* from mapping it a second time on the same host ("twice").  The only     *)
(* protection is that the driver looks for watchers before it maps.        *)
(***************************************************************************)
EXTENDS Cloud

\* rbd info: an image that is not there is an answer, not an error.
GetRBDInfo(v) == Exists(v)

\* rbd showmapped, on the host of the server.
GetMappedRBDs(h) == {v \in Vols : vol[v].att[h] # "no"}

\* rbd ls -l, of the one pool considered.
GetRBDImages == {v \in Vols : Exists(v)}

\* rbd status: the watchers of the image.
GetRBDStatus(v) == Attachments(v)

RBDHasWatchers(v) == GetRBDStatus(v) # {}

\* The name of the image is valid.
parseVolumeID(h) == req[h].good

\* Of the attachments only the caller's own is known.
toTypeVolumes(h, v) == {h} \cap Attachments(v)

Volumes(h) ==
    /\ At(h, "list")
    /\ \/ Faulty /\ Fail(h)
       \/ Same /\ Return(h, "ok", GetRBDImages)

\* No image is no volume and no error.
VolumeInspect(h) ==
    LET v == req[h].id IN
    /\ At(h, "inspect")
    /\ \/ Faulty /\ Fail(h)
       \/ ~GetRBDInfo(v) /\ Same /\ Return(h, "nil", {})
       \/ GetRBDInfo(v) /\ Same /\ Return(h, "ok", toTypeVolumes(h, v))

\* The size is used, for the log, before anything is looked at.
VolumeCreate(h) ==
    LET v == req[h].id IN
    /\ At(h, "create")
    /\ \/ req[h].given = "nothing" /\ Same /\ Panic(h)
       \/ /\ req[h].given = "all"
          /\ \/ ~parseVolumeID(h) /\ Same /\ Fail(h)
             \/ parseVolumeID(h) /\ Faulty /\ Fail(h)
             \/ parseVolumeID(h) /\ GetRBDInfo(v) /\ Same /\ Fail(h)
             \/ parseVolumeID(h) /\ ~GetRBDInfo(v) /\ Same /\ Goto(h, "RBDCreate")

RBDCreate(h) ==
    LET v == req[h].id IN
    /\ At(h, "RBDCreate")
    /\ \/ Faulty /\ Fail(h)
       \/ Exists(v) /\ Same /\ Fail(h)
       \/ /\ ~Exists(v)
          /\ SetVol(v, NewVol("available", NoName, FALSE, FALSE)) /\ Goto(h, "inspect")

VolumeRemove(h) ==
    At(h, "remove") /\ Same /\ Goto(h, "RBDRemove")

\* An image with watchers is refused by rbd rm.
RBDRemove(h) ==
    LET v == req[h].id IN
    /\ At(h, "RBDRemove")
    /\ \/ Faulty /\ Fail(h)
       \/ (~Exists(v) \/ RBDHasWatchers(v)) /\ Same /\ Fail(h)
       \/ Exists(v) /\ ~RBDHasWatchers(v) /\ SetVol(v, Absent) /\ Return(h, "ok", {})

\* Mutant: only the mappings of the own host are looked at.
VolumeAttachUnwatched(h) ==
    LET v == req[h].id IN
    /\ At(h, "attach")
    /\ \/ Faulty /\ (Fail(h) \/ (req[h].force /\ Goto(h, "RBDMap")))
       \/ ~GetRBDInfo(v) /\ Same /\ Panic(h)
       \/ v \in GetMappedRBDs(h) /\ ~req[h].force /\ Same /\ Fail(h)
       \/ /\ GetRBDInfo(v) /\ (req[h].force \/ v \notin GetMappedRBDs(h))
          /\ Same /\ Goto(h, "RBDMap")

\* Not available is: mapped here, watched, or not known (rbd status failed).
\* Force goes on regardless and takes the image from nobody.
VolumeAttach(h) ==
    LET v == req[h].id IN
    /\ At(h, "attach")
    /\ \/ Faulty /\ (Fail(h) \/ (req[h].force /\ Goto(h, "RBDMap")))
       \/ ~GetRBDInfo(v) /\ Same /\ Panic(h)
       \/ RBDHasWatchers(v) /\ ~req[h].force /\ Same /\ Fail(h)
       \/ /\ GetRBDInfo(v) /\ (req[h].force \/ ~RBDHasWatchers(v))
          /\ Same /\ Goto(h, "RBDMap")

RBDMap(h) ==
    LET v == req[h].id IN
    /\ At(h, "RBDMap")
    /\ \/ Faulty /\ Fail(h)
       \/ ~Exists(v) /\ Same /\ Fail(h)
       \/ /\ Exists(v)
          /\ SetVol(v, [vol[v] EXCEPT
                          !.att[h] = IF @ = "no" THEN "attached" ELSE "twice",
                          !.raced = req[h].force \/ req[h].lap
                                    \/ (@ /\ RBDHasWatchers(v))])
          /\ Goto(h, "inspect")

\* Only what is mapped on the server's own host can be unmapped.
VolumeDetach(h) ==
    LET v == req[h].id IN
    /\ At(h, "detach")
    /\ \/ Faulty /\ Fail(h)
       \/ v \notin GetMappedRBDs(h) /\ Same /\ Fail(h)
       \/ v \in GetMappedRBDs(h) /\ Same /\ Goto(h, "RBDUnmap")

\* One device of the image.
RBDUnmap(h) ==
    LET v == req[h].id IN
    /\ At(h, "RBDUnmap")
    /\ \/ Faulty /\ Fail(h)
       \/ /\ SetAtt(v, h, IF vol[v].att[h] = "twice" THEN "attached" ELSE "no")
          /\ Goto(h, "inspect")

Step(h) ==
    \/ Volumes(h) \/ VolumeInspect(h) \/ VolumeCreate(h)
    \/ RBDCreate(h) \/ VolumeRemove(h) \/ RBDRemove(h)
    \/ VolumeAttach(h) \/ RBDMap(h) \/ VolumeDetach(h) \/ RBDUnmap(h)
=============================================================================
