--------------------------- MODULE ScaleIODriver ----------------------------
(***************************************************************************)
(* drivers/storage/scaleio/storage/scaleio_storage.go: volumes mapped to   *)
(* SDCs.  Every call of the gateway is complete when it returns.           *)
(***************************************************************************)
EXTENDS Cloud

\* A volume that is not there is an error or an empty answer of the gateway.
getVolume(v) == Exists(v)

MappedSdcInfo(v) == Attachments(v)

Volumes(h) ==
    /\ At(h, "list")
    /\ \/ Faulty /\ Fail(h)
       \/ Same /\ Return(h, "ok", {v \in Vols : Exists(v)})

\* An empty answer becomes no volume and no error; attach then uses it.
VolumeInspect(h) ==
    LET v == req[h].id IN
    /\ At(h, "inspect")
    /\ \/ Faulty /\ Fail(h)
       \/ ~getVolume(v) /\ Same /\ Fail(h)
       \/ ~getVolume(v) /\ req[h].op # "attach" /\ Same /\ Return(h, "nil", {})
       \/ ~getVolume(v) /\ req[h].op = "attach" /\ Same /\ Panic(h)
       \/ getVolume(v) /\ Same /\ Return(h, "ok", MappedSdcInfo(v))

\* The gateway refuses a name that is in use.
createVolume(h) ==
    /\ At(h, "createVolume")
    /\ \/ Faulty /\ Fail(h)
       \/ /\ Named(req[h].name) # {} \/ Fresh = {}
          /\ Same /\ Fail(h)
       \/ /\ Named(req[h].name) = {}
          /\ \E v \in Fresh :
                Make(h, v, NewVol("available", req[h].name, FALSE, FALSE), "created")

\* The volume is made, then read; from a snapshot ("force") it is read once more.
VolumeCreate(h) ==
    \/ At(h, "create") /\ ~req[h].force /\ Same /\ Goto(h, "createVolume")
    \/ At(h, "created") /\ ~req[h].force /\ Same /\ Goto(h, "inspect")

\* The snapshot itself is not looked at: what is made is a new volume of that
\* name.  An empty answer to the first reading is dereferenced.
VolumeCreateFromSnapshot(h) ==
    LET v == req[h].id IN
    \/ /\ At(h, "create") /\ req[h].force
       /\ \/ Faulty /\ Fail(h)
          \/ Named(req[h].name) # {} /\ Same /\ Fail(h)
          \/ Named(req[h].name) = {} /\ Same /\ Goto(h, "createVolume")
    \/ /\ At(h, "created") /\ req[h].force
       /\ \/ Faulty /\ Fail(h)
          \/ ~getVolume(v) /\ Same /\ (Fail(h) \/ Panic(h))
          \/ getVolume(v) /\ Same /\ Goto(h, "inspect")

\* An empty answer is indexed.  A mapped volume is refused by the gateway.
VolumeRemove(h) ==
    LET v == req[h].id IN
    \/ /\ At(h, "remove")
       /\ \/ Faulty /\ Fail(h)
          \/ ~getVolume(v) /\ Same /\ Fail(h)
          \/ ~getVolume(v) /\ Same /\ Panic(h)
          \/ getVolume(v) /\ Same /\ Goto(h, "RemoveVolume")
    \/ /\ At(h, "RemoveVolume")
       /\ \/ Faulty /\ Fail(h)
          \/ (~Exists(v) \/ Attachments(v) # {}) /\ Same /\ Fail(h)
          \/ Exists(v) /\ Attachments(v) = {} /\ SetVol(v, Absent) /\ Return(h, "ok", {})

\* Multiple mappings are not allowed.
VolumeAttach(h) ==
    LET v == req[h].id IN
    \/ /\ At(h, "attach")
       /\ \/ Faulty /\ Fail(h)
          \/ ~getVolume(v) /\ Same /\ Fail(h)
          \/ ~getVolume(v) /\ Same /\ Panic(h)
          \/ MappedSdcInfo(v) # {} /\ ~req[h].force /\ Same /\ Fail(h)
          \/ MappedSdcInfo(v) # {} /\ req[h].force /\ Same /\ Goto(h, "detach")
          \/ getVolume(v) /\ MappedSdcInfo(v) = {} /\ Same /\ Goto(h, "MapVolumeSdc")
    \/ /\ At(h, "MapVolumeSdc")
       /\ \/ Faulty /\ Fail(h)
          \/ (~Exists(v) \/ Attachments(v) # {}) /\ Same /\ Fail(h)
          \/ /\ Exists(v) /\ Attachments(v) = {}
             /\ SetAtt(v, h, "attached") /\ Goto(h, "inspect")

\* Mutant: every SDC loses the volume, forced or not.
VolumeDetachAll(h) ==
    LET v == req[h].id
        lose == Attachments(v)
    IN
    \/ /\ At(h, "detach")
       /\ \/ Faulty /\ Fail(h)
          \/ ~getVolume(v) /\ Same /\ Fail(h)
          \/ getVolume(v) /\ Same /\ Goto(h, "UnmapVolumeSdc")
    \/ /\ At(h, "UnmapVolumeSdc")
       /\ \/ Faulty /\ Fail(h)
          \/ lose = {} /\ Same /\ Fail(h)
          \/ /\ lose # {}
             /\ SetVol(v, [vol[v] EXCEPT !.att =
                             [k \in Hosts |-> IF k \in lose THEN "no" ELSE @[k]]])
             /\ Goto(h, IF req[h].op = "attach" THEN "inspectDetached" ELSE "inspect")
    \/ /\ At(h, "inspectDetached")
       /\ \/ Faulty /\ Fail(h)
          \/ Same /\ Goto(h, "MapVolumeSdc")

\* Forced, every SDC loses the volume; otherwise only the caller's.  The
\* volume a forced attach inspects here is used by nobody.
VolumeDetach(h) ==
    LET v == req[h].id
        lose == IF req[h].force THEN Attachments(v) ELSE Attachments(v) \cap {h}
    IN
    \/ /\ At(h, "detach")
       /\ \/ Faulty /\ Fail(h)
          \/ ~getVolume(v) /\ Same /\ Fail(h)
          \/ getVolume(v) /\ Same /\ Goto(h, "UnmapVolumeSdc")
    \/ /\ At(h, "UnmapVolumeSdc")
       /\ \/ Faulty /\ Fail(h)
          \/ lose = {} /\ Same /\ Fail(h)
          \/ /\ lose # {}
             /\ SetVol(v, [vol[v] EXCEPT !.att =
                             [k \in Hosts |-> IF k \in lose THEN "no" ELSE @[k]]])
             /\ Goto(h, IF req[h].op = "attach" THEN "inspectDetached" ELSE "inspect")
    \/ /\ At(h, "inspectDetached")
       /\ \/ Faulty /\ Fail(h)
          \/ Same /\ Goto(h, "MapVolumeSdc")

Step(h) ==
    \/ Volumes(h) \/ VolumeInspect(h)
    \/ VolumeCreate(h) \/ VolumeCreateFromSnapshot(h)
    \/ createVolume(h) \/ VolumeRemove(h)
    \/ VolumeAttach(h) \/ VolumeDetach(h)
=============================================================================
