---------------------------- MODULE IsilonDriver ----------------------------
(***************************************************************************)
(* drivers/storage/isilon/storage/isilon_storage.go: OneFS directories,    *)
(* attached by naming a host in the client list of an NFS export.          *)
(*                                                                         *)
(* "tag" is: the volume has an export.  The driver's mutex covers one      *)
(* server; the read of a client list and its replacement are two calls.    *)
(***************************************************************************)
EXTENDS Cloud

sharedMounts == driver = "isilonShared"

\* A directory that is not there is an answer, not an error.
getVolume(v) == Exists(v)

\* The exports whose path is that of a directory.
getVolumeExports == {v \in Vols : Exists(v) /\ vol[v].tag}

\* The clients of the export of the volume.
getVolumeAttachments(v) == IF v \in getVolumeExports THEN Attachments(v) ELSE {}

\* SetExportClientsByID: the whole list.
WriteClients(v, clients) ==
    SetVol(v, [vol[v] EXCEPT
                 !.att = [k \in Hosts |-> IF k \in clients THEN "attached" ELSE "no"]])

Volumes(h) ==
    /\ At(h, "list")
    /\ \/ Faulty /\ Fail(h)
       \/ Same /\ Return(h, "ok", {v \in Vols : Exists(v)})

\* No directory is no volume and no error.
VolumeInspect(h) ==
    LET v == req[h].id IN
    /\ At(h, "inspect")
    /\ \/ Faulty /\ Fail(h)
       \/ ~getVolume(v) /\ Same /\ Return(h, "nil", {})
       \/ getVolume(v) /\ Same /\ Return(h, "ok", getVolumeAttachments(v))

\* A volume whose quota cannot be set stays, also when, with quotas on, the size
\* is missing ("nothing"; with quotas off nobody looks at it).
VolumeCreate(h) ==
    LET v == req[h].id IN
    \/ /\ At(h, "create")
       /\ \/ Faulty /\ Fail(h)
          \/ getVolume(v) /\ Same /\ Fail(h)
          \/ ~getVolume(v) /\ Same /\ Goto(h, "CreateVolume")
    \/ /\ At(h, "CreateVolume")
       /\ \/ Faulty /\ Fail(h)
          \/ Exists(v) /\ Same /\ Fail(h)
          \/ /\ ~Exists(v)
             /\ SetVol(v, [vol[v] EXCEPT !.st = "available"]) /\ Goto(h, "SetQuotaSize")
    \/ /\ At(h, "SetQuotaSize") /\ req[h].given = "nothing" /\ Same /\ Panic(h)
    \/ /\ At(h, "SetQuotaSize") /\ req[h].given = "all"
       /\ \/ Faulty /\ Fail(h)
          \/ ~Exists(v) /\ Same /\ Fail(h)
          \/ Exists(v) /\ Same /\ Goto(h, "inspect")

\* Nothing asks whether the volume is exported: the directory and its contents
\* go, and the export with its clients stays.
VolumeRemove(h) ==
    LET v == req[h].id IN
    /\ At(h, "remove")
    /\ \/ Faulty /\ Fail(h)
       \/ ~Exists(v) /\ Same /\ Fail(h)
       \/ Exists(v) /\ SetVol(v, [vol[v] EXCEPT !.st = "absent"]) /\ Return(h, "ok", {})

VolumeAttach(h) ==
    LET v == req[h].id IN
    \/ /\ At(h, "attach")
       /\ \/ Faulty /\ Fail(h)
          \/ ~getVolume(v) /\ Same /\ Fail(h)
          \/ getVolume(v) /\ Same /\ Goto(h, "ExportVolume")
    \/ /\ At(h, "ExportVolume")
       /\ \/ Faulty /\ Fail(h)
          \/ ~Exists(v) /\ Same /\ Fail(h)
          \/ /\ Exists(v)
             /\ SetVol(v, [vol[v] EXCEPT !.tag = TRUE])
             /\ Goto(h, "GetExportClients")
    \/ /\ At(h, "GetExportClients")
       /\ \/ Faulty /\ Fail(h)
          \/ ~vol[v].tag /\ Same /\ Fail(h)
          \/ /\ Attachments(v) # {} /\ ~sharedMounts /\ ~req[h].force
             /\ Same /\ Fail(h)
          \/ /\ vol[v].tag /\ (Attachments(v) = {} \/ sharedMounts \/ req[h].force)
             /\ Same /\ Keep(h, "SetExportClients",
                             {h} \cup (IF sharedMounts THEN Attachments(v) ELSE {}))

\* Shared by attach and detach.  Attach goes on with three settings of the export,
\* and an error of theirs leaves the host in the list.
SetExportClients(h) ==
    LET v == req[h].id IN
    \/ /\ At(h, "SetExportClients")
       /\ \/ Faulty /\ Fail(h)
          \/ ~vol[v].tag /\ Same /\ Fail(h)
          \/ /\ vol[v].tag /\ WriteClients(v, req[h].seen)
             /\ Goto(h, IF req[h].op = "attach" THEN "DisableRootMapping" ELSE "inspect")
    \/ /\ At(h, "DisableRootMapping")
       /\ \/ Faulty /\ Fail(h)
          \/ ~vol[v].tag /\ Same /\ Fail(h)
          \/ vol[v].tag /\ Same /\ Goto(h, "inspect")

\* The lookup of an export that is not there answers nothing and no error.
VolumeDetach(h) ==
    LET v == req[h].id IN
    \/ /\ At(h, "detach")
       /\ \/ Faulty /\ Fail(h)
          \/ ~getVolume(v) /\ Same /\ Fail(h)
          \/ getVolume(v) /\ Same /\ Goto(h, "GetExportByName")
    \/ /\ At(h, "GetExportByName")
       /\ \/ Faulty /\ Fail(h)
          \/ ~vol[v].tag /\ Same /\ Panic(h)
          \/ /\ vol[v].tag
             /\ Same /\ Keep(h, IF Attachments(v) \ {h} # {} THEN "SetExportClients"
                                ELSE "UnexportByID", Attachments(v) \ {h})
    \/ /\ At(h, "UnexportByID")
       /\ \/ Faulty /\ Fail(h)
          \/ ~vol[v].tag /\ Same /\ Fail(h)
          \/ /\ vol[v].tag
             /\ SetVol(v, [vol[v] EXCEPT !.tag = FALSE, !.att = Detached])
             /\ Goto(h, "inspect")

Step(h) ==
    \/ Volumes(h) \/ VolumeInspect(h) \/ VolumeCreate(h)
    \/ VolumeRemove(h) \/ VolumeAttach(h) \/ SetExportClients(h)
    \/ VolumeDetach(h)
=============================================================================
