----------------------------- MODULE VBoxDriver -----------------------------
(***************************************************************************)
(* drivers/storage/vbox/storage/vbox_storage.go: media of a VirtualBox     *)
(* host attached to its machines.  Every call is complete when it returns. *)
(* The driver's mutex serialises VolumeCreate and VolumeRemove of one      *)
(* server; here a server runs one request at a time anyway.                *)
(***************************************************************************)
EXTENDS Cloud

\* GetMedium by ID or name; the machines of a medium are its attachments.
getVolume(v) == Exists(v)

MachineIDs(v) == Attachments(v)

Volumes(h) ==
    /\ At(h, "list")
    /\ \/ Faulty /\ Fail(h)
       \/ Same /\ Return(h, "ok", {v \in Vols : Exists(v)})

VolumeInspect(h) ==
    LET v == req[h].id IN
    /\ At(h, "inspect")
    /\ \/ Faulty /\ Fail(h)
       \/ ~getVolume(v) /\ Same /\ Fail(h)
       \/ getVolume(v) /\ Same /\ Return(h, "ok", MachineIDs(v))

\* The request must carry a size.
VolumeCreate(h) ==
    /\ At(h, "create")
    /\ \/ ~req[h].good /\ Same /\ Fail(h)
       \/ req[h].good /\ Faulty /\ Fail(h)
       \/ Named(req[h].name) # {} /\ Same /\ Fail(h)
       \/ req[h].good /\ Named(req[h].name) = {} /\ Same /\ Goto(h, "createVolume")

\* A medium is a file: VirtualBox refuses a name whose file exists.  The answer
\* is what CreateMedium returned.
createVolume(h) ==
    /\ At(h, "createVolume")
    /\ \/ Faulty /\ Fail(h)
       \/ /\ Named(req[h].name) # {} \/ Fresh = {}
          /\ Same /\ Fail(h)
       \/ /\ Named(req[h].name) = {}
          /\ \E v \in Fresh :
                /\ SetVol(v, NewVol("available", req[h].name, FALSE, FALSE))
                /\ reply' = [host |-> h, res |-> "ok", atts |-> {},
                             req |-> [req[h] EXCEPT !.id = v]]
                /\ req' = [req EXCEPT ![h] = NoRequest]
                /\ UNCHANGED <<driver, zone, left>>

VolumeRemove(h) ==
    LET v == req[h].id IN
    /\ At(h, "remove")
    /\ \/ Faulty /\ Fail(h)
       \/ (~Exists(v) \/ Attachments(v) # {}) /\ Same /\ Fail(h)
       \/ Exists(v) /\ Attachments(v) = {} /\ SetVol(v, Absent) /\ Return(h, "ok", {})

\* Forced, the volume is detached whether attached or not.  A volume that has
\* gone by the last look is no volume and no error.
VolumeAttach(h) ==
    LET v == req[h].id IN
    \/ /\ At(h, "attach")
       /\ \/ Faulty /\ Fail(h)
          \/ ~getVolume(v) /\ Same /\ Fail(h)
          \/ MachineIDs(v) # {} /\ ~req[h].force /\ Same /\ Fail(h)
          \/ getVolume(v) /\ req[h].force /\ Same /\ Goto(h, "detach")
          \/ /\ getVolume(v) /\ MachineIDs(v) = {} /\ ~req[h].force
             /\ Same /\ Goto(h, "attachVolume")
    \/ /\ At(h, "getAttached")
       /\ \/ Faulty /\ Fail(h)
          \/ ~getVolume(v) /\ Same /\ Return(h, "nil", {})
          \/ getVolume(v) /\ Same /\ Return(h, "ok", MachineIDs(v))

\* VirtualBox refuses a medium another machine has.
attachVolume(h) ==
    LET v == req[h].id IN
    /\ At(h, "attachVolume")
    /\ \/ Faulty /\ Fail(h)
       \/ (~getVolume(v) \/ MachineIDs(v) # {}) /\ Same /\ Fail(h)
       \/ /\ getVolume(v) /\ MachineIDs(v) = {}
          /\ SetAtt(v, h, "attached") /\ Goto(h, "getAttached")

\* Mutant: a medium that no machine has is not found after the detachment.
VolumeDetachStrict(h) ==
    LET v == req[h].id IN
    \/ /\ At(h, "detach")
       /\ \/ Faulty /\ Fail(h)
          \/ ~getVolume(v) /\ Same /\ Fail(h)
          \/ getVolume(v) /\ Same /\ Goto(h, "detachVolume")
    \/ /\ At(h, "inspectDetached")
       /\ \/ Faulty /\ Fail(h)
          \/ MachineIDs(v) = {} /\ Same /\ Fail(h)

\* Every machine loses the medium, forced or not, attached or not.
VolumeDetach(h) ==
    LET v == req[h].id IN
    \/ /\ At(h, "detach")
       /\ \/ Faulty /\ Fail(h)
          \/ ~getVolume(v) /\ Same /\ Fail(h)
          \/ getVolume(v) /\ Same /\ Goto(h, "detachVolume")
    \/ /\ At(h, "inspectDetached")
       /\ \/ Faulty /\ Fail(h)
          \/ ~getVolume(v) /\ Same /\ Fail(h)
          \/ getVolume(v) /\ Same /\ Goto(h, "attachVolume")

detachVolume(h) ==
    LET v == req[h].id IN
    /\ At(h, "detachVolume")
    /\ \/ Faulty /\ Fail(h)
       \/ ~getVolume(v) /\ Same /\ Fail(h)
       \/ /\ getVolume(v)
          /\ SetVol(v, [vol[v] EXCEPT !.att = Detached])
          /\ Goto(h, IF req[h].op = "attach" THEN "inspectDetached" ELSE "inspect")

Step(h) ==
    \/ Volumes(h) \/ VolumeInspect(h) \/ VolumeCreate(h)
    \/ createVolume(h) \/ VolumeRemove(h) \/ VolumeAttach(h)
    \/ attachVolume(h) \/ VolumeDetach(h) \/ detachVolume(h)
=============================================================================
