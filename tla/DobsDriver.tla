----------------------------- MODULE DobsDriver -----------------------------
(***************************************************************************)
(* drivers/storage/dobs/storage/dobs_storage.go: DigitalOcean volumes.     *)
(*                                                                         *)
(* An action is polled ten times, about two thirds of a second in all; the *)
(* driver then goes on as if it had completed.                             *)
(***************************************************************************)
EXTENDS Cloud

\* The droplets of a volume.
toTypesVolume(v) == Listed(v)

Volumes(h) ==
    /\ At(h, "list")
    /\ \/ Faulty /\ Fail(h)
       \/ Same /\ Return(h, "ok", {v \in Vols : Exists(v)})

VolumeInspect(h) ==
    LET v == req[h].id IN
    /\ At(h, "inspect")
    /\ \/ Faulty /\ Fail(h)
       \/ ~Exists(v) /\ Same /\ Fail(h)
       \/ Exists(v) /\ Same /\ Return(h, "ok", toTypesVolume(v))

\* The instance is asked for its region if the request names none; the size is not
\* checked to be there.  The provider refuses a name that is in use.
VolumeCreate(h) ==
    /\ At(h, "create")
    /\ \/ Faulty /\ Fail(h)
       \/ req[h].given = "nothing" /\ Same /\ Panic(h)
       \/ /\ req[h].given = "all" /\ (Named(req[h].name) # {} \/ Fresh = {})
          /\ Same /\ Fail(h)
       \/ /\ req[h].given = "all" /\ Named(req[h].name) = {}
          /\ \E v \in Fresh :
                Make(h, v, NewVol("available", req[h].name, FALSE, FALSE), "inspect")

VolumeRemove(h) ==
    LET v == req[h].id IN
    \/ /\ At(h, "remove")
       /\ \/ Faulty /\ Fail(h)
          \/ ~Exists(v) /\ Same /\ Fail(h)
          \/ toTypesVolume(v) # {} /\ ~req[h].force /\ Same /\ Fail(h)
          \/ toTypesVolume(v) # {} /\ req[h].force /\ Same /\ Goto(h, "volumeDetach")
          \/ Exists(v) /\ toTypesVolume(v) = {} /\ Same /\ Goto(h, "DeleteVolume")
    \/ /\ At(h, "DeleteVolume")
       /\ \/ Faulty /\ Fail(h)
          \/ (~Exists(v) \/ Attachments(v) # {}) /\ Same /\ Fail(h)
          \/ Exists(v) /\ Attachments(v) = {} /\ SetVol(v, Absent) /\ Return(h, "ok", {})

\* The detachment names the volume only: whoever has it loses it.
volumeDetach(h) ==
    LET v == req[h].id IN
    /\ At(h, "volumeDetach")
    /\ \/ Faulty /\ Fail(h)
       \/ (\A k \in Hosts : vol[v].att[k] # "attached") /\ Same /\ Fail(h)
       \/ \E k \in Hosts :
             /\ vol[v].att[k] = "attached"
             /\ SetAtt(v, k, "detaching") /\ Goto(h, "waitDetach")

\* Whether the ID of the instance is a number is found out after a forced
\* detachment.
VolumeAttach(h) ==
    LET v == req[h].id IN
    \/ /\ At(h, "attach")
       /\ \/ Faulty /\ Fail(h)
          \/ ~Exists(v) /\ Same /\ Fail(h)
          \/ toTypesVolume(v) # {} /\ ~req[h].force /\ Same /\ Fail(h)
          \/ toTypesVolume(v) # {} /\ req[h].force /\ Same /\ Goto(h, "volumeDetach")
          \/ Exists(v) /\ toTypesVolume(v) = {} /\ Same /\ Goto(h, "Attach")
    \/ /\ At(h, "Attach")
       /\ \/ ~req[h].good /\ Same /\ Fail(h)
          \/ req[h].good /\ Faulty /\ Fail(h)
          \/ (~Exists(v) \/ Attachments(v) # {}) /\ Same /\ Fail(h)
          \/ /\ req[h].good /\ Exists(v) /\ Attachments(v) = {}
             /\ SetAtt(v, h, "attaching") /\ Goto(h, "waitAttach")

VolumeDetach(h) ==
    LET v == req[h].id IN
    /\ At(h, "detach")
    /\ \/ Faulty /\ Fail(h)
       \/ toTypesVolume(v) = {} /\ Same /\ Fail(h)
       \/ toTypesVolume(v) # {} /\ Same /\ Goto(h, "volumeDetach")

\* Completed or not, the loop ends without an error.
waitForAction(h) ==
    /\ \E l \in {"waitAttach", "waitDetach"} : At(h, l)
    /\ \/ Faulty /\ Fail(h)
       \/ /\ Same
          /\ Goto(h, IF At(h, "waitDetach") /\ req[h].op = "attach" THEN "Attach"
                     ELSE IF req[h].op = "remove" THEN "DeleteVolume" ELSE "inspect")

Step(h) ==
    \/ Volumes(h) \/ VolumeInspect(h) \/ VolumeCreate(h)
    \/ VolumeRemove(h) \/ volumeDetach(h) \/ VolumeAttach(h)
    \/ VolumeDetach(h) \/ waitForAction(h)
=============================================================================
