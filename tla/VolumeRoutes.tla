---------------------------- MODULE VolumeRoutes ----------------------------
(***************************************************************************)
(* The volume and snapshot routes of a server: what a request passes       *)
(* before it reaches its handler (api/server/handlers), the handlers       *)
(* themselves (api/server/router/volume, api/server/router/snapshot) and   *)
(* the functions they hand to the storage services' task queues.           *)
(*                                                                         *)
(* A service runs one of these functions at a time, and a batch route      *)
(* waits for the functions it made: TaskService models how, and when an    *)
(* identifier used twice breaks it; here the queues work.  The driver      *)
(* behind a service is external: it may fail, and it may answer nil        *)
(* without an error, as several drivers do (StorageDrivers).  OnVolume is  *)
(* nil, as in the whole repository.                                        *)
(***************************************************************************)
EXTENDS Naturals, FiniteSets

CONSTANTS
    Service,      \* configured storage services
    NoService,    \* a service name of a path that is not configured
    Driver, DriverOf,
    Vol, Home,    \* volume identities, and the service of each
    NilOnDetach,  \* the services whose driver may answer a detach with a nil volume
    Watched,      \* the services whose driver sets attachment states, as rbd does
    Instance, NoOne,
    Handler,      \* HTTP requests, one handler goroutine each
    HostOf,       \* the instance that sends each of them
    Arrival,      \* the routes each of them may take
    Mask,         \* the attachment masks clients use
    Snapped,      \* the volumes of which a snapshot exists at the start
    Old,          \* volumes that exist at the start, the others may
    Holders,      \* who may have each volume at the start
    MaxRequests,  \* bound on the requests a handler serves
    MaxFaults

VARIABLES
    vol,      \* the backends: which volumes exist, and who has them
    snap,     \* the volumes of which a snapshot exists
    req,      \* the request of each handler
    service,  \* the loop variable of a batch handler
    task,     \* per handler and service, the function it queued
    filed,    \* volumeDetachAll's reply map
    answer,   \* the answer given in the last step, if it gave one
    left,     \* requests each handler may still serve
    up,       \* the server process has not panicked
    faults    \* failures of logins and drivers that may still happen

Kinds == {"volumes", "volumesForService", "volumeInspect", "volumeInspectByName",
          "volumeCreate", "volumeCopy", "volumeSnapshot", "volumeAttach", "volumeDetach",
          "volumeDetachAll", "volumeDetachAllForService", "volumeRemove",
          "snapshots", "snapshotsForService", "snapshotInspect", "snapshotRemove",
          "snapshotCopy", "snapshotCreate"}

Bits == {"requested", "mine", "devices", "attached", "unattached"}

\* A volume belongs to one service, a request comes from one instance, as does
\* whoever has a volume, and the placeholders are not names of anything.  As in the
\* named masks, whoever asks for anything asks for the attachments.
ASSUME RoutesAssumption ==
    /\ Home \in [Vol -> Service] /\ HostOf \in [Handler -> Instance]
    /\ Arrival \in [Handler -> SUBSET Kinds]
    /\ Mask \subseteq SUBSET Bits /\ \A m \in Mask : m # {} => "requested" \in m
    /\ NoService \notin Service /\ NoOne \notin Vol \cup Instance
    /\ Holders \in [Vol -> SUBSET SUBSET Instance]

work == <<req, service, task, filed>>
vars == <<vol, snap, work, answer, left, up, faults>>

Batch == {"volumes", "snapshots", "volumeDetachAll"}

NoReq == [kind |-> "none", svc |-> NoService, vol |-> NoOne, mask |-> {},
          host |-> NoOne, known |-> {}, pc |-> "idle", todo |-> {}]

\* "seen": the volumes the driver listed; "todo": those still to be detached;
\* "gone": those detached; "map": the result; "truth": what the mask asks for;
\* "blind": those whose state the driver could not tell.
NoTask == [st |-> "none", err |-> FALSE, seen |-> {}, todo |-> {}, gone |-> {},
           map |-> {}, truth |-> {}, blind |-> {}]

EmptyMap == [s \in {} |-> {}]

NoTasks == [s \in Service |-> NoTask]

\* "req" and "task": the request that is answered and the functions it queued, if
\* the answer is more than an error.
Reply(res, map, state) ==
    [res |-> res, map |-> map, state |-> state, req |-> NoReq, task |-> NoTasks]

NoAnswer == Reply("none", EmptyMap, "unset")

Init ==
    /\ vol \in {f \in [Vol -> [made : BOOLEAN, to : SUBSET Instance]] :
                  \A v \in Vol : IF f[v].made THEN f[v].to \in Holders[v]
                                 ELSE v \notin Old /\ f[v].to = {}}
    /\ snap = Snapped
    /\ req = [r \in Handler |-> NoReq]
    /\ service = [r \in Handler |-> NoService]
    /\ task = [r \in Handler |-> NoTasks]
    /\ filed = [r \in Handler |-> EmptyMap]
    /\ answer = NoAnswer
    /\ left = [r \in Handler |-> MaxRequests]
    /\ up = TRUE
    /\ faults = MaxFaults

Of(s) == {v \in Vol : Home[v] = s}
Made(s) == {v \in Of(s) : vol[v].made}

-----------------------------------------------------------------------------
(* Attachment masks *)

Attached(mask) == "attached" \in mask
Unattached(mask) == "unattached" \in mask
Mine(mask) == "mine" \in mask
Requested(mask) == "requested" \in mask
RequiresInstanceID(mask) == Mine(mask) \/ "devices" \in mask

\* The masks with which drivers look at a volume they have made, attached or detached.
VolAttNone == {}
VolAttReqTrue == {"requested", "mine", "devices", "attached"}

\* The state of a volume that the instances to have, as iid sees it.
StateOf(to, iid) ==
    IF to = {} THEN "available" ELSE IF iid \in to THEN "attached" ELSE "unavailable"

\* The state the driver of s sets: none, unless it is one that does and attachments
\* are asked for.  It knows what the caller's instance has mapped; for the rest it
\* looks at who watches the image, and when it cannot (blind) it says so.  A caller
\* that does not say who it is counts as one that has nothing mapped.
DriverState(s, to, iid, mask, blind) ==
    IF s \notin Watched \/ ~Requested(mask) THEN "unset"
    ELSE IF iid \notin to /\ blind THEN "unknown" ELSE StateOf(to, iid)

\* v.AttachmentState, which a handler sets only where the driver did not.
OrElse(said, state) == IF said = "unset" THEN state ELSE said

AttachmentState(s, to, iid, mask, blind) ==
    OrElse(DriverState(s, to, iid, mask, blind), StateOf(to, iid))

\* The function f of handleVolAttachments: whether the mask keeps a volume in a
\* state.  The unknown state is kept by every mask.
Keeps(state, mask) ==
    /\ ~(state = "available" /\ Attached(mask) /\ ~Unattached(mask))
    /\ ~(state \in {"attached", "unavailable"} /\ ~Attached(mask) /\ Unattached(mask))
    /\ ~(/\ Mine(mask) /\ Attached(mask)
         /\ (state = "available" /\ ~Unattached(mask)) \/ state = "unavailable")

handleVolAttachments(s, to, iid, mask, blind) ==
    mask = {} \/ Keeps(AttachmentState(s, to, iid, mask, blind), mask)

\* What the named masks of types_drivers_storage.go ask for.
MaskAsksFor(to, iid, mask) ==
    /\ Attached(mask) /\ Mine(mask) => iid \in to \/ (Unattached(mask) /\ to = {})
    /\ Attached(mask) /\ ~Unattached(mask) => to # {}
    /\ Unattached(mask) /\ ~Attached(mask) => to = {}

-----------------------------------------------------------------------------
(* Arrival *)

\* instanceIDHandler: an instance ID header names a service or else a driver; a
\* service's own header is taken before its driver's.  All headers of a request
\* come from one host.
instanceIDs(services, drivers) ==
    {s \in Service : s \in services \/ DriverOf[s] \in drivers}

IID(r, s) == IF s \in req[r].known THEN req[r].host ELSE NoOne

Silent == answer' = NoAnswer

Failed == Reply("error", EmptyMap, "unset")

\* The request of r, whose functions ended as in t, is answered with a.
Done(r, t, a) ==
    /\ answer' = IF a = Failed THEN a ELSE [a EXCEPT !.req = req[r], !.task = t]
    /\ req' = [req EXCEPT ![r] = NoReq]
    /\ task' = [task EXCEPT ![r] = NoTasks]
    /\ service' = [service EXCEPT ![r] = NoService]
    /\ filed' = [filed EXCEPT ![r] = EmptyMap]

\* A request for a batch route: its headers, its mask and its arguments are read.
ReceiveBatch(r, k, m, known) ==
    /\ up
    /\ req[r].pc = "idle"
    /\ left[r] > 0 /\ left' = [left EXCEPT ![r] = @ - 1]
    /\ req' = [req EXCEPT ![r] = [kind |-> k, svc |-> NoService, vol |-> NoOne, mask |-> m,
                                  host |-> HostOf[r], known |-> known,
                                  pc |-> "loop", todo |-> Service]]
    /\ Silent
    /\ UNCHANGED <<vol, snap, service, task, filed, up, faults>>

\* The handlers that refuse a request without an instance ID.
NeedsInstance(k, m) ==
    \/ k \in {"volumeAttach", "volumeDetach", "volumeDetachAllForService"}
    \/ k \in {"volumeInspect", "volumeInspectByName"} /\ RequiresInstanceID(m)

\* A request for a route of one service: serviceValidator, storageSessionHandler
\* (whose login may fail), the handler's check for an instance ID, TaskExecute.
Receive(r, k, s, v, m, known, login) ==
    LET q == [kind |-> k, svc |-> s, vol |-> v, mask |-> m, host |-> HostOf[r],
              known |-> known, pc |-> "wait", todo |-> {}]
        refused == s \notin Service \/ ~login \/ (NeedsInstance(k, m) /\ known = {}) IN
    /\ up
    /\ req[r].pc = "idle"
    /\ left[r] > 0 /\ left' = [left EXCEPT ![r] = @ - 1]
    /\ login \/ (s \in Service /\ faults > 0)
    /\ faults' = IF login THEN faults ELSE faults - 1
    /\ IF refused
       THEN answer' = Failed /\ UNCHANGED <<req, task>>
       ELSE /\ req' = [req EXCEPT ![r] = q]
            /\ task' = [task EXCEPT ![r][s].st = "queued"]
            /\ Silent
    /\ UNCHANGED <<vol, snap, service, filed, up>>

Masked == {"volumes", "volumesForService", "volumeInspect", "volumeInspectByName"}
OnVolumeID == {"volumeInspect", "volumeInspectByName", "volumeCopy", "volumeSnapshot",
               "volumeAttach", "volumeDetach", "volumeRemove", "snapshotInspect",
               "snapshotRemove", "snapshotCopy", "snapshotCreate"}

\* The routes and masks for which the instance ID makes a difference.
UsesInstance(k, m) ==
    \/ k \in {"volumeAttach", "volumeDetach",
              "volumeDetachAllForService", "volumeDetachAll"}
    \/ k \in Masked /\ m # {}

\* The services for which a request may bring an instance ID.
KnownTo(k, m) ==
    IF UsesInstance(k, m)
    THEN {instanceIDs(S, D) : S \in SUBSET Service, D \in SUBSET Driver} ELSE {{}}

MasksOf(k) == IF k \in Masked THEN Mask ELSE {{}}

Dispatch(r, k, m, known) ==
    \/ k \in Batch /\ ReceiveBatch(r, k, m, known)
    \/ /\ k \in OnVolumeID
       /\ \E v \in Vol, login \in BOOLEAN :
            Receive(r, k, Home[v], v, m, known \cap {Home[v]}, login)
    \/ /\ k \notin Batch \cup OnVolumeID
       /\ \E s \in Service \cup {NoService}, login \in BOOLEAN :
            Receive(r, k, s, NoOne, m, known \cap {s}, login)

Arrive(r) ==
    \E k \in Arrival[r] : \E m \in MasksOf(k) : \E known \in KnownTo(k, m) :
      Dispatch(r, k, m, known)

\* One turn of the loop of a batch handler: the next service arrives on the
\* channel of StorageServices and its function is queued.
Loop(r, s) ==
    /\ up
    /\ req[r].pc = "loop"
    /\ s \in req[r].todo
    /\ service' = [service EXCEPT ![r] = s]
    /\ task' = [task EXCEPT ![r][s].st = "queued"]
    /\ req' = [req EXCEPT ![r].todo = @ \ {s},
                          ![r].pc = IF req[r].todo = {s} THEN "gather" ELSE "loop"]
    /\ Silent
    /\ UNCHANGED <<vol, snap, filed, left, up, faults>>

-----------------------------------------------------------------------------
(* The functions the services run *)

Running(s) == {r \in Handler : task[r][s].st = "detaching"}

\* The service's worker is free to take the function: a function that makes one
\* driver call is one step, the detach loops keep the worker.
CanRun(r, s) == up /\ task[r][s].st = "queued" /\ Running(s) = {}

SetTask(r, s, t) == task' = [task EXCEPT ![r][s] = t]
Fails(t) == [t EXCEPT !.st = "done", !.err = TRUE]

\* The function of r on s ends as t: in a batch it waits for the others,
\* otherwise the request is answered with a.
End(r, s, t, a) ==
    IF req[r].kind \in Batch
    THEN SetTask(r, s, t) /\ Silent /\ UNCHANGED <<req, service, filed>>
    ELSE Done(r, [task[r] EXCEPT ![s] = t], a)

\* The login of a batch function, or the first driver call of any, fails.
DriverFails(r, s) ==
    /\ CanRun(r, s)
    /\ faults > 0 /\ faults' = faults - 1
    /\ End(r, s, Fails(task[r][s]), Failed)
    /\ UNCHANGED <<vol, snap, left, up>>

Entry(s, S) == [x \in {s} |-> S]
OK(s, S) == Reply("ok", Entry(s, S), "unset")

\* The volumes of s whose state its driver may fail to tell the caller.
Unsure(r, s) ==
    {v \in Made(s) :
       DriverState(s, vol[v].to, IID(r, s), req[r].mask, TRUE) = "unknown"}

getFilteredVolumes(r, s, blind) ==
    {v \in Made(s) :
       handleVolAttachments(s, vol[v].to, IID(r, s), req[r].mask, v \in blind)}

\* volumes and volumesForService.
List(r, s, blind) ==
    LET t == task[r][s]
        S == getFilteredVolumes(r, s, blind)
        truth == {v \in Made(s) : MaskAsksFor(vol[v].to, IID(r, s), req[r].mask)} IN
    /\ CanRun(r, s) /\ req[r].kind \in {"volumes", "volumesForService"}
    /\ blind \subseteq Unsure(r, s)
    /\ IF RequiresInstanceID(req[r].mask) /\ IID(r, s) = NoOne
       THEN End(r, s, Fails(t), Failed)
       ELSE End(r, s, [t EXCEPT !.st = "done", !.map = S, !.truth = truth, !.blind = blind],
                OK(s, S))
    /\ UNCHANGED <<vol, snap, left, up, faults>>

SnapshotsOf(s) == snap \cap Of(s)

\* snapshots and snapshotsForService.
ListSnapshots(r, s) ==
    LET S == SnapshotsOf(s) IN
    /\ CanRun(r, s) /\ req[r].kind \in {"snapshots", "snapshotsForService"}
    /\ End(r, s, [task[r][s] EXCEPT !.st = "done", !.map = S, !.truth = S], OK(s, S))
    /\ UNCHANGED <<vol, snap, left, up, faults>>

\* volumeDetachAll and volumeDetachAllForService list with an empty mask, so they
\* go through every volume of the service, attached or not.
ListToDetach(r, s) ==
    LET t == task[r][s] IN
    /\ CanRun(r, s)
    /\ req[r].kind \in {"volumeDetachAll", "volumeDetachAllForService"}
    /\ SetTask(r, s, IF IID(r, s) = NoOne THEN Fails(t)
                     ELSE [t EXCEPT !.st = "detaching", !.seen = Made(s), !.todo = Made(s)])
    /\ Silent
    /\ UNCHANGED <<vol, snap, req, service, filed, left, up, faults>>

\* The driver detaches v from the caller's instance or from all; rbd can only unmap
\* what the caller has mapped.
Leaves(v, i) ==
    IF Home[v] \in Watched THEN {vol[v].to \ {i} : x \in vol[v].to \cap {i}}
    ELSE {vol[v].to \ {i}, {}}

\* What the driver answers a detach with: the volume, or nil.
Described(s, v) == {{v}} \cup {{} : x \in NilOnDetach \cap {s}}

\* The states in the reply are set as volumeDetach sets its own, and left out here.
DetachOne(r, s, v, to) ==
    LET t == task[r][s] IN
    /\ up
    /\ t.st = "detaching" /\ v \in t.todo
    /\ vol[v].made /\ to \in Leaves(v, req[r].host)
    /\ vol' = [vol EXCEPT ![v].to = to]
    /\ \E d \in Described(s, v) :
         SetTask(r, s, [t EXCEPT !.todo = @ \ {v}, !.gone = @ \cup {v}, !.map = @ \cup d])
    /\ Silent
    /\ UNCHANGED <<snap, req, service, filed, left, up, faults>>

\* A mutant: the loop goes on after an error.
DetachOneFailsOn(r, s, v) ==
    LET t == task[r][s]
        fault == vol[v].made /\ req[r].host \in vol[v].to IN
    /\ up
    /\ t.st = "detaching" /\ v \in t.todo
    /\ faults > 0 \/ ~fault
    /\ faults' = IF fault THEN faults - 1 ELSE faults
    /\ SetTask(r, s, [t EXCEPT !.todo = @ \ {v}])
    /\ Silent
    /\ UNCHANGED <<vol, snap, req, service, filed, left, up>>

\* The driver returns an error: the volume is gone, the caller did not have it and
\* the driver minds, or the call failed.  The loop ends.
DetachOneFails(r, s, v) ==
    LET t == task[r][s]
        fault == vol[v].made /\ req[r].host \in vol[v].to IN
    /\ up
    /\ t.st = "detaching" /\ v \in t.todo
    /\ faults > 0 \/ ~fault
    /\ faults' = IF fault THEN faults - 1 ELSE faults
    /\ SetTask(r, s, [t EXCEPT !.todo = {}, !.err = TRUE])
    /\ Silent
    /\ UNCHANGED <<vol, snap, req, service, filed, left, up>>

\* The loop over the volumes has ended: volumeDetachAllForService returns its map,
\* in a BatchProcessErr if there was an error.
DetachEnd(r, s) ==
    LET t == [task[r][s] EXCEPT !.st = "done"] IN
    /\ up
    /\ req[r].kind = "volumeDetachAllForService"
    /\ task[r][s].st = "detaching" /\ t.todo = {}
    /\ Done(r, [task[r] EXCEPT ![s] = t],
            Reply(IF t.err THEN "batch" ELSE "ok", Entry(s, t.map), "unset"))
    /\ UNCHANGED <<vol, snap, left, up, faults>>

\* The deferred function of volumeDetachAll files what was detached under the
\* name of the service that the shared loop variable holds now.
DetachFile(r, s) ==
    LET t == task[r][s] IN
    /\ up
    /\ req[r].kind = "volumeDetachAll"
    /\ t.st = "detaching" /\ t.todo = {}
    /\ SetTask(r, s, [t EXCEPT !.st = "done"])
    /\ filed' = [filed EXCEPT ![r] =
          IF t.map = {} THEN @
          ELSE [x \in DOMAIN @ \cup {service[r]} |->
                  IF x = service[r] THEN t.map ELSE @[x]]]
    /\ Silent
    /\ UNCHANGED <<vol, snap, req, service, left, up, faults>>

-----------------------------------------------------------------------------
(* Routes of one volume: one driver call *)

Ready(r, k) == req[r].kind = k /\ CanRun(r, req[r].svc)

Finish(r, a) ==
    /\ Done(r, task[r], a)
    /\ UNCHANGED <<left, up, faults>>

\* A nil volume without an error is dereferenced: nothing recovers the panic.
Panic(r) ==
    /\ up' = FALSE
    /\ Silent
    /\ UNCHANGED <<vol, snap, work, left, faults>>

Found(r, state) == Reply("ok", Entry(req[r].svc, {req[r].vol}), state)

\* A volume that is found is answered unless the mask omits it.
Inspected(r, blind) ==
    LET s == req[r].svc
        to == vol[req[r].vol].to
        m == req[r].mask IN
    IF ~handleVolAttachments(s, to, IID(r, s), m, blind) THEN Failed
    ELSE Found(r, IF m = {} THEN "unset" ELSE AttachmentState(s, to, IID(r, s), m, blind))

\* volumeInspect, by ID: the driver answers an absent volume with an error or nil.
VolumeInspect(r) ==
    LET v == req[r].vol IN
    /\ Ready(r, "volumeInspect")
    /\ \/ /\ vol[v].made
          /\ \E blind \in BOOLEAN : Finish(r, Inspected(r, blind))
          /\ UNCHANGED <<vol, snap>>
       \/ ~vol[v].made /\ Finish(r, Failed) /\ UNCHANGED <<vol, snap>>
       \/ ~vol[v].made /\ Panic(r)

\* volumeInspect with byName set: the driver's list is searched, so an absent
\* volume is never dereferenced.
VolumeInspectByName(r) ==
    /\ Ready(r, "volumeInspectByName")
    /\ \E blind \in BOOLEAN :
         Finish(r, IF vol[req[r].vol].made THEN Inspected(r, blind) ELSE Failed)
    /\ UNCHANGED <<vol, snap>>

New(s) == {w \in Of(s) : ~vol[w].made}

\* volumeCreate, volumeCopy and, from a snapshot, snapshotCreate: a volume the
\* driver makes is reported as available unless the driver set its state, which no
\* driver does here: rbd inspects the new volume without its attachments.
Creates(r, source) ==
    LET s == req[r].svc
        said == DriverState(s, {}, IID(r, s), VolAttNone, FALSE) IN
    \/ /\ source
       /\ \E w \in New(s) :
            /\ vol' = [vol EXCEPT ![w].made = TRUE]
            /\ Finish(r, Reply("ok", Entry(s, {w}),
                               IF req[r].kind = "snapshotCreate" THEN said
                               ELSE OrElse(said, "available")))
       /\ UNCHANGED snap
    \/ ~source /\ Finish(r, Failed) /\ UNCHANGED <<vol, snap>>

VolumeCreate(r) == Ready(r, "volumeCreate") /\ Creates(r, New(req[r].svc) # {})
VolumeCopy(r) ==
    /\ Ready(r, "volumeCopy")
    /\ Creates(r, vol[req[r].vol].made /\ New(req[r].svc) # {})
SnapshotCreate(r) ==
    /\ Ready(r, "snapshotCreate")
    /\ Creates(r, req[r].vol \in snap /\ New(req[r].svc) # {})

\* volumeSnapshot.
VolumeSnapshot(r) ==
    LET v == req[r].vol IN
    /\ Ready(r, "volumeSnapshot")
    /\ snap' = IF vol[v].made THEN snap \cup {v} ELSE snap
    /\ Finish(r, IF vol[v].made THEN OK(req[r].svc, {v}) ELSE Failed)
    /\ UNCHANGED vol

\* volumeAttach: the driver attaches the volume to the caller's instance; an
\* absent volume is an error or nil.
VolumeAttach(r) ==
    LET v == req[r].vol
        s == req[r].svc
        to == vol[v].to \cup {IID(r, s)} IN
    /\ Ready(r, "volumeAttach")
    /\ \/ /\ vol[v].made
          /\ vol' = [vol EXCEPT ![v].to = to]
          /\ \E blind \in BOOLEAN :
               LET said == DriverState(s, to, IID(r, s), VolAttReqTrue, blind) IN
               Finish(r, Found(r, OrElse(said, "attached")))
          /\ UNCHANGED snap
       \/ ~vol[v].made /\ Finish(r, Failed) /\ UNCHANGED <<vol, snap>>
       \/ ~vol[v].made /\ Panic(r)

\* A mutant: the state is set whether or not the driver has set it.
VolumeDetachOverwrites(r) ==
    LET v == req[r].vol
        s == req[r].svc IN
    /\ Ready(r, "volumeDetach")
    /\ \/ /\ vol[v].made
          /\ \E to \in Leaves(v, IID(r, s)), blind \in BOOLEAN, d \in Described(s, v) :
               /\ vol' = [vol EXCEPT ![v].to = to]
               /\ Finish(r, IF d = {} THEN OK(s, {}) ELSE Found(r, "available"))
       \/ (~vol[v].made \/ IID(r, s) \notin vol[v].to) /\ Finish(r, Failed) /\ UNCHANGED vol
    /\ UNCHANGED snap

\* volumeDetach: nil is answered as an empty result.
VolumeDetach(r) ==
    LET v == req[r].vol
        s == req[r].svc IN
    /\ Ready(r, "volumeDetach")
    /\ \/ /\ vol[v].made
          /\ \E to \in Leaves(v, IID(r, s)), blind \in BOOLEAN, d \in Described(s, v) :
               /\ vol' = [vol EXCEPT ![v].to = to]
               /\ LET said == DriverState(s, to, IID(r, s), VolAttReqTrue, blind) IN
                  Finish(r, IF d = {} THEN OK(s, {})
                            ELSE Found(r, OrElse(said, "available")))
       \/ (~vol[v].made \/ IID(r, s) \notin vol[v].to) /\ Finish(r, Failed) /\ UNCHANGED vol
    /\ UNCHANGED snap

\* volumeRemove.
VolumeRemove(r) ==
    LET v == req[r].vol IN
    /\ Ready(r, "volumeRemove")
    /\ vol' = [vol EXCEPT ![v] = [made |-> FALSE, to |-> {}]]
    /\ Finish(r, IF vol[v].made THEN OK(req[r].svc, {}) ELSE Failed)
    /\ UNCHANGED snap

\* snapshotInspect, snapshotCopy (into another identity of the service) and
\* snapshotRemove.
SnapshotInspect(r) ==
    /\ Ready(r, "snapshotInspect")
    /\ Finish(r, IF req[r].vol \in snap THEN OK(req[r].svc, {req[r].vol}) ELSE Failed)
    /\ UNCHANGED <<vol, snap>>

SnapshotCopy(r) ==
    LET free == Of(req[r].svc) \ snap IN
    /\ Ready(r, "snapshotCopy")
    /\ IF req[r].vol \in snap /\ free # {}
       THEN \E w \in free : snap' = snap \cup {w} /\ Finish(r, OK(req[r].svc, {w}))
       ELSE Finish(r, Failed) /\ UNCHANGED snap
    /\ UNCHANGED vol

SnapshotRemove(r) ==
    /\ Ready(r, "snapshotRemove")
    /\ snap' = snap \ {req[r].vol}
    /\ Finish(r, IF req[r].vol \in snap THEN OK(req[r].svc, {}) ELSE Failed)
    /\ UNCHANGED vol

-----------------------------------------------------------------------------
(* The end of a batch *)

Gathering(r) ==
    /\ up
    /\ req[r].pc = "gather"
    /\ \A s \in Service : task[r][s].st = "done"

Errors(r) == {s \in Service : task[r][s].err}
Results(r, S) == [s \in S |-> task[r][s].map]

\* A mutant: a service whose function failed is left out.
GatherListsSkips(r) ==
    /\ Gathering(r) /\ req[r].kind \in {"volumes", "snapshots"}
    /\ Done(r, task[r], Reply("ok", Results(r, Service \ Errors(r)), "unset"))
    /\ UNCHANGED <<vol, snap, left, up, faults>>

\* volumes and snapshots go through their tasks in the order of a map: the first
\* error found ends it, with the results found before it.
GatherLists(r) ==
    /\ Gathering(r) /\ req[r].kind \in {"volumes", "snapshots"}
    /\ IF Errors(r) = {}
       THEN Done(r, task[r], Reply("ok", Results(r, Service), "unset"))
       ELSE \E S \in SUBSET (Service \ Errors(r)) :
              Done(r, task[r], Reply("batch", Results(r, S), "unset"))
    /\ UNCHANGED <<vol, snap, left, up, faults>>

\* volumeDetachAll answers with the map its functions have filled.
GatherDetached(r) ==
    /\ Gathering(r) /\ req[r].kind = "volumeDetachAll"
    /\ Done(r, task[r], Reply(IF Errors(r) = {} THEN "ok" ELSE "batch", filed[r], "unset"))
    /\ UNCHANGED <<vol, snap, left, up, faults>>

-----------------------------------------------------------------------------
Single(r) ==
    \/ VolumeInspect(r) \/ VolumeInspectByName(r)
    \/ VolumeCreate(r) \/ VolumeCopy(r) \/ VolumeSnapshot(r)
    \/ VolumeAttach(r) \/ VolumeDetach(r) \/ VolumeRemove(r)
    \/ SnapshotCreate(r) \/ SnapshotInspect(r) \/ SnapshotCopy(r) \/ SnapshotRemove(r)

Run(r, s) ==
    \/ DriverFails(r, s) \/ ListSnapshots(r, s) \/ ListToDetach(r, s)
    \/ \E blind \in SUBSET Vol : List(r, s, blind)
    \/ \E v \in Vol, to \in SUBSET Instance : DetachOne(r, s, v, to)
    \/ \E v \in Vol : DetachOneFails(r, s, v)
    \/ DetachEnd(r, s) \/ DetachFile(r, s)

Next ==
    \E r \in Handler :
      \/ Arrive(r)
      \/ \E s \in Service : Loop(r, s) \/ Run(r, s)
      \/ Single(r)
      \/ GatherLists(r) \/ GatherDetached(r)

Spec == Init /\ [][Next]_vars

-----------------------------------------------------------------------------
(* Properties *)

Answers(res, kinds) == answer.res = res /\ answer.req.kind \in kinds

\* An OK answer of volumes or snapshots has an entry for every service, and an OK
\* answer of volumesForService or snapshotsForService one for its own.  In it are
\* exactly the objects that the mask's documentation promises (api/types/
\* types_drivers_storage.go) of those the service had when it was read, and the
\* volumes whose state the driver could not tell, which every mask keeps: the batch
\* neither loses a service that failed nor mixes two of them, and the filter omits
\* nothing that was asked for.
ListingsComplete ==
    LET Right(S) ==
          answer.map = [s \in S |-> answer.task[s].truth \cup answer.task[s].blind] IN
    /\ Answers("ok", {"volumes", "snapshots"}) => Right(Service)
    /\ Answers("ok", {"volumesForService", "snapshotsForService"}) =>
         Right({answer.req.svc})

\* An OK answer of volumeDetachAll or volumeDetachAllForService means that the
\* driver detached every volume it had listed, in every service concerned; and
\* when volumeDetachAllForService fails half-way its BatchProcessErr names every
\* volume already detached that the driver described.
DetachAllHonest ==
    /\ Answers("ok", {"volumeDetachAll", "volumeDetachAllForService"}) =>
         \A s \in Service : answer.task[s].gone = answer.task[s].seen
    /\ Answers("batch", {"volumeDetachAllForService"}) =>
         answer.map[answer.req.svc] = answer.task[answer.req.svc].map

\* The instance whose ID came with the request that was answered.
Caller == IF answer.req.svc \in answer.req.known THEN answer.req.host ELSE NoOne

\* The attachment state that volumeAttach, volumeDetach, volumeInspect and the
\* routes that create answer with is the state of the volume after the request, as
\* its caller sees it, whoever set it, with two exceptions: a driver that sets states
\* may not know one, but never of a volume the caller has; and for a driver that
\* does not set them volumeDetach says available without looking, although other
\* instances may have kept the volume.
StatesHonest ==
    answer.state # "unset" =>
      \A s \in DOMAIN answer.map : \A v \in answer.map[s] :
        LET to == vol[v].to IN
        \/ answer.state = StateOf(to, Caller)
        \/ answer.state = "unknown" /\ s \in Watched /\ Caller \notin to
        \/ answer.state = "available" /\ answer.req.kind = "volumeDetach"
           /\ s \notin Watched /\ Caller \notin to

\* libstorage.apib: the answer of volumeDetachAll is "A list of the detached
\* volumes."  Violated: the functions of two services file their volumes under
\* the name the shared loop variable holds at that moment.
DetachAllListsDetached ==
    Answers("ok", {"volumeDetachAll"}) =>
      \A s \in Service : answer.task[s].map # {} =>
        s \in DOMAIN answer.map /\ answer.map[s] = answer.task[s].map
=============================================================================
