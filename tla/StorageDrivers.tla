--------------------------- MODULE StorageDrivers ---------------------------
(***************************************************************************)
(* The drivers of drivers/storage, one at a time (driver), on the servers  *)
(* and the provider of Cloud; what their VolumeCreate, VolumeRemove,       *)
(* VolumeAttach and VolumeDetach promise, and under which circumstances.   *)
(***************************************************************************)
EXTENDS Cloud

CONSTANTS
    Keys,      \* object keys of a bucket
    PageSize,  \* entries in one page of a listing of a bucket
    USEast     \* the region whose buckets have no location constraint

ASSUME KeysAssumption == Keys \subseteq Nat /\ PageSize \in Nat \ {0} /\ USEast \in Zones

VARIABLES bucket, page

allvars == <<vars, bucket, page>>

Ebs == INSTANCE EbsDriver
FittedCloud == INSTANCE FittedCloudDriver
Gce == INSTANCE GceDriver
Dobs == INSTANCE DobsDriver
Azure == INSTANCE AzureDriver
ScaleIO == INSTANCE ScaleIODriver
VBox == INSTANCE VBoxDriver
Rbd == INSTANCE RbdDriver
Efs == INSTANCE EfsDriver
Isilon == INSTANCE IsilonDriver
S3fs == INSTANCE S3fsDriver

\* The driver that NewStorageDriver makes for the service goes on with the request
\* of host h.
DriverStep(h) ==
    /\ h \in Busy
    /\ \/ driver \in Elastic /\ Ebs!Step(h) /\ UNCHANGED <<bucket, page>>
       \/ driver = "fittedcloud" /\ FittedCloud!Step(h) /\ UNCHANGED <<bucket, page>>
       \/ driver = "gcepd" /\ Gce!Step(h) /\ UNCHANGED <<bucket, page>>
       \/ driver = "dobs" /\ Dobs!Step(h) /\ UNCHANGED <<bucket, page>>
       \/ driver = "azureud" /\ Azure!Step(h) /\ UNCHANGED <<bucket, page>>
       \/ driver = "scaleio" /\ ScaleIO!Step(h) /\ UNCHANGED <<bucket, page>>
       \/ driver = "vbox" /\ VBox!Step(h) /\ UNCHANGED <<bucket, page>>
       \/ driver = "rbd" /\ Rbd!Step(h) /\ UNCHANGED <<bucket, page>>
       \/ driver = "efs" /\ Efs!Step(h) /\ UNCHANGED <<bucket, page>>
       \/ driver \in {"isilon", "isilonShared"} /\ Isilon!Step(h) /\ UNCHANGED <<bucket, page>>
       \/ driver = "s3fs" /\ S3fs!Step(h)

Next ==
    \/ \E h \in Hosts : Requests(h) /\ UNCHANGED <<bucket, page>>
    \/ \E h \in Hosts : DriverStep(h)
    \/ \E h \in Hosts :
          Crash(h) /\ page' = [page EXCEPT ![h] = S3fs!NoPage] /\ UNCHANGED bucket
    \/ \E v \in Vols : Settle(v) /\ UNCHANGED <<bucket, page>>
    \/ AttachFails /\ UNCHANGED <<bucket, page>>
    \/ \E v \in Vols, k \in Keys : S3fs!Write(v, k)

Init == InitCloud /\ S3fs!InitBuckets

Spec == Init /\ [][Next]_allvars

\* A driver polls for as long as it waits and every provider completes what it has
\* accepted; an error of the provider need not come to end a wait, and a client need
\* not ask for anything.
FairSpec ==
    /\ Spec
    /\ \A v \in Vols : WF_allvars(Settle(v) /\ UNCHANGED <<bucket, page>>)
    /\ \A h \in Hosts :
          WF_allvars(DriverStep(h) /\ faults' = faults)

-----------------------------------------------------------------------------
(* Properties *)

Answered(op, res) == reply.req.op = op /\ reply.res = res

\* No other request concerned the same volume while this one was executed.
Alone == ~reply.req.lap

NoFault == faults = MaxFaults

\* The disks of a FittedCloud volume, or the volume itself.
Parts(v) == {w \in Vols : Exists(w) /\ (v = w \/ (Related(v, w) /\ vol[w].tag))}

\* Drivers that answer before the provider has finished: dobs gives up polling,
\* efs does not wait for the mount target.
Hasty == {"dobs", "efs"}

\* Drivers with which detaching, or removing, takes a volume from every host.
DetachTakes == Zoned \cup {"gcepd", "dobs", "vbox"}
RemoveTakes == {"efs"}

\* Drivers that read a list, change it and write all of it back.
ReadModifyWrite == {"azureud", "isilon", "isilonShared"}

\* Drivers that let several hosts have a volume.
Sharing == {"efs", "isilonShared", "s3fs"}

Holds(v, h) == vol[v].att[h] \in {"attached", "twice"}

\* When VolumeAttach returns without an error, and nobody else dealt with the
\* volume meanwhile, the host has all the disks of the volume; a hasty driver may
\* have been given no more than the promise of the provider.
AttachMeansAttached ==
    Answered("attach", "ok") /\ Alone /\ driver # "s3fs" =>
       \A w \in Parts(reply.req.id) :
          \/ Holds(w, reply.host)
          \/ driver \in Hasty /\ (vol[w].att[reply.host] = "attaching" \/ ~NoFault)

\* When VolumeDetach returns without an error, and nobody else dealt with the
\* volume meanwhile, the host does not have it, and with the drivers whose detach
\* takes the volume from everybody nobody has.  An RBD image that was mapped twice
\* loses one mapping.
DetachMeansDetached ==
    reply.req.op = "detach" /\ reply.res \in {"ok", "nil"} /\ Alone /\ driver \notin {"efs", "s3fs"} =>
       \A w \in Parts(reply.req.id) :
          \A h \in (IF driver \in DetachTakes THEN Hosts ELSE {reply.host}) :
             \/ ~Holds(w, h)
             \/ driver = "rbd" /\ vol[w].raced

\* A host loses a volume it has only to a request for that volume: its own
\* detachment, a forced attachment, or what the driver lets take it from others.
\* The drivers that write back a list they read lose updates of overlapping
\* requests, and only of those.
OnlyDetachersDetach ==
    [][\A v \in Vols, h \in Hosts :
         Holds(v, h) /\ ~Holds(v, h)' =>
            \E k \in Hosts :
               /\ req[k].pc # "idle"
               /\ \/ /\ \/ req[k].id = v
                        \/ driver = "fittedcloud" /\ req[k].name = vol[v].name /\ InZone(k, v)
                     /\ \/ req[k].op = "detach" /\ (k = h \/ req[k].force \/ driver \in DetachTakes)
                        \/ req[k].op = "attach" /\ req[k].force
                        \/ req[k].op = "remove" /\ (req[k].force \/ driver \in RemoveTakes)
                  \/ driver \in ReadModifyWrite /\ req[k].lap]_allvars

\* Two hosts never have the same volume, and no host has it twice, except where
\* the driver shares volumes; on Ceph, which checks nothing, only after a forced
\* attachment or when two requests for the image overlapped.
SingleAttachment ==
    driver \notin Sharing =>
       \A v \in Vols :
          \/ \A h, k \in Attachments(v) : h = k /\ vol[v].att[h] # "twice"
          \/ driver = "rbd" /\ vol[v].raced

\* Two volumes of a zone never have the same name, unless requests that overlapped
\* made them, or one was made from another zone, where the driver does not look.
\* A FittedCloud volume is several disks; with a tag configured EBS looks for a name
\* without the prefix it stores it with, and so finds none of its own volumes.
NamesUnique ==
    driver \notin {"fittedcloud", "ebsTagged"} =>
       \A v, w \in Vols :
          v # w /\ Exists(v) /\ Exists(w) /\ vol[v].zone = vol[w].zone
                /\ vol[v].name # NoName /\ vol[v].name = vol[w].name
          => vol[v].raced \/ vol[w].raced

\* A volume that the driver made and does not recognise as its own: no name, no
\* label, no VHD footer.
Orphan(v) ==
    /\ Exists(v) /\ vol[v].st # "deleting"
    /\ \/ driver \in Elastic /\ vol[v].name = NoName
       \/ driver = "gcepd" /\ Tag /\ ~vol[v].tag
       \/ driver \in {"azureud", "efs"} /\ ~vol[v].tag

\* A half-made volume is one that is being made, or a provider error or a crash
\* left it.  One provider error does not make EFS leak a file system: when
\* VolumeCreate fails because the name could not be set, it is being deleted.
NoOrphans ==
    /\ \A v \in Vols :
         Orphan(v) => \/ ~NoFault
                      \/ \E h \in Hosts : req[h].op = "create" /\ req[h].id = v
    /\ driver = "efs" /\ Answered("create", "err") /\ Alone /\ reply.req.id # NoVol =>
         \/ ~Orphan(reply.req.id)
         \/ faults < MaxFaults - 1


\* The drivers that, when an attachment is forced, find out after the detachment
\* that they cannot attach: there is no device name, the ID of the droplet is not a
\* number, the machine has no free LUN.
Rash(r) ==
    r.force /\ (driver \in {"fittedcloud", "azureud"}
                \/ (driver \in Elastic \cup {"dobs"} /\ ~r.good))

\* An attachment that is refused, without a provider error and without another
\* request for the volume in flight, leaves the attachments of the volume as they
\* were, or, when it was forced with a driver that detaches first and looks later,
\* nobody has the volume any more.  It never gives the volume to somebody.  Of a
\* FittedCloud volume with several disks the host may be left with the first ones.
RefusedAttachKeeps ==
    /\ Answered("attach", "err") /\ Alone /\ NoFault
    /\ driver = "fittedcloud" => Parts(reply.req.id) \subseteq {reply.req.id}
    => \/ Attachments(reply.req.id) = reply.req.had
       \/ Rash(reply.req) /\ \A h \in Hosts : ~Holds(reply.req.id, h)

\* VolumeCreate answers with a volume that was not there before and that nobody
\* has.  Azure writes over a blob of the same name, S3 may create one's own bucket
\* again, and the export of a removed Isilon directory serves a new one of its name.
CreateIsFresh ==
    Answered("create", "ok") /\ Alone /\ driver \notin {"azureud", "s3fs"} =>
       /\ ~reply.req.was
       /\ Exists(reply.req.id)
       /\ driver \notin {"isilon", "isilonShared"} => Attachments(reply.req.id) = {}
       /\ driver \notin ByName => vol[reply.req.id].name = reply.req.name

\* A driver that answers with no volume and no error does so only for a volume
\* that is not there, for the routes dereference what they are given.
AnswersExist ==
    reply.res = "nil" /\ Alone /\ NoFault /\ reply.req.op \in {"create", "attach", "inspect"} =>
       ~Exists(reply.req.id)

\* An answer means what it says; and the variables have their types.
AnswersTrue ==
    TypeOK /\ AttachMeansAttached /\ DetachMeansDetached /\ CreateIsFresh /\ AnswersExist

\* A removal that is not forced, or that fails before it gets to the objects,
\* takes no object out of a bucket; no request but a forced removal does.
ObjectsKept ==
    [][driver = "s3fs" =>
         \A v \in Vols :
            \/ S3fs!Objects(v) \subseteq S3fs!Objects(v)'
            \/ \E h \in Hosts : req[h].op = "remove" /\ req[h].force /\ req[h].id = v]_allvars

\* A forced removal of a bucket without versioning that nobody else uses empties
\* and deletes it, however many pages of objects it holds, unless it is one of
\* us-east-1 and the driver is configured with another region.
ForcedRemoveEmpties ==
    driver = "s3fs" /\ reply.req.op = "remove" /\ reply.req.force /\ reply.req.was /\ Alone
       /\ NoFault /\ ~bucket[reply.req.id].on /\ ~S3fs!Misdirected(reply.req.id)
    => reply.res = "ok" /\ ~Exists(reply.req.id)

\* Every request ends, unless another request for the same volume gets in its way
\* or, with a driver that waits for a state that never comes, the provider fails.
RequestsEnd ==
    \A h \in Hosts :
       req[h].pc # "idle" ~>
          \/ req[h].pc = "idle"
          \/ req[h].lap
          \/ driver \in Zoned /\ ~NoFault
=============================================================================
