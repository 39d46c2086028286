----------------------------- MODULE VfsDriver ------------------------------
(***************************************************************************)
(* The VFS storage driver of one service: a directory of JSON files, one   *)
(* per volume and one per snapshot, two counters in memory that name new   *)
(* files, and a process that may die between creating a file and writing   *)
(* it (drivers/storage/vfs/storage).  The service's worker hands over one  *)
(* request at a time, so at most one file is being written.                *)
(*                                                                         *)
(* A file is named by the numbers of its name: <<3>> is vfs-003.json and   *)
(* <<3, 0>> is vfs-003-000.json.  What a volume holds (zone, size, type,   *)
(* fields) is one value, data.  Every volume and snapshot ever made has a  *)
(* number of its own, obj, which the program does not know.                *)
(***************************************************************************)
EXTENDS Integers, FiniteSets, Sequences

CONSTANTS Instance,     \* clients that attach volumes
          None,         \* a request without an instance ID header
          MaxVolID,     \* bounds: the counters,
          MaxSnapID,
          MaxObjects,   \*   the volumes and snapshots ever made,
          MaxAttach     \*   and the attachments of a volume

ASSUME VfsAssumption ==
  /\ None \notin Instance
  /\ MaxVolID \in Nat /\ MaxSnapID \in Nat /\ MaxObjects \in Nat /\ MaxAttach \in Nat

VARIABLES
  vols,       \* volume ID -> [obj, data, atts]: the files of volPath
  snaps,      \* snapshot ID <<v, n>> -> [obj, data]: the files of snapPath
  torn,       \* files created but not (yet) completely written
  volCount,   \* driver.volCount
  snapCount,  \* driver.snapCount
  up,         \* the process runs
  writing,    \* the file between os.Create and the end of Encode, or <<>>
  born,       \* history: volumes and snapshots made so far
  kept,       \* history: <<obj, file>> answered to a client and not removed
  rewound,    \* history: counters that a restart set back
  caller      \* history: the instance of the last attach or detach

diskVars == <<vols, snaps, torn>>
procVars == <<volCount, snapCount, up, writing>>
vars == <<diskVars, procVars, born, kept, rewound, caller>>

With(f, k, x) == [j \in DOMAIN f \cup {k} |-> IF j = k THEN x ELSE f[j]]
Without(f, k) == [j \in DOMAIN f \ {k} |-> f[j]]

(* getVolumeByID and getSnapshotByID succeed: the file exists and decodes. *)
VolReadable(v) == v \in DOMAIN vols /\ <<v>> \notin torn
SnapReadable(s) == s \in DOMAIN snaps /\ s \notin torn

Idle == up /\ writing = <<>>

Init ==
  /\ vols = [v \in {} |-> None]
  /\ snaps = [s \in {} |-> None]
  /\ torn = {}
  /\ volCount = -1 /\ snapCount = -1
  /\ up = TRUE
  /\ writing = <<>>
  /\ born = 0
  /\ kept = {}
  /\ rewound = {}
  /\ caller = None

-----------------------------------------------------------------------------
(* Writing a file *)

(* writeVolume, up to os.Create: the file is there and has no content. *)
WriteVolume(v, content) ==
  /\ vols' = With(vols, v, content)
  /\ torn' = torn \cup {<<v>>}
  /\ writing' = <<v>>

WriteSnapshot(s, content) ==
  /\ snaps' = With(snaps, s, content)
  /\ torn' = torn \cup {s}
  /\ writing' = s

(* A mutant: the identifier is taken before the counter is incremented. *)
NewVolumeIDBefore(content) ==
  /\ volCount < MaxVolID
  /\ volCount' = volCount + 1
  /\ \/ WriteVolume(IF volCount < 0 THEN 0 ELSE volCount, content)
     \/ UNCHANGED <<vols, torn, writing>>

(* A mutant: the identifier is the number of files there are. *)
NewVolumeIDFiles(content) ==
  /\ volCount < MaxVolID
  /\ volCount' = volCount + 1
  /\ \/ WriteVolume(Cardinality(DOMAIN vols), content)
     \/ UNCHANGED <<vols, torn, writing>>

(* newVolumeID, and the creation of the file it names, which may fail. *)
NewVolume(content) ==
  /\ volCount < MaxVolID
  /\ volCount' = volCount + 1
  /\ \/ WriteVolume(volCount + 1, content)
     \/ UNCHANGED <<vols, torn, writing>>

(* newSnapshotID, and the creation of the file it names. *)
NewSnapshot(v, content) ==
  /\ snapCount < MaxSnapID
  /\ snapCount' = snapCount + 1
  /\ \/ WriteSnapshot(<<v, snapCount + 1>>, content)
     \/ UNCHANGED <<snaps, torn, writing>>

(* The rest of a write, and the answer to the client. *)
Encode ==
  /\ up /\ writing # <<>>
  /\ torn' = torn \ {writing}
  /\ kept' = kept \cup
       {<<IF Len(writing) = 1 THEN vols[writing[1]].obj ELSE snaps[writing].obj, writing>>}
  /\ writing' = <<>>
  /\ UNCHANGED <<vols, snaps, volCount, snapCount, up, born, rewound, caller>>

(* Encode fails and the client is answered with the error; the file stays  *)
(* as it is.                                                               *)
EncodeFails ==
  /\ up /\ writing # <<>>
  /\ writing' = <<>>
  /\ UNCHANGED <<diskVars, volCount, snapCount, up, born, kept, rewound, caller>>

-----------------------------------------------------------------------------
(* Operations *)

VolumeCreate ==
  /\ Idle /\ born < MaxObjects
  /\ NewVolume([obj |-> born, data |-> born, atts |-> <<>>])
  /\ born' = born + 1
  /\ UNCHANGED <<snaps, snapCount, up, kept, rewound, caller>>

VolumeCopy(v) ==
  /\ Idle /\ born < MaxObjects
  /\ VolReadable(v)
  /\ NewVolume([obj |-> born, data |-> vols[v].data, atts |-> <<>>])
  /\ born' = born + 1
  /\ UNCHANGED <<snaps, snapCount, up, kept, rewound, caller>>

(* The new volume is made from the volume the snapshot names, as that      *)
(* volume is now: the snapshot's own fields are not used.                  *)
VolumeCreateFromSnapshot(s) ==
  /\ Idle /\ born < MaxObjects
  /\ SnapReadable(s) /\ VolReadable(s[1])
  /\ NewVolume([obj |-> born, data |-> vols[s[1]].data, atts |-> <<>>])
  /\ born' = born + 1
  /\ UNCHANGED <<snaps, snapCount, up, kept, rewound, caller>>

VolumeSnapshot(v) ==
  /\ Idle /\ born < MaxObjects
  /\ VolReadable(v)
  /\ NewSnapshot(v, [obj |-> born, data |-> vols[v].data])
  /\ born' = born + 1
  /\ UNCHANGED <<vols, volCount, up, kept, rewound, caller>>

SnapshotCopy(s) ==
  /\ Idle /\ born < MaxObjects
  /\ SnapReadable(s)
  /\ NewSnapshot(s[1], [obj |-> born, data |-> snaps[s].data])
  /\ born' = born + 1
  /\ UNCHANGED <<vols, volCount, up, kept, rewound, caller>>

(* Removing asks only whether the file exists. *)
VolumeRemove(v) ==
  /\ Idle
  /\ v \in DOMAIN vols
  /\ vols' = Without(vols, v)
  /\ torn' = torn \ {<<v>>}
  /\ kept' = {k \in kept : k[2] # <<v>>}
  /\ UNCHANGED <<snaps, procVars, born, rewound, caller>>

SnapshotRemove(s) ==
  /\ Idle
  /\ s \in DOMAIN snaps
  /\ snaps' = Without(snaps, s)
  /\ torn' = torn \ {s}
  /\ kept' = {k \in kept : k[2] # s}
  /\ UNCHANGED <<vols, procVars, born, rewound, caller>>

(* A volume with other attachments. *)
Attachments(v, atts) == [obj |-> vols[v].obj, data |-> vols[v].data, atts |-> atts]

(* An attachment is appended whatever attachments there are. *)
VolumeAttach(i, v) ==
  /\ Idle
  /\ VolReadable(v) /\ Len(vols[v].atts) < MaxAttach
  /\ WriteVolume(v, Attachments(v, Append(vols[v].atts, i)))
  /\ caller' = i
  /\ UNCHANGED <<snaps, volCount, snapCount, up, born, kept, rewound>>

(* The attachments without the one at position y. *)
Cut(atts, y) == SubSeq(atts, 1, y - 1) \o SubSeq(atts, y + 1, Len(atts))

FirstOf(atts, i) ==
  CHOOSE y \in DOMAIN atts : atts[y] = i /\ \A x \in 1 .. (y - 1) : atts[x] # i

(* A mutant: the last attachment is cut, whoever made it. *)
VolumeDetachLast(i, v) ==
  /\ Idle
  /\ VolReadable(v)
  /\ \E y \in DOMAIN vols[v].atts : vols[v].atts[y] = i
  /\ WriteVolume(v, Attachments(v, Cut(vols[v].atts, Len(vols[v].atts))))
  /\ caller' = i
  /\ UNCHANGED <<snaps, volCount, snapCount, up, born, kept, rewound>>

(* The first attachment of the caller is cut; without one nothing is       *)
(* written.                                                                *)
VolumeDetach(i, v) ==
  /\ Idle
  /\ VolReadable(v)
  /\ IF \E y \in DOMAIN vols[v].atts : vols[v].atts[y] = i
     THEN WriteVolume(v, Attachments(v, Cut(vols[v].atts, FirstOf(vols[v].atts, i))))
     ELSE UNCHANGED <<vols, torn, writing>>
  /\ caller' = i
  /\ UNCHANGED <<snaps, volCount, snapCount, up, born, kept, rewound>>

-----------------------------------------------------------------------------
(* The process *)

Crash ==
  /\ up
  /\ up' = FALSE
  /\ writing' = <<>>
  /\ UNCHANGED <<diskVars, volCount, snapCount, born, kept, rewound, caller>>

(* driver.Init in a new process: the counters start from the number of     *)
(* files, torn ones included.                                              *)
Restart ==
  /\ ~up
  /\ up' = TRUE
  /\ volCount' = Cardinality(DOMAIN vols) - 1
  /\ snapCount' = Cardinality(DOMAIN snaps) - 1
  /\ rewound' = rewound \cup {k \in {"vol", "snap"} :
       IF k = "vol" THEN volCount' < volCount ELSE snapCount' < snapCount}
  /\ UNCHANGED <<diskVars, writing, born, kept, caller>>

Next ==
  \/ Encode \/ EncodeFails \/ Crash \/ Restart
  \/ VolumeCreate
  \/ \E v \in DOMAIN vols : VolumeCopy(v) \/ VolumeSnapshot(v) \/ VolumeRemove(v)
  \/ \E s \in DOMAIN snaps : VolumeCreateFromSnapshot(s) \/ SnapshotCopy(s) \/ SnapshotRemove(s)
  \/ \E i \in Instance, v \in DOMAIN vols : VolumeAttach(i, v) \/ VolumeDetach(i, v)

Spec == Init /\ [][Next]_vars

-----------------------------------------------------------------------------
(* Listing volumes.  A mask of attachment bits is the set of its bits. *)

Bits == {"requested", "mine", "devices", "attached", "unattached"}
RequiresInstanceID(mask) == "mine" \in mask \/ "devices" \in mask

(* The volumes a caller may ask for, with or without an instance ID. *)
Query == {q \in (SUBSET Bits) \X (Instance \cup {None}) :
            q[1] # {} /\ (RequiresInstanceID(q[1]) => q[2] # None)}

(* The positions of an instance's attachments. *)
Of(atts, i) == {y \in DOMAIN atts : atts[y] = i}

(* The driver's part of a listing: with "mine" the attachments of other    *)
(* instances are dropped (the places of the others do not matter).         *)
Volumes(v, mask, iid) ==
  LET atts == vols[v].atts IN
  IF "mine" \in mask THEN [y \in Of(atts, iid) |-> atts[y]] ELSE atts

(* A listing can be answered: no file of a volume fails to decode. *)
Listable == Idle /\ \A v \in DOMAIN vols : VolReadable(v)

(* handleVolAttachments: the state it computes from the attachments, *)
AttachmentState(atts, iid) ==
  IF atts = <<>> THEN "available"
  ELSE IF \E y \in DOMAIN atts : atts[y] = iid THEN "attached" ELSE "unavailable"

(* A mutant: only volumes of nobody are omitted from the caller's own. *)
IncludedUnavailable(st, mask) ==
  /\ ~(st = "available" /\ "attached" \in mask /\ "unattached" \notin mask)
  /\ ~(st \in {"attached", "unavailable"} /\ "attached" \notin mask /\ "unattached" \in mask /\ "mine" \in mask)

(* and whether the volume is part of the reply. *)
Included(st, mask) ==
  /\ ~(st = "available" /\ "attached" \in mask /\ "unattached" \notin mask)
  /\ ~(st \in {"attached", "unavailable"} /\ "attached" \notin mask /\ "unattached" \in mask)
  /\ ~(/\ {"mine", "attached"} \subseteq mask
       /\ (st = "available" /\ "unattached" \notin mask) \/ st = "unavailable")

StateOf(v, q) == AttachmentState(Volumes(v, q[1], q[2]), q[2])
Attached(v, i) == \E y \in DOMAIN vols[v].atts : vols[v].atts[y] = i

-----------------------------------------------------------------------------
(* Properties *)

(* Every variable has its type, and only files that exist are torn. *)
TypeOK ==
  /\ DOMAIN vols \subseteq 0 .. MaxVolID
  /\ \A v \in DOMAIN vols : vols[v] \in [obj : Nat, data : Nat, atts : Seq(Instance)]
  /\ DOMAIN snaps \subseteq (0 .. MaxVolID) \X (0 .. MaxSnapID)
  /\ \A s \in DOMAIN snaps : snaps[s] \in [obj : Nat, data : Nat]
  /\ torn \subseteq {<<v>> : v \in DOMAIN vols} \cup DOMAIN snaps
  /\ volCount \in -1 .. MaxVolID /\ snapCount \in -1 .. MaxSnapID
  /\ up \in BOOLEAN
  /\ writing \in torn \cup {<<>>}
  /\ born \in 0 .. MaxObjects
  /\ rewound \subseteq {"vol", "snap"}

(* What VolumeCreate, VolumeCopy, VolumeSnapshot and the like answered and *)
(* no remove took away is still the object its file stands for, as long as *)
(* no restart set back the counter of such files: nothing overwrites it.   *)
AcknowledgedKept ==
  \A k \in kept :
    /\ Len(k[2]) = 1 /\ "vol" \notin rewound =>
         k[2][1] \in DOMAIN vols /\ vols[k[2][1]].obj = k[1]
    /\ Len(k[2]) = 2 /\ "snap" \notin rewound =>
         k[2] \in DOMAIN snaps /\ snaps[k[2]].obj = k[1]

(* VolumeCreateFromSnapshot, which reads the volume a snapshot names and   *)
(* not the snapshot, makes a volume of what the snapshot was taken from,   *)
(* as long as no restart set back the volume counter.                      *)
RestoreFaithful ==
  "vol" \notin rewound =>
    \A s \in DOMAIN snaps : s[1] \in DOMAIN vols => vols[s[1]].data = snaps[s].data

(* VolumeAttach and VolumeDetach change the attachments of their caller    *)
(* and of no other instance: as long as a file stands for the same volume, *)
(* all others keep theirs.                                                 *)
OthersKeepAttachments ==
  [][\A v \in DOMAIN vols \cap DOMAIN vols' :
       vols'[v].obj = vols[v].obj =>
         \A j \in Instance \ {caller'} :
           Cardinality(Of(vols'[v].atts, j)) = Cardinality(Of(vols[v].atts, j))]_vars

(* What a listing says is true of the files.  For every mask, "attached"   *)
(* means attached to the caller and no volume of the caller's is missing   *)
(* unless only unattached ones were asked for; a listing of attached       *)
(* volumes alone has no unattached one, and with "mine" no other           *)
(* instance's; without "mine" a listing of unattached volumes alone has    *)
(* no attached one.                                                        *)
ListingHonest ==
  Listable => \A v \in DOMAIN vols, q \in Query :
    LET mask == q[1]
        in == Included(StateOf(v, q), mask)
        only == "attached" \in mask /\ "unattached" \notin mask
        free == "unattached" \in mask /\ "attached" \notin mask
    IN /\ StateOf(v, q) = "attached" <=> Attached(v, q[2])
       /\ Attached(v, q[2]) /\ ~free => in
       /\ in /\ only => vols[v].atts # <<>> /\ ("mine" \in mask => Attached(v, q[2]))
       /\ in /\ free => ~Attached(v, q[2]) /\ ("mine" \notin mask => vols[v].atts = <<>>)

(* The comment on Volume.ID: it identifies the volume uniquely on its      *)
(* storage platform.  Two volumes that were both answered to clients and   *)
(* not removed never share an ID.                                          *)
VolumeIDUnique ==
  \A k, l \in kept : Len(k[2]) = 1 /\ k[2] = l[2] => k[1] = l[1]

(* The comment on VolumeAvailable: the volume is not attached to any       *)
(* instance.                                                               *)
AvailableMeansUnattached ==
  Listable => \A v \in DOMAIN vols, q \in Query :
    StateOf(v, q) = "available" /\ Included("available", q[1]) => vols[v].atts = <<>>
=============================================================================
