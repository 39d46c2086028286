-------------------------- MODULE VfsDriverProofs ---------------------------
(***************************************************************************)
(* For any number of volumes, snapshots, instances and restarts: no file   *)
(* that a client was told of is overwritten, and no snapshot comes to name *)
(* another volume than its own, until a restart sets back a counter; an    *)
(* instance attaches and detaches for itself only; and what a listing says *)
(* is true of the files.                                                   *)
(***************************************************************************)
EXTENDS VfsDriver, FiniteSetTheorems, TLAPS

\* Most leaves are first-order reasoning about sets, functions and records; the
\* others cite SMT.
USE Zenon

(* The shapes of the state that the naming of files needs. *)
Shape ==
  /\ volCount \in Int /\ volCount >= -1
  /\ snapCount \in Int /\ snapCount >= -1
  /\ IsFiniteSet(DOMAIN vols) /\ DOMAIN vols \subseteq Nat
  /\ IsFiniteSet(DOMAIN snaps) /\ DOMAIN snaps \subseteq Nat \X Nat
  /\ writing = <<>> \/ writing \in DOMAIN snaps \/ \E v \in DOMAIN vols : writing = <<v>>

(* Every name in use was given out by the present count of its counter. *)
Named ==
  /\ "vol" \notin rewound =>
       /\ \A v \in DOMAIN vols : v <= volCount
       /\ \A s \in DOMAIN snaps : s[1] <= volCount
  /\ "snap" \notin rewound => \A s \in DOMAIN snaps : s[2] <= snapCount

(* What is answered for is a file name. *)
Answered == \A k \in kept : k[2] \in Nat \X Nat \/ \E n \in Nat : k[2] = <<n>>

IInv == Shape /\ Named /\ Answered /\ AcknowledgedKept /\ RestoreFaithful

-----------------------------------------------------------------------------
(* The name of a volume's file is never that of a snapshot's. *)
LEMMA Names ==
  /\ \A v : Len(<<v>>) = 1 /\ <<v>>[1] = v
  /\ \A s \in Nat \X Nat : Len(s) = 2 /\ s = <<s[1], s[2]>> /\ s[1] \in Nat /\ s[2] \in Nat
BY SMT

(* The initial directory is empty. *)
LEMMA InitIInv == Init => IInv
<1> SUFFICES ASSUME Init PROVE IInv
  OBVIOUS
<1>1. DOMAIN vols = {} /\ DOMAIN snaps = {}
  BY DEF Init
<1>2. Shape
  BY <1>1, FS_EmptySet, SMT DEF Init, Shape
<1> QED
  BY <1>1, <1>2 DEF Init, IInv, Named, Answered, AcknowledgedKept, RestoreFaithful

-----------------------------------------------------------------------------
(* A volume of a new number is created, or its file cannot be. *)
LEMMA NewVolumeStep ==
  ASSUME IInv, NEW c, NewVolume(c),
         UNCHANGED <<snaps, snapCount, kept, rewound>>, writing = <<>>
  PROVE  IInv'
<1>1. volCount' = volCount + 1 /\ volCount \in Int /\ volCount >= -1 /\ volCount' \in Nat
  BY SMT DEF NewVolume, IInv, Shape
<1>2. CASE UNCHANGED <<vols, torn, writing>>
  <2>1. Shape'
    BY <1>1, <1>2, SMT DEF IInv, Shape
  <2>2. Named'
    BY <1>1, <1>2, Names, SMT DEF IInv, Shape, Named
  <2> QED
    BY <1>2, <2>1, <2>2 DEF IInv, Answered, AcknowledgedKept, RestoreFaithful
<1>3. CASE WriteVolume(volCount + 1, c)
  <2>1. /\ DOMAIN vols' = DOMAIN vols \cup {volCount'}
        /\ vols'[volCount'] = c
        /\ \A v \in DOMAIN vols : v # volCount' => vols'[v] = vols[v]
        /\ writing' = <<volCount'>>
    BY <1>1, <1>3 DEF WriteVolume, With
  <2>2. IsFiniteSet(DOMAIN vols')
    <3>1. IsFiniteSet(DOMAIN vols)
      BY DEF IInv, Shape
    <3>2. IsFiniteSet(DOMAIN vols \cup {volCount'})
      BY <3>1, FS_AddElement
    <3> QED
      BY <2>1, <3>2
  <2>3. Shape'
    BY <1>1, <2>1, <2>2, SMT DEF IInv, Shape
  <2>4. Named'
    BY <1>1, <2>1, Names, SMT DEF IInv, Shape, Named
  <2>5. "vol" \notin rewound => volCount' \notin DOMAIN vols /\ \A s \in DOMAIN snaps : s[1] # volCount'
    BY <1>1, Names, SMT DEF IInv, Shape, Named
  <2>6. AcknowledgedKept'
    BY <2>1, <2>5 DEF IInv, AcknowledgedKept
  <2>7. RestoreFaithful'
    BY <2>1, <2>5 DEF IInv, RestoreFaithful
  <2> QED
    BY <2>3, <2>4, <2>6, <2>7 DEF IInv, Answered
<1> QED
  BY <1>2, <1>3 DEF NewVolume

(* A snapshot of an existing volume's name is created, or cannot be. *)
LEMMA NewSnapshotStep ==
  ASSUME IInv, NEW c, NEW v \in Nat, NewSnapshot(v, c),
         "vol" \notin rewound => v <= volCount /\ (v \in DOMAIN vols => vols[v].data = c.data),
         UNCHANGED <<vols, volCount, kept, rewound>>, writing = <<>>
  PROVE  IInv'
<1>1. snapCount' = snapCount + 1 /\ snapCount \in Int /\ snapCount >= -1 /\ snapCount' \in Nat
  BY SMT DEF NewSnapshot, IInv, Shape
<1>2. CASE UNCHANGED <<snaps, torn, writing>>
  <2>1. Shape'
    BY <1>1, <1>2, SMT DEF IInv, Shape
  <2>2. Named'
    BY <1>1, <1>2, Names, SMTT(30) DEF IInv, Shape, Named
  <2> QED
    BY <1>2, <2>1, <2>2 DEF IInv, Answered, AcknowledgedKept, RestoreFaithful
<1>3. CASE WriteSnapshot(<<v, snapCount + 1>>, c)
  <2> DEFINE n == <<v, snapCount + 1>>
  <2>1. /\ DOMAIN snaps' = DOMAIN snaps \cup {n}
        /\ snaps'[n] = c
        /\ \A s \in DOMAIN snaps : s # n => snaps'[s] = snaps[s]
        /\ writing' = n
    BY <1>3 DEF WriteSnapshot, With
  <2>2. IsFiniteSet(DOMAIN snaps')
    <3>1. IsFiniteSet(DOMAIN snaps)
      BY DEF IInv, Shape
    <3>2. IsFiniteSet(DOMAIN snaps \cup {n})
      BY <3>1, FS_AddElement
    <3> QED
      BY <2>1, <3>2
  <2>3. n \in Nat \X Nat /\ n[1] = v /\ n[2] = snapCount'
    BY <1>1
  <2> HIDE DEF n
  <2>4. Shape'
    BY <1>1, <2>1, <2>3, <2>2, SMT DEF IInv, Shape
  <2>5. Named'
    BY <1>1, <2>1, <2>3, Names, SMT DEF IInv, Shape, Named
  <2>6. "snap" \notin rewound => n \notin DOMAIN snaps
    BY <1>1, <2>3, Names, SMT DEF IInv, Shape, Named
  <2>7. AcknowledgedKept'
    BY <2>1, <2>6 DEF IInv, AcknowledgedKept
  <2>8. RestoreFaithful'
    BY <2>1, <2>3 DEF IInv, RestoreFaithful
  <2> QED
    BY <2>4, <2>5, <2>7, <2>8 DEF IInv, Answered
<1> QED
  BY <1>2, <1>3 DEF NewSnapshot

(* The attachments of a volume are rewritten. *)
LEMMA RewriteStep ==
  ASSUME IInv, NEW v \in DOMAIN vols, NEW a, WriteVolume(v, Attachments(v, a)),
         UNCHANGED <<snaps, volCount, snapCount, kept, rewound>>
  PROVE  IInv'
<1>1. /\ DOMAIN vols' = DOMAIN vols
      /\ vols'[v] = Attachments(v, a)
      /\ \A w \in DOMAIN vols : w # v => vols'[w] = vols[w]
      /\ writing' = <<v>>
  BY DEF WriteVolume, With
<1>2. Shape'
  BY <1>1 DEF IInv, Shape
<1>3. Named'
  BY <1>1 DEF IInv, Named
<1>4. \A w \in DOMAIN vols : vols'[w].obj = vols[w].obj /\ vols'[w].data = vols[w].data
  BY <1>1, SMT DEF Attachments
<1>5. AcknowledgedKept' /\ RestoreFaithful'
  BY <1>1, <1>4 DEF IInv, AcknowledgedKept, RestoreFaithful
<1> QED
  BY <1>2, <1>3, <1>5 DEF IInv, Answered

(* The files, their names and what was answered for them stay. *)
LEMMA FrameStep ==
  ASSUME IInv, UNCHANGED <<vols, snaps, volCount, snapCount, kept, rewound>>,
         writing' \in {writing, <<>>}
  PROVE  IInv'
BY DEF IInv, Shape, Named, Answered, AcknowledgedKept, RestoreFaithful

(* A written file is answered for under the name it has. *)
LEMMA EncodeStep == IInv /\ Encode => IInv'
<1> SUFFICES ASSUME IInv, Encode PROVE IInv'
  OBVIOUS
<1>1. /\ UNCHANGED <<vols, snaps, volCount, snapCount, rewound>>
      /\ writing # <<>> /\ writing' = <<>>
  BY DEF Encode
<1>2. Shape' /\ Named' /\ RestoreFaithful'
  BY <1>1 DEF IInv, Shape, Named, RestoreFaithful
<1>3. CASE writing \in DOMAIN snaps
  <2>1. Len(writing) = 2
    BY <1>3, Names DEF IInv, Shape
  <2>2. kept' = kept \cup {<<snaps[writing].obj, writing>>}
    BY <2>1, SMT DEF Encode
  <2>3. AcknowledgedKept'
    BY <1>1, <1>3, <2>1, <2>2, SMT DEF IInv, AcknowledgedKept
  <2>4. Answered'
    BY <1>3, <2>2, SMT DEF IInv, Shape, Answered
  <2> QED
    BY <1>2, <2>3, <2>4 DEF IInv
<1>4. ASSUME NEW v \in DOMAIN vols, writing = <<v>> PROVE IInv'
  <2>1. Len(writing) = 1 /\ writing[1] = v
    BY <1>4, Names
  <2>2. kept' = kept \cup {<<vols[v].obj, writing>>}
    BY <2>1 DEF Encode
  <2>3. AcknowledgedKept'
    BY <1>1, <1>4, <2>1, <2>2, SMT DEF IInv, AcknowledgedKept
  <2>4. Answered'
    BY <1>4, <2>2, SMT DEF IInv, Shape, Answered
  <2> QED
    BY <1>2, <2>3, <2>4 DEF IInv
<1> QED
  BY <1>1, <1>3, <1>4 DEF IInv, Shape

(* A file is removed with what was answered for it. *)
LEMMA VolumeRemoveStep ==
  ASSUME IInv, NEW v \in DOMAIN vols, VolumeRemove(v)
  PROVE  IInv'
<1>1. /\ UNCHANGED <<snaps, volCount, snapCount, writing, rewound>>
      /\ writing = <<>>
      /\ kept' = {k \in kept : k[2] # <<v>>}
  BY DEF VolumeRemove, Idle, procVars
<1>2. /\ DOMAIN vols' = DOMAIN vols \ {v}
      /\ \A w \in DOMAIN vols' : vols'[w] = vols[w]
  BY DEF VolumeRemove, Without
<1>3. IsFiniteSet(DOMAIN vols')
  BY <1>2, FS_Subset DEF IInv, Shape
<1>4. Shape' /\ Named' /\ RestoreFaithful'
  BY <1>1, <1>2, <1>3 DEF IInv, Shape, Named, RestoreFaithful
<1>5. Answered'
  BY <1>1 DEF IInv, Answered
<1>6. ASSUME NEW k \in kept' PROVE k \in kept /\ (Len(k[2]) = 1 => k[2][1] # v)
  BY <1>1, <1>6, Names, SMT DEF IInv, Answered
<1>7. AcknowledgedKept'
  BY <1>1, <1>2, <1>6, ZenonT(60) DEF IInv, AcknowledgedKept
<1> QED
  BY <1>4, <1>5, <1>7 DEF IInv

LEMMA SnapshotRemoveStep ==
  ASSUME IInv, NEW s \in DOMAIN snaps, SnapshotRemove(s)
  PROVE  IInv'
<1>1. /\ UNCHANGED <<vols, volCount, snapCount, writing, rewound>>
      /\ writing = <<>>
      /\ kept' = {k \in kept : k[2] # s}
  BY DEF SnapshotRemove, Idle, procVars
<1>2. /\ DOMAIN snaps' = DOMAIN snaps \ {s}
      /\ \A w \in DOMAIN snaps' : snaps'[w] = snaps[w]
  BY DEF SnapshotRemove, Without
<1>3. IsFiniteSet(DOMAIN snaps')
  BY <1>2, FS_Subset DEF IInv, Shape
<1>4. Shape' /\ Named' /\ RestoreFaithful'
  BY <1>1, <1>2, <1>3 DEF IInv, Shape, Named, RestoreFaithful
<1>5. AcknowledgedKept' /\ Answered'
  BY <1>1, <1>2, ZenonT(60) DEF IInv, AcknowledgedKept, Answered
<1> QED
  BY <1>4, <1>5 DEF IInv

(* A restart that does not set a counter back leaves every name below it. *)
LEMMA RestartStep == IInv /\ Restart => IInv'
<1> SUFFICES ASSUME IInv, Restart PROVE IInv'
  OBVIOUS
<1>1. /\ UNCHANGED <<vols, snaps, writing, kept>>
      /\ volCount' = Cardinality(DOMAIN vols) - 1
      /\ snapCount' = Cardinality(DOMAIN snaps) - 1
  BY DEF Restart, diskVars
<1>2. Cardinality(DOMAIN vols) \in Nat /\ Cardinality(DOMAIN snaps) \in Nat
  BY FS_CardinalityType DEF IInv, Shape
<1>3. /\ volCount' \in Int /\ volCount' >= -1 /\ volCount \in Int
      /\ snapCount' \in Int /\ snapCount' >= -1 /\ snapCount \in Int
  BY <1>1, <1>2, SMT DEF IInv, Shape
<1>4. /\ rewound \subseteq rewound'
      /\ "vol" \notin rewound' => ~(volCount' < volCount)
      /\ "snap" \notin rewound' => ~(snapCount' < snapCount)
  BY DEF Restart
<1>5. Shape'
  BY <1>1, <1>3 DEF IInv, Shape
<1>6. Named'
  BY <1>1, <1>3, <1>4, Names, SMTT(30) DEF IInv, Shape, Named
<1>7. AcknowledgedKept' /\ RestoreFaithful'
  BY <1>1, <1>4 DEF IInv, AcknowledgedKept, RestoreFaithful
<1> QED
  BY <1>1, <1>5, <1>6, <1>7 DEF IInv, Answered

-----------------------------------------------------------------------------
(* Every step of the driver keeps the invariant. *)
LEMMA NextIInv == IInv /\ [Next]_vars => IInv'
<1> SUFFICES ASSUME IInv, [Next]_vars PROVE IInv'
  OBVIOUS
<1>1. CASE Encode
  BY <1>1, EncodeStep
<1>2. CASE EncodeFails
  BY <1>2, FrameStep DEF EncodeFails, diskVars
<1>3. CASE Crash
  BY <1>3, FrameStep DEF Crash, diskVars
<1>4. CASE Restart
  BY <1>4, RestartStep
<1>5. CASE VolumeCreate
  BY <1>5, NewVolumeStep DEF VolumeCreate, Idle
<1>6. ASSUME NEW v \in DOMAIN vols, VolumeCopy(v) PROVE IInv'
  BY <1>6, NewVolumeStep DEF VolumeCopy, Idle
<1>7. ASSUME NEW s \in DOMAIN snaps, VolumeCreateFromSnapshot(s) PROVE IInv'
  BY <1>7, NewVolumeStep DEF VolumeCreateFromSnapshot, Idle
<1>8. ASSUME NEW v \in DOMAIN vols, VolumeSnapshot(v) PROVE IInv'
  <2>1. PICK c : c = [obj |-> born, data |-> vols[v].data]
    OBVIOUS
  <2>2. c.data = vols[v].data
    BY <2>1
  <2>3. NewSnapshot(v, c) /\ UNCHANGED <<vols, volCount, kept, rewound>> /\ writing = <<>>
    BY <1>8, <2>1 DEF VolumeSnapshot, Idle
  <2>4. v \in Nat /\ ("vol" \notin rewound => v <= volCount)
    BY DEF IInv, Shape, Named
  <2> QED
    BY <2>2, <2>3, <2>4, NewSnapshotStep
<1>9. ASSUME NEW s \in DOMAIN snaps, SnapshotCopy(s) PROVE IInv'
  <2>1. PICK c : c = [obj |-> born, data |-> snaps[s].data]
    OBVIOUS
  <2>2. c.data = snaps[s].data
    BY <2>1
  <2>3. NewSnapshot(s[1], c) /\ UNCHANGED <<vols, volCount, kept, rewound>> /\ writing = <<>>
    BY <1>9, <2>1 DEF SnapshotCopy, Idle
  <2>4. s[1] \in Nat
    BY Names DEF IInv, Shape
  <2>5. "vol" \notin rewound => s[1] <= volCount /\ (s[1] \in DOMAIN vols => vols[s[1]].data = c.data)
    BY <2>2 DEF IInv, Named, RestoreFaithful
  <2> QED
    BY <2>3, <2>4, <2>5, NewSnapshotStep
<1>10. ASSUME NEW v \in DOMAIN vols, VolumeRemove(v) PROVE IInv'
  BY <1>10, VolumeRemoveStep
<1>11. ASSUME NEW s \in DOMAIN snaps, SnapshotRemove(s) PROVE IInv'
  BY <1>11, SnapshotRemoveStep
<1>12. ASSUME NEW i \in Instance, NEW v \in DOMAIN vols, VolumeAttach(i, v) PROVE IInv'
  BY <1>12, RewriteStep DEF VolumeAttach
<1>13. ASSUME NEW i \in Instance, NEW v \in DOMAIN vols, VolumeDetach(i, v) PROVE IInv'
  <2>1. CASE UNCHANGED <<vols, torn, writing>>
    BY <1>13, <2>1, FrameStep DEF VolumeDetach
  <2>2. CASE WriteVolume(v, Attachments(v, Cut(vols[v].atts, FirstOf(vols[v].atts, i))))
    BY <1>13, <2>2, RewriteStep DEF VolumeDetach
  <2> QED
    BY <1>13, <2>1, <2>2 DEF VolumeDetach
<1>14. CASE UNCHANGED vars
  BY <1>14, FrameStep DEF vars, diskVars, procVars
<1> QED
  BY <1>1, <1>2, <1>3, <1>4, <1>5, <1>6, <1>7, <1>8, <1>9, <1>10, <1>11, <1>12, <1>13, <1>14 DEF Next

(* In every behaviour of the driver, names and answers agree. *)
THEOREM AlwaysIInv == Spec => []IInv
BY InitIInv, NextIInv, PTL DEF Spec

(* No volume or snapshot that was answered to a client is overwritten by   *)
(* newVolumeID or newSnapshotID giving its name out again, for as long as  *)
(* no restart counted fewer files than the counter had reached.            *)
THEOREM NothingOverwritten == Spec => []AcknowledgedKept
<1>1. IInv => AcknowledgedKept
  BY DEF IInv
<1> QED
  BY <1>1, AlwaysIInv, PTL

(* Under the same condition VolumeCreateFromSnapshot makes a volume of the *)
(* volume that the snapshot was taken of.                                  *)
THEOREM SnapshotsNameTheirVolume == Spec => []RestoreFaithful
<1>1. IInv => RestoreFaithful
  BY DEF IInv
<1> QED
  BY <1>1, AlwaysIInv, PTL

-----------------------------------------------------------------------------
(* Attachments *)

(* A volume on disk is not newer than the last one made, so a file that is *)
(* written anew stands for another volume.                                 *)
Contents ==
  /\ born \in Nat
  /\ \A v \in DOMAIN vols : /\ vols[v].obj \in Nat /\ vols[v].obj < born
                             /\ vols[v].atts \in Seq(Instance)

(* Everybody but i has v attached as often as before. *)
Undisturbed(i) ==
  \A v \in DOMAIN vols \cap DOMAIN vols' :
    vols'[v].obj = vols[v].obj =>
      \A j \in Instance \ {i} :
        Cardinality(Of(vols'[v].atts, j)) = Cardinality(Of(vols[v].atts, j))

(* One attachment more. *)
LEMMA AppendKeepsOthers ==
  ASSUME NEW a \in Seq(Instance), NEW i \in Instance, NEW j \in Instance \ {i}
  PROVE  /\ Append(a, i) \in Seq(Instance)
         /\ Of(Append(a, i), j) = Of(a, j)
<1>1. /\ Append(a, i) \in Seq(Instance) /\ Len(Append(a, i)) = Len(a) + 1
      /\ \A x \in 1 .. Len(a) : Append(a, i)[x] = a[x]
      /\ Append(a, i)[Len(a) + 1] = i
  BY SMT
<1>2. DOMAIN a = 1 .. Len(a) /\ DOMAIN Append(a, i) = 1 .. (Len(a) + 1) /\ Len(a) \in Nat
  BY <1>1, SMT
<1> QED
  BY <1>1, <1>2, SMT DEF Of

(* What the concatenation of two sequences is. *)
LEMMA Concat ==
  ASSUME NEW S, NEW s \in Seq(S), NEW t \in Seq(S)
  PROVE  /\ s \o t \in Seq(S)
         /\ Len(s \o t) = Len(s) + Len(t)
         /\ \A x \in 1 .. Len(s) + Len(t) :
              (s \o t)[x] = IF x <= Len(s) THEN s[x] ELSE t[x - Len(s)]
BY SMT

(* What Cut returns. *)
LEMMA CutProperties ==
  ASSUME NEW a \in Seq(Instance), NEW y \in DOMAIN a
  PROVE  /\ Cut(a, y) \in Seq(Instance)
         /\ Len(Cut(a, y)) = Len(a) - 1
         /\ \A x \in 1 .. (Len(a) - 1) : Cut(a, y)[x] = IF x < y THEN a[x] ELSE a[x + 1]
<1> DEFINE s == SubSeq(a, 1, y - 1)
           t == SubSeq(a, y + 1, Len(a))
<1>1. Len(a) \in Nat /\ y \in 1 .. Len(a) /\ \A x \in 1 .. Len(a) : a[x] \in Instance
  BY SMT
<1>2. /\ s \in Seq(Instance) /\ Len(s) = y - 1
      /\ \A x \in 1 .. (y - 1) : s[x] = a[x]
  <2>1. \A x \in 1 .. (y - 1) : a[x] \in Instance
    BY <1>1, SMT
  <2>2. /\ s \in Seq(Instance)
        /\ Len(s) = IF 1 <= y - 1 THEN (y - 1) - 1 + 1 ELSE 0
        /\ \A x \in 1 .. ((y - 1) - 1 + 1) : s[x] = a[1 + x - 1]
    BY <1>1, <2>1, SMT
  <2> HIDE DEF s
  <2> QED
    BY <1>1, <2>2, SMT
<1>3. /\ t \in Seq(Instance) /\ Len(t) = Len(a) - y
      /\ \A x \in 1 .. (Len(a) - y) : t[x] = a[y + x]
  <2>1. \A x \in (y + 1) .. Len(a) : a[x] \in Instance
    BY <1>1, SMT
  <2>2. /\ t \in Seq(Instance)
        /\ Len(t) = IF y + 1 <= Len(a) THEN Len(a) - (y + 1) + 1 ELSE 0
        /\ \A x \in 1 .. (Len(a) - (y + 1) + 1) : t[x] = a[(y + 1) + x - 1]
    BY <1>1, <2>1, SMT
  <2> HIDE DEF t
  <2> QED
    BY <1>1, <2>2, SMT
<1> HIDE DEF s, t
<1>4. /\ s \o t \in Seq(Instance)
      /\ Len(s \o t) = Len(s) + Len(t)
      /\ \A x \in 1 .. Len(s) + Len(t) : (s \o t)[x] = IF x <= Len(s) THEN s[x] ELSE t[x - Len(s)]
  BY <1>2, <1>3, Concat
<1>5. Cut(a, y) = s \o t
  BY DEF Cut, s, t
<1>6. ASSUME NEW x \in 1 .. (Len(a) - 1)
      PROVE  (s \o t)[x] = IF x < y THEN a[x] ELSE a[x + 1]
  <2>1. x \in 1 .. Len(s) + Len(t) /\ y \in Int /\ x \in Int
    BY <1>1, <1>2, <1>3, SMT
  <2>2. CASE x < y
    <3>1. x <= Len(s) /\ x \in 1 .. (y - 1)
      BY <1>2, <2>1, <2>2, SMT
    <3> QED
      BY <1>2, <1>4, <2>1, <2>2, <3>1
  <2>3. CASE ~(x < y)
    <3>1. ~(x <= Len(s)) /\ x - Len(s) \in 1 .. (Len(a) - y) /\ y + (x - Len(s)) = x + 1
      BY <1>1, <1>2, <2>1, <2>3, SMTT(30)
    <3>2. t[x - Len(s)] = a[y + (x - Len(s))]
      BY <1>3, <3>1
    <3> QED
      BY <1>4, <2>1, <2>3, <3>1, <3>2
  <2> QED
    BY <2>2, <2>3
<1>7. Len(s) + Len(t) = Len(a) - 1
  BY <1>1, <1>2, <1>3, SMT
<1> QED
  BY <1>4, <1>5, <1>6, <1>7

(* One attachment less: the places of another instance move up. *)
LEMMA CutKeepsOthers ==
  ASSUME NEW a \in Seq(Instance), NEW y \in DOMAIN a, NEW j \in Instance, a[y] # j
  PROVE  Cardinality(Of(Cut(a, y), j)) = Cardinality(Of(a, j))
<1> DEFINE n == Len(a)
           b == Cut(a, y)
           S == Of(a, j)
           T == Of(b, j)
           f == [x \in S |-> IF x < y THEN x ELSE x - 1]
<1>1. n \in Nat /\ y \in 1 .. n /\ DOMAIN a = 1 .. n
  BY SMT
<1>2. /\ b \in Seq(Instance) /\ Len(b) = n - 1
      /\ \A x \in 1 .. (n - 1) : b[x] = IF x < y THEN a[x] ELSE a[x + 1]
  BY CutProperties
<1>b. DOMAIN b = 1 .. (n - 1)
  BY <1>2, SMT
<1> HIDE DEF b
<1>3. /\ \A x : x \in S <=> x \in 1 .. n /\ a[x] = j
      /\ \A x : x \in T <=> x \in 1 .. (n - 1) /\ b[x] = j
  BY <1>1, <1>b DEF Of
<1>4. IsFiniteSet(S)
  <2>1. IsFiniteSet(1 .. n)
    BY <1>1, FS_Interval, SMT
  <2>2. S \subseteq 1 .. n
    BY <1>1 DEF Of
  <2> QED
    BY <2>1, <2>2, FS_Subset
<1> HIDE DEF S, T
<1>5. ASSUME NEW x \in S PROVE f[x] \in T
  <2>1. x \in 1 .. n /\ a[x] = j /\ x # y
    BY <1>3
  <2>2. CASE x < y
    <3>1. x \in 1 .. (n - 1) /\ b[x] = a[x] /\ f[x] = x
      BY <1>1, <1>2, <2>1, <2>2, SMT
    <3> QED
      BY <1>3, <2>1, <3>1
  <2>3. CASE ~(x < y)
    <3>1. x - 1 \in 1 .. (n - 1) /\ ~(x - 1 < y) /\ (x - 1) + 1 = x /\ f[x] = x - 1
      BY <1>1, <2>1, <2>3, SMT
    <3>2. b[x - 1] = a[(x - 1) + 1]
      BY <1>2, <3>1
    <3> QED
      BY <1>3, <2>1, <3>1, <3>2
  <2> QED
    BY <2>2, <2>3
<1>6. ASSUME NEW x \in S, NEW z \in S, f[x] = f[z] PROVE x = z
  BY <1>1, <1>3, <1>6, SMT
<1>7. ASSUME NEW z \in T PROVE \E x \in S : f[x] = z
  <2>1. CASE z < y
    BY <1>1, <1>2, <1>3, <2>1, SMT
  <2>2. CASE ~(z < y)
    <3>a. z \in 1 .. (n - 1) /\ b[z] = j
      BY <1>3
    <3>b. z + 1 \in 1 .. n /\ ~(z + 1 < y) /\ z \in Int
      BY <1>1, <2>2, <3>a, SMT
    <3>c. b[z] = a[z + 1]
      BY <1>2, <2>2, <3>a
    <3>1. z + 1 \in S /\ ~(z + 1 < y) /\ z \in Int
      BY <1>3, <3>a, <3>b, <3>c
    <3>2. f[z + 1] = (z + 1) - 1
      BY <3>1
    <3> QED
      BY <3>1, <3>2, SMT
  <2> QED
    BY <2>1, <2>2
<1>8. f \in [S -> T]
  BY <1>5
<1> HIDE DEF f
<1>9. f \in Bijection(S, T)
  BY <1>6, <1>7, <1>8 DEF Bijection, Injection, Surjection, IsInjective
<1>10. Cardinality(T) = Cardinality(S)
  BY <1>4, <1>9, FS_Bijection DEF ExistsBijection
<1> QED
  BY <1>10 DEF b, S, T

(* The place that VolumeDetach cuts is the caller's. *)
LEMMA FirstIsCallers ==
  ASSUME NEW a \in Seq(Instance), NEW i, \E y \in DOMAIN a : a[y] = i
  PROVE  FirstOf(a, i) \in DOMAIN a /\ a[FirstOf(a, i)] = i
<1> DEFINE P == {y \in 1 .. Len(a) : a[y] = i}
<1>1. Len(a) \in Nat /\ DOMAIN a = 1 .. Len(a)
  BY SMT
<1>2. P \subseteq Nat /\ P # {}
  BY <1>1, SMT
<1>3. PICK y \in P : \A x \in P : ~(<<x, y>> \in OpToRel(<, Nat))
  BY <1>2, NatLessThanWellFounded, WFMin
<1>o. \A x, z \in Nat : x < z => <<x, z>> \in OpToRel(<, Nat)
  BY DEF OpToRel
<1>4. y \in DOMAIN a /\ a[y] = i /\ \A x \in 1 .. (y - 1) : a[x] # i
  <2>1. y \in 1 .. Len(a) /\ a[y] = i
    BY <1>3
  <2>2. ASSUME NEW x \in 1 .. (y - 1), a[x] = i PROVE FALSE
    <3>1. x \in P /\ x < y /\ x \in Nat /\ y \in Nat
      BY <1>1, <2>1, <2>2, SMT
    <3> QED
      BY <1>3, <1>o, <3>1
  <2> QED
    BY <1>1, <2>1, <2>2
<1> QED
  BY <1>4 DEF FirstOf

(* Whoever leaves the files of volumes alone disturbs nobody. *)
LEMMA SameContents ==
  ASSUME Contents, vols' = vols, born' = born
  PROVE  Contents' /\ Undisturbed(caller')
BY DEF Contents, Undisturbed

LEMMA NewVolumeContents ==
  ASSUME Contents, NEW d, born' = born + 1,
         NewVolume([obj |-> born, data |-> d, atts |-> <<>>])
  PROVE  Contents' /\ Undisturbed(caller')
<1> DEFINE c == [obj |-> born, data |-> d, atts |-> <<>>]
           n == volCount + 1
<1>1. c.obj = born /\ c.atts = <<>> /\ <<>> \in Seq(Instance)
  BY SMT
<1>2. /\ born \in Nat
      /\ \A v \in DOMAIN vols : /\ vols[v].obj \in Nat /\ vols[v].obj < born
                                 /\ vols[v].atts \in Seq(Instance)
  BY DEF Contents
<1>3. CASE vols' = vols
  BY <1>2, <1>3, SMT DEF Contents, Undisturbed
<1>4. CASE WriteVolume(n, c)
  <2> HIDE DEF c, n
  <2>1. /\ DOMAIN vols' = DOMAIN vols \cup {n} /\ vols'[n] = c
        /\ \A v \in DOMAIN vols : v # n => vols'[v] = vols[v]
    BY <1>4 DEF WriteVolume, With
  <2>a. born' \in Nat /\ born < born'
    BY <1>2, SMT
  <2>b. \A k \in Nat : k < born => k < born'
    BY <1>2, SMT
  <2>c. ASSUME NEW v \in DOMAIN vols'
        PROVE  /\ vols'[v].obj \in Nat /\ vols'[v].obj < born'
               /\ vols'[v].atts \in Seq(Instance)
    BY <1>1, <1>2, <2>1, <2>a, <2>b
  <2>2. Contents'
    BY <2>a, <2>c DEF Contents
  <2>3. Undisturbed(caller')
    BY <1>1, <1>2, <2>1, SMT DEF Undisturbed
  <2> QED
    BY <2>2, <2>3
<1> QED
  BY <1>3, <1>4 DEF NewVolume

LEMMA RewriteContents ==
  ASSUME Contents, NEW v \in DOMAIN vols, NEW a \in Seq(Instance), NEW i \in Instance,
         WriteVolume(v, Attachments(v, a)), born' = born, caller' = i,
         \A j \in Instance \ {i} : Cardinality(Of(a, j)) = Cardinality(Of(vols[v].atts, j))
  PROVE  Contents' /\ Undisturbed(caller')
<1> DEFINE c == Attachments(v, a)
<1>1. c.obj = vols[v].obj /\ c.atts = a
  BY DEF Attachments
<1> HIDE DEF c
<1>2. /\ DOMAIN vols' = DOMAIN vols /\ vols'[v] = c
      /\ \A w \in DOMAIN vols : w # v => vols'[w] = vols[w]
  BY DEF WriteVolume, With, c
<1>3. Contents'
  BY <1>1, <1>2 DEF Contents
<1>4. Undisturbed(caller')
  BY <1>1, <1>2 DEF Undisturbed
<1> QED
  BY <1>3, <1>4

LEMMA RemoveContents ==
  ASSUME Contents, NEW v \in DOMAIN vols, VolumeRemove(v)
  PROVE  Contents' /\ Undisturbed(caller')
<1>1. /\ born' = born /\ DOMAIN vols' = DOMAIN vols \ {v}
      /\ \A w \in DOMAIN vols' : vols'[w] = vols[w]
  BY DEF VolumeRemove, Without
<1> QED
  BY <1>1 DEF Contents, Undisturbed

(* VolumeAttach and VolumeDetach, whatever attachments there are. *)
LEMMA AttachContents ==
  ASSUME Contents, NEW i \in Instance, NEW v \in DOMAIN vols,
         VolumeAttach(i, v) \/ VolumeDetach(i, v)
  PROVE  Contents' /\ Undisturbed(caller')
<1> DEFINE a == vols[v].atts
<1>1. a \in Seq(Instance)
  BY DEF Contents
<1>2. born' = born /\ caller' = i
  BY DEF VolumeAttach, VolumeDetach
<1>3. CASE VolumeAttach(i, v)
  <2>1. WriteVolume(v, Attachments(v, Append(a, i)))
    BY <1>3 DEF VolumeAttach
  <2>2. Append(a, i) \in Seq(Instance)
    BY <1>1, SMT
  <2>3. \A j \in Instance \ {i} : Of(Append(a, i), j) = Of(a, j)
    BY <1>1, AppendKeepsOthers
  <2> QED
    BY <1>2, <2>1, <2>2, <2>3, RewriteContents
<1>4. CASE VolumeDetach(i, v) /\ vols' = vols
  BY <1>2, <1>4, SameContents
<1>5. CASE VolumeDetach(i, v) /\ vols' # vols
  <2>1. /\ \E y \in DOMAIN a : a[y] = i
        /\ WriteVolume(v, Attachments(v, Cut(a, FirstOf(a, i))))
    BY <1>5 DEF VolumeDetach
  <2>2. PICK y : y = FirstOf(a, i)
    OBVIOUS
  <2>3. y \in DOMAIN a /\ a[y] = i
    BY <1>1, <2>1, <2>2, FirstIsCallers
  <2>4. Cut(a, y) \in Seq(Instance)
    BY <1>1, <2>3, CutProperties
  <2>5. ASSUME NEW j \in Instance \ {i}
        PROVE  Cardinality(Of(Cut(a, y), j)) = Cardinality(Of(a, j))
    BY <1>1, <2>3, CutKeepsOthers
  <2> QED
    BY <1>2, <2>1, <2>2, <2>4, <2>5, RewriteContents
<1> QED
  BY <1>3, <1>4, <1>5

LEMMA ContentsNext == Contents /\ [Next]_vars => Contents' /\ Undisturbed(caller')
<1> SUFFICES ASSUME Contents, [Next]_vars PROVE Contents' /\ Undisturbed(caller')
  OBVIOUS
<1>1. CASE Encode \/ EncodeFails \/ Crash \/ Restart
  BY <1>1, SameContents DEF Encode, EncodeFails, Crash, Restart, diskVars
<1>2. CASE VolumeCreate
  BY <1>2, NewVolumeContents DEF VolumeCreate
<1>3. ASSUME NEW v \in DOMAIN vols, VolumeCopy(v) PROVE Contents' /\ Undisturbed(caller')
  BY <1>3, NewVolumeContents DEF VolumeCopy
<1>4. ASSUME NEW s \in DOMAIN snaps, VolumeCreateFromSnapshot(s)
      PROVE  Contents' /\ Undisturbed(caller')
  BY <1>4, NewVolumeContents DEF VolumeCreateFromSnapshot
<1>5. ASSUME NEW v \in DOMAIN vols, VolumeSnapshot(v) PROVE Contents' /\ Undisturbed(caller')
  <2>1. vols' = vols /\ born \in Nat /\ born' = born + 1
    BY <1>5 DEF VolumeSnapshot, Contents
  <2> QED
    BY <2>1, SMT DEF Contents, Undisturbed
<1>6. ASSUME NEW s \in DOMAIN snaps, SnapshotCopy(s) PROVE Contents' /\ Undisturbed(caller')
  <2>1. vols' = vols /\ born \in Nat /\ born' = born + 1
    BY <1>6 DEF SnapshotCopy, Contents
  <2> QED
    BY <2>1, SMT DEF Contents, Undisturbed
<1>7. ASSUME NEW v \in DOMAIN vols, VolumeRemove(v) PROVE Contents' /\ Undisturbed(caller')
  BY <1>7, RemoveContents
<1>8. ASSUME NEW s \in DOMAIN snaps, SnapshotRemove(s) PROVE Contents' /\ Undisturbed(caller')
  BY <1>8, SameContents DEF SnapshotRemove
<1>9. ASSUME NEW i \in Instance, NEW v \in DOMAIN vols, VolumeAttach(i, v) \/ VolumeDetach(i, v)
      PROVE  Contents' /\ Undisturbed(caller')
  BY <1>9, AttachContents
<1>10. CASE UNCHANGED vars
  BY <1>10, SameContents DEF vars, diskVars
<1> QED
  BY <1>1, <1>2, <1>3, <1>4, <1>5, <1>6, <1>7, <1>8, <1>9, <1>10 DEF Next

(* For any number of volumes and instances, and attachments made as often  *)
(* as anybody likes: VolumeAttach and VolumeDetach change the attachments  *)
(* of their caller, and no other instance gains or loses one in any step.  *)
THEOREM OthersAreKept == Spec => OthersKeepAttachments
<1>1. Init => Contents
  BY SMT DEF Init, Contents
<1>2. Contents /\ [Next]_vars => Contents'
  BY ContentsNext
<1>3. Contents /\ [Next]_vars =>
        [\A v \in DOMAIN vols \cap DOMAIN vols' :
           vols'[v].obj = vols[v].obj =>
             \A j \in Instance \ {caller'} :
               Cardinality(Of(vols'[v].atts, j)) = Cardinality(Of(vols[v].atts, j))]_vars
  BY ContentsNext DEF Undisturbed
<1> QED
  BY <1>1, <1>2, <1>3, PTL DEF Spec, OthersKeepAttachments

(* For any attachments of any volume, every mask and every caller, a       *)
(* listing includes what the mask asks for and calls it by its state.      *)
THEOREM ListingsAreHonest == Spec => []ListingHonest
<1>1. ListingHonest
  <2> SUFFICES ASSUME NEW v \in DOMAIN vols, NEW q \in Query
               PROVE  LET mask == q[1]
                          in == Included(StateOf(v, q), mask)
                          only == "attached" \in mask /\ "unattached" \notin mask
                          free == "unattached" \in mask /\ "attached" \notin mask
                      IN /\ StateOf(v, q) = "attached" <=> Attached(v, q[2])
                         /\ Attached(v, q[2]) /\ ~free => in
                         /\ in /\ only => vols[v].atts # <<>> /\ ("mine" \in mask => Attached(v, q[2]))
                         /\ in /\ free => ~Attached(v, q[2]) /\ ("mine" \notin mask => vols[v].atts = <<>>)
    BY DEF ListingHonest
  <2> DEFINE mask == q[1]
             i == q[2]
             atts == vols[v].atts
             told == Volumes(v, mask, i)
             st == AttachmentState(told, i)
  <2>1. Attached(v, i) <=> \E y \in DOMAIN told : told[y] = i
    BY DEF Volumes, Attached, Of
  <2>2. "mine" \notin mask => told = atts
    BY DEF Volumes
  <2>3. "mine" \in mask => \A y \in DOMAIN told : told[y] = i
    BY DEF Volumes, Of
  <2>4. atts = <<>> => ~Attached(v, i)
    BY SMT DEF Attached
  <2>5. told = <<>> => ~Attached(v, i)
    BY <2>1, SMT
  <2>6. told # <<>> /\ "mine" \in mask => Attached(v, i)
    BY SMT DEF Volumes, Attached, Of
  <2> HIDE DEF told, atts, mask, i
  <2>7. /\ st = "attached" <=> Attached(v, i)
        /\ st = "available" <=> told = <<>>
        /\ st \in {"available", "attached", "unavailable"}
    BY <2>1, <2>5 DEF AttachmentState
  <2> HIDE DEF st
  <2>8. StateOf(v, q) = st
    BY DEF StateOf, st, told, mask, i
  <2> QED
    BY <2>2, <2>4, <2>6, <2>7, <2>8 DEF Included, mask, i, atts
<1> QED
  BY <1>1, PTL
=============================================================================
