------------------------- MODULE IntegrationProofs --------------------------
(***************************************************************************)
(* Proofs about Integration, for any volumes, callers and configurations.  *)
(* First: the counters of the integration driver manager are right.        *)
(* Second: the volume of a user stays attached and mounted, the last       *)
(* unmount takes the mount away, and data is destroyed by nobody who did   *)
(* not ask for it.                                                         *)
(*                                                                         *)
(* CountsMatch speaks of volumes that no request is busy with.  What makes *)
(* it inductive is the state of the counter while a request is on its way: *)
(* an undisturbed volume has one changing request at a time, and at each   *)
(* of its steps the counter is ahead of the users by what the step has     *)
(* still to take off.                                                      *)
(***************************************************************************)
EXTENDS Integration, TLAPS

\* Most leaves are first-order reasoning about sets, functions and records; those
\* with arithmetic cite SMT.
USE Zenon

MountPC == {"mount", "implicit", "prepare", "attach", "wait", "inspect", "local",
            "probe", "mkfs", "osmount", "syscall", "count"}
UnmountPC == {"unmount", "counted", "lower", "init", "uinspect", "umount"}
PathPC == {"path", "lookup"}
ListPC == {"list", "cache", "zero"}

Call == [op : Op \cup {"idle"}, vol : Vol \cup {NoVol}, key : Keys \cup {NoVol},
         pc : MountPC \cup UnmountPC \cup PathPC \cup ListPC
              \cup {"idle", "create", "remove"},
         todo : Nat, over : BOOLEAN, seen : SUBSET Vol]

\* The steps of a request belong to its operation.
InPlace(x) ==
  /\ x.op = "idle" <=> x.pc = "idle"
  /\ x.op = "mount" <=> x.pc \in MountPC
  /\ x.op = "unmount" <=> x.pc \in UnmountPC
  /\ x.op = "path" <=> x.pc \in PathPC
  /\ x.op = "list" <=> x.pc \in ListPC
  /\ x.op = "create" <=> x.pc = "create"
  /\ x.op = "remove" <=> x.pc = "remove"
  /\ x.op \notin {"idle", "list"} \/ x.pc = "zero" => x.vol \in Vol
  /\ x.op # "list" => x.key \in {x.vol, Anon}
  /\ x.op = "path" => x.key = x.vol

\* Request x changes volume v or its counter.
On(x, v) == x.op \notin {"idle", "path"} /\ (x.vol = v \/ x.op = "list")

\* How far the counter of v is ahead while x, the only request on v, is at its step.
Ahead(x, v) ==
  /\ x.op \in {"mount", "unmount"} => x.key = v
  /\ x.op # "unmount" \/ x.pc \in {"uinspect", "umount"} => Count(v) = users[v]
  /\ x.pc = "zero" /\ x.vol = v => ~isCounted(v)
  /\ x.pc \in {"unmount", "counted"} =>
       Count(v) = users[v] + 1 \/ (Count(v) = 0 /\ users[v] = 0)
  /\ x.pc = "counted" => ~resets(v)
  /\ x.pc = "lower" => isCounted(v) /\ Count(v) = users[v] + 1
  /\ x.pc = "init" => users[v] = 0

Calls == call \in [Caller -> Call] /\ \A c \in Caller : InPlace(call[c])

Counters ==
  /\ config \in Config /\ disturbed \subseteq Vol
  /\ DOMAIN used \subseteq Keys /\ \A k \in DOMAIN used : used[k] \in Int
  /\ users \in [Vol -> Nat]

Volume == [made : BOOLEAN, att : {"none", "me", "other"},
           dev : BOOLEAN, fs : BOOLEAN, data : BOOLEAN]

DiskOK ==
  /\ vol \in [Vol -> Volume]
  /\ mnt \in [Vol -> Nat] /\ lost \subseteq Vol

Alone(v) == \A c, d \in Caller : On(call[c], v) /\ On(call[d], v) => c = d

Counted(v) ==
  /\ Alone(v)
  /\ (\A c \in Caller : ~On(call[c], v)) => Count(v) = users[v]
  /\ \A c \in Caller : On(call[c], v) => Ahead(call[c], v)

CountInv ==
  /\ Calls /\ Counters
  /\ ~config.ignoreUsed => \A v \in Vol \ disturbed : Counted(v)

-----------------------------------------------------------------------------

LEMMA SetCounts ==
  ASSUME Counters, NEW k \in Keys, NEW n \in Int, Set(k, n)
  PROVE  /\ DOMAIN used' \subseteq Keys /\ \A x \in DOMAIN used' : used'[x] \in Int
         /\ isCounted(k)' /\ Count(k)' = n
         /\ \A x \in Keys \ {k} : (isCounted(x)' <=> isCounted(x)) /\ Count(x)' = Count(x)
  BY DEF Counters, Set, isCounted, Count

\* What a step of caller c has to show.
Fits(c, v) ==
  IF On(call[c], v)
  THEN /\ On(call[c], v)' => Ahead(call[c], v)'
       /\ ~On(call[c], v)' => Count(v)' = users'[v]
  ELSE /\ ~On(call[c], v)'
       /\ Count(v)' = Count(v) /\ users'[v] = users[v]
       /\ isCounted(v)' <=> isCounted(v)

\* Only caller c moves.
Moves(c) ==
  /\ call' \in [Caller -> Call] /\ InPlace(call[c])'
  /\ \A d \in Caller : d # c => call'[d] = call[d]

LEMMA FitsKeeps ==
  ASSUME NEW v \in Vol, Counted(v), NEW c \in Caller, Moves(c), Fits(c, v)
  PROVE  Counted(v)'
  <1>1. \A d \in Caller : d # c => (On(call[d], v)' <=> On(call[d], v))
    BY DEF Moves, On
  <1>2. On(call[c], v)' => On(call[c], v)
    BY DEF Fits
  <1>3. Alone(v)'
    BY <1>1, <1>2 DEF Counted, Alone
  <1>4. CASE On(call[c], v)
    <2>1. \A d \in Caller : d # c => ~On(call[d], v)'
      BY <1>1, <1>4 DEF Counted, Alone
    <2> QED
      BY <1>3, <1>4, <2>1 DEF Counted, Fits
  <1>5. CASE ~On(call[c], v)
    <2>1. ~On(call[c], v)' /\ Count(v)' = Count(v) /\ users'[v] = users[v]
          /\ (isCounted(v)' <=> isCounted(v))
      BY <1>5 DEF Fits
    <2>2. (\A d \in Caller : ~On(call[d], v)') => Count(v)' = users'[v]
      BY <1>1, <1>5, <2>1 DEF Counted
    <2>3. ASSUME NEW d \in Caller, On(call[d], v)' PROVE Ahead(call[d], v)'
      <3>1. d # c /\ call'[d] = call[d] /\ Ahead(call[d], v)
        BY <1>1, <2>1, <2>3 DEF Counted, Moves
      <3>2. isCounted(v) => used'[v] = used[v]
        BY <2>1 DEF Count, isCounted
      <3> QED
        BY <2>1, <3>1, <3>2 DEF Ahead, resets
    <2> QED
      BY <1>3, <2>2, <2>3 DEF Counted
  <1> QED
    BY <1>4, <1>5

LEMMA StepKeeps ==
  ASSUME CountInv, NEW c \in Caller, Moves(c), Counters', config' = config,
         disturbed \subseteq disturbed',
         ~config.ignoreUsed => \A v \in Vol \ disturbed' : Fits(c, v)
  PROVE  CountInv'
  <1>1. Calls'
    BY SMTT(30) DEF CountInv, Calls, Moves, InPlace
  <1>2. ASSUME NEW v \in Vol \ disturbed', ~config.ignoreUsed PROVE Counted(v)'
    BY <1>2, FitsKeeps DEF CountInv
  <1> QED
    BY <1>1, <1>2 DEF CountInv

\* The caller goes on or is done, and neither counters nor users change.
LEMMA QuietKeeps ==
  ASSUME CountInv, NEW c \in Caller, Moves(c), config' = config, used' = used,
         users' = users, disturbed \subseteq disturbed', disturbed' \subseteq Vol,
         call[c].op \in {"mount", "path", "create", "remove"},
         \/ call'[c].op = "idle"
         \/ /\ call'[c].op = call[c].op /\ call'[c].vol = call[c].vol
            /\ call'[c].key = call[c].key
  PROVE  CountInv'
  <1>1. InPlace(call[c]) /\ InPlace(call[c])'
    BY DEF CountInv, Calls, Moves
  <1>2. Counters'
    BY DEF CountInv, Counters
  <1>3. ASSUME NEW v \in Vol \ disturbed', ~config.ignoreUsed PROVE Fits(c, v)
    <2>1. Counted(v)
      BY <1>3 DEF CountInv
    <2>2. Count(v)' = Count(v) /\ (isCounted(v)' <=> isCounted(v))
      BY DEF Count, isCounted
    <2>3. CASE On(call[c], v)
      <3>1. Ahead(call[c], v)
        BY <2>1, <2>3 DEF Counted
      <3>2. Count(v)' = users'[v]
        BY <2>2, <3>1 DEF Ahead
      <3>3. On(call[c], v)' => Ahead(call[c], v)'
        BY <1>1, <3>1, <3>2 DEF Ahead, On, InPlace, ListPC, UnmountPC
      <3> QED
        BY <2>3, <3>2, <3>3 DEF Fits
    <2>4. CASE ~On(call[c], v)
      BY <2>2, <2>4 DEF Fits, On
    <2> QED
      BY <2>3, <2>4
  <1> QED
    BY <1>2, <1>3, StepKeeps

LEMMA IdleInPlace == Idle \in Call /\ InPlace(Idle) /\ Idle.op = "idle"
  BY DEF Idle, Call, InPlace, Keys, MountPC, UnmountPC, PathPC, ListPC

LEMMA ChangeMoves ==
  ASSUME Calls, NEW c \in Caller, NEW x \in Call, InPlace(x),
         call' = [call EXCEPT ![c] = x]
  PROVE  Moves(c) /\ call'[c] = x
  <1>1. call'[c] = x /\ call' \in [Caller -> Call]
        /\ \A d \in Caller : d # c => call'[d] = call[d]
    BY DEF Calls
  <1> QED
    BY <1>1 DEF Moves, InPlace

LEMMA AnswerMoves ==
  ASSUME Calls, NEW c \in Caller, NEW res, Answer(c, res)
  PROVE  Moves(c) /\ call'[c] = Idle
  <1>1. call' = [call EXCEPT ![c] = Idle]
    BY DEF Answer
  <1> QED
    BY <1>1, IdleInPlace DEF Calls, Moves

LEMMA GotoMoves ==
  ASSUME Calls, NEW c \in Caller, NEW pc, Goto(c, pc),
         \/ call[c].op = "mount" /\ pc \in MountPC
         \/ call[c].op = "unmount" /\ pc \in UnmountPC
         \/ call[c].op = "path" /\ pc \in PathPC
  PROVE  /\ Moves(c)
         /\ call'[c].op = call[c].op /\ call'[c].vol = call[c].vol
         /\ call'[c].key = call[c].key /\ call'[c].pc = pc
  <1> DEFINE x == [call[c] EXCEPT !.pc = pc]
  <1>1. call[c] \in Call /\ InPlace(call[c])
    BY DEF Calls
  <1>2. /\ x \in Call /\ x.op = call[c].op /\ x.vol = call[c].vol
        /\ x.key = call[c].key /\ x.pc = pc
    BY <1>1 DEF Call
  <1>3. call' = [call EXCEPT ![c] = x]
    BY DEF Goto
  <1> HIDE DEF x
  <1>4. call'[c] = x /\ call' \in [Caller -> Call]
        /\ \A d \in Caller : d # c => call'[d] = call[d]
    BY <1>2, <1>3 DEF Calls
  <1>5. InPlace(call[c])'
    BY <1>1, <1>2, <1>4, ZenonT(60) DEF InPlace, MountPC, UnmountPC, PathPC, ListPC
  <1> QED
    BY <1>2, <1>4, <1>5 DEF Moves

-----------------------------------------------------------------------------
(* The steps of a mount *)

LEMMA MountStepKeeps ==
  ASSUME CountInv, NEW c \in Caller, MountStep(c)
  PROVE  CountInv'
  <1>1. Calls /\ Counters /\ call[c] \in Call /\ InPlace(call[c])
    BY DEF CountInv, Calls
  <1>2. ASSUME NEW pc \in MountPC, Goto(c, pc), call[c].op = "mount", config' = config,
               used' = used, users' = users, disturbed \subseteq disturbed',
               disturbed' \subseteq Vol
        PROVE  CountInv'
    BY <1>1, <1>2, GotoMoves, QuietKeeps
  <1>3. ASSUME Answer(c, "error"), call[c].op = "mount", config' = config,
               used' = used, users' = users, disturbed' = disturbed
        PROVE  CountInv'
    BY <1>1, <1>3, AnswerMoves, IdleInPlace, QuietKeeps DEF Counters
  <1>4. CASE MountCount(c)
    <2>1. /\ call[c].op = "mount" /\ config' = config /\ disturbed' = disturbed
          /\ users' = [users EXCEPT ![call[c].vol] = @ + 1]
          /\ addCount(call[c].key, 1) /\ Answer(c, "ok")
      BY <1>1, <1>4 DEF MountCount, incCount, env, InPlace, MountPC
    <2>2. call[c].vol \in Vol /\ call[c].key \in Keys /\ call[c].key \in {call[c].vol, Anon}
      BY <1>1, <2>1 DEF InPlace, Keys
    <2> DEFINE n == IF isCounted(call[c].key) THEN used[call[c].key] + 1 ELSE 1
    <2>3. n \in Int /\ Set(call[c].key, n)
      BY <1>1, <2>1, <2>2, SMTT(30) DEF addCount, Counters, isCounted
    <2>4. n = Count(call[c].key) + 1
      BY SMTT(30) DEF Count
    <2> HIDE DEF n
    <2>5. Moves(c) /\ call'[c] = Idle /\ \A v : ~On(call[c], v)'
      BY <1>1, <2>1, AnswerMoves, IdleInPlace DEF On
    <2>6. Counters'
      BY <1>1, <2>1, <2>2, <2>3, SetCounts, SMTT(30) DEF Counters
    <2>7. ASSUME NEW v \in Vol \ disturbed', ~config.ignoreUsed PROVE Fits(c, v)
      <3>1. Counted(v) /\ v \in Keys /\ users[v] \in Nat
        BY <1>1, <2>1, <2>7 DEF CountInv, Keys, Counters
      <3>2. CASE v = call[c].vol
        <4>1. On(call[c], v)
          BY <2>1, <3>2 DEF On
        <4>2. call[c].key = v /\ Count(v) = users[v]
          BY <2>1, <3>1, <4>1 DEF Counted, Ahead
        <4>3. users'[v] = users[v] + 1
          BY <1>1, <2>1, <3>2 DEF Counters
        <4>4. Count(v)' = n
          BY <1>1, <2>2, <2>3, <4>2, SetCounts
        <4> QED
          BY <2>4, <2>5, <4>1, <4>2, <4>3, <4>4 DEF Fits
      <3>3. CASE v # call[c].vol
        <4>1. ~On(call[c], v)
          BY <2>1, <3>3 DEF On
        <4>2. v # call[c].key
          BY <2>2, <3>3, IntegrationAssumption
        <4>3. Count(v)' = Count(v) /\ (isCounted(v)' <=> isCounted(v))
          BY <1>1, <2>2, <2>3, <3>1, <4>2, SetCounts
        <4>4. users'[v] = users[v]
          BY <1>1, <2>1, <3>3 DEF Counters
        <4> QED
          BY <2>5, <4>1, <4>3, <4>4 DEF Fits
      <3> QED
        BY <3>2, <3>3
    <2> QED
      BY <2>1, <2>5, <2>6, <2>7, StepKeeps
  <1>5. ASSUME call[c].pc \in MountPC PROVE call[c].op = "mount"
    BY <1>1, <1>5 DEF InPlace
  <1>6. CASE MountPrecaution(c)
    <2>1. /\ call[c].pc = "prepare" /\ Goto(c, "attach") /\ config' = config
          /\ used' = used /\ users' = users
          /\ disturbed' = disturbed \/ disturbed' = disturbed \cup {call[c].vol}
      BY <1>6 DEF MountPrecaution
    <2>2. call[c].vol \in Vol
      BY <1>1, <2>1 DEF InPlace, MountPC
    <2>3. disturbed \subseteq disturbed' /\ disturbed' \subseteq Vol
      BY <1>1, <2>1, <2>2 DEF Counters
    <2> QED
      BY <1>2, <1>5, <2>1, <2>3 DEF MountPC
  <1>7. CASE \/ MountInspect(c) \/ MountCreate(c) \/ MountAttach(c) \/ MountWait(c)
             \/ MountInspectAgain(c) \/ MountLocal(c) \/ MountProbe(c) \/ MountMkfs(c)
             \/ MountCheck(c) \/ MountMount(c)
    <2>1. /\ call[c].pc \in MountPC /\ config' = config
          /\ used' = used /\ users' = users /\ disturbed' = disturbed
          /\ Answer(c, "error") \/ \E pc \in MountPC : Goto(c, pc)
      BY <1>7 DEF MountInspect, MountCreate, MountAttach, MountWait, MountInspectAgain,
                  MountLocal, MountProbe, MountMkfs, MountCheck, MountMount, env, MountPC
    <2>2. disturbed \subseteq disturbed' /\ disturbed' \subseteq Vol
      BY <1>1, <2>1 DEF Counters
    <2> QED
      BY <1>2, <1>3, <1>5, <2>1, <2>2
  <1> QED
    BY <1>4, <1>6, <1>7 DEF MountStep

-----------------------------------------------------------------------------
(* The steps of an unmount *)

LEMMA UnmountMoves ==
  ASSUME CountInv, NEW c \in Caller, call[c].op = "unmount", Moves(c),
         config' = config, users' = users, disturbed' = disturbed,
         used' = used \/ \E n \in Int : Set(call[c].key, n),
         \/ call'[c].op = "idle"
         \/ /\ call'[c].op = "unmount" /\ call'[c].vol = call[c].vol
            /\ call'[c].key = call[c].key,
         ASSUME NEW v \in Vol, v = call[c].key, Ahead(call[c], v), ~config.ignoreUsed
         PROVE  IF call'[c].op = "idle" THEN Count(v)' = users'[v] ELSE Ahead(call[c], v)'
  PROVE  CountInv'
  <1>1. Counters /\ InPlace(call[c]) /\ call[c] \in Call
    BY DEF CountInv, Calls
  <1>2. call[c].vol \in Vol /\ call[c].key \in Keys /\ call[c].key \in {call[c].vol, Anon}
    BY <1>1 DEF InPlace, Keys
  <1>3. Counters'
    <2>1. CASE used' = used
      BY <1>1, <2>1 DEF Counters
    <2>2. CASE \E n \in Int : Set(call[c].key, n)
      BY <1>1, <1>2, <2>2, SetCounts DEF Counters
    <2> QED
      BY <2>1, <2>2
  <1>4. ASSUME NEW v \in Vol \ disturbed', ~config.ignoreUsed PROVE Fits(c, v)
    <2>1. Counted(v) /\ v \in Keys
      BY <1>4 DEF CountInv, Keys
    <2>2. CASE v = call[c].vol
      <3>1. On(call[c], v)
        BY <2>2 DEF On
      <3>2. Ahead(call[c], v) /\ call[c].key = v
        BY <2>1, <3>1 DEF Counted, Ahead
      <3>3. IF call'[c].op = "idle" THEN Count(v)' = users'[v] ELSE Ahead(call[c], v)'
        BY <1>4, <3>2
      <3>4. On(call[c], v)' <=> call'[c].op # "idle"
        BY <2>2 DEF On
      <3> QED
        BY <3>1, <3>3, <3>4 DEF Fits
    <2>3. CASE v # call[c].vol
      <3>1. ~On(call[c], v) /\ ~On(call[c], v)'
        BY <2>3 DEF On
      <3>2. v # call[c].key
        BY <1>2, <2>3, IntegrationAssumption
      <3>3. Count(v)' = Count(v) /\ (isCounted(v)' <=> isCounted(v))
        <4>1. CASE used' = used
          BY <4>1 DEF Count, isCounted
        <4>2. CASE \E n \in Int : Set(call[c].key, n)
          BY <1>1, <1>2, <2>1, <3>2, <4>2, SetCounts
        <4> QED
          BY <4>1, <4>2
      <3> QED
        BY <3>1, <3>3 DEF Fits
    <2> QED
      BY <2>2, <2>3
  <1> QED
    BY <1>3, <1>4, StepKeeps

LEMMA UnmountStepKeeps ==
  ASSUME CountInv, DiskOK, NEW c \in Caller, UnmountStep(c)
  PROVE  CountInv'
  <1>1. Calls /\ Counters /\ call[c] \in Call /\ InPlace(call[c])
    BY DEF CountInv, Calls
  <1>2. call[c].op = "unmount"
    BY <1>1 DEF UnmountStep, UnmountReset, UnmountCounted, UnmountLower, UnmountInit,
                UnmountInspect, UnmountOS, UnmountDetach, InPlace, UnmountPC
  <1>3. config' = config /\ users' = users /\ disturbed' = disturbed
    BY DEF UnmountStep, UnmountReset, UnmountCounted, UnmountLower, UnmountInit,
           UnmountInspect, UnmountOS, UnmountDetach, env
  <1>4. call[c].key \in Keys /\ \A v \in Vol : users[v] \in Nat
    BY <1>1, <1>2 DEF InPlace, Keys, Counters
  <1>5. CASE UnmountReset(c)
    <2>1. /\ call[c].pc = "unmount"
          /\ \/ config.ignoreUsed /\ Goto(c, "init") /\ used' = used
             \/ resets(call[c].key) /\ Goto(c, "init") /\ Set(call[c].key, 0)
             \/ ~resets(call[c].key) /\ Goto(c, "counted") /\ used' = used
      BY <1>5 DEF UnmountReset, initCount
    <2>2. PICK pc \in {"init", "counted"} : Goto(c, pc)
      BY <2>1
    <2>3. /\ Moves(c) /\ call'[c].op = "unmount" /\ call'[c].vol = call[c].vol
          /\ call'[c].key = call[c].key /\ call'[c].pc = pc
      BY <1>1, <1>2, <2>2, GotoMoves DEF UnmountPC
    <2>4. ASSUME NEW v \in Vol, v = call[c].key, Ahead(call[c], v), ~config.ignoreUsed
          PROVE  Ahead(call[c], v)'
      <3>1. Count(v) = users[v] + 1 \/ (Count(v) = 0 /\ users[v] = 0)
        BY <2>1, <2>4 DEF Ahead
      <3>2. CASE pc = "init"
        <4>1. resets(v)
          <5>1. call'[c].pc # "counted"
            BY <2>3, <3>2
          <5>2. Goto(c, "counted") => call'[c].pc = "counted"
            BY <1>1, <1>2, GotoMoves DEF UnmountPC
          <5> QED
            BY <2>1, <2>4, <5>1, <5>2
        <4>2. users[v] = 0
          BY <1>1, <1>4, <2>4, <3>1, <4>1, SMTT(30) DEF resets, Count, Counters, isCounted
        <4> QED
          BY <1>3, <2>3, <2>4, <3>2, <4>2 DEF Ahead
      <3>3. CASE pc = "counted"
        <4>1. ~resets(v) /\ used' = used
          <5>1. call'[c].pc # "init"
            BY <2>3, <3>3
          <5>2. Goto(c, "init") => call'[c].pc = "init"
            BY <1>1, <1>2, GotoMoves DEF UnmountPC
          <5> QED
            BY <2>1, <2>4, <5>1, <5>2
        <4>2. Count(v)' = Count(v) /\ ~resets(v)'
          BY <4>1 DEF Count, resets, isCounted
        <4> QED
          BY <1>3, <2>3, <2>4, <3>1, <3>3, <4>2 DEF Ahead
      <3> QED
        BY <3>2, <3>3
    <2>5. used' = used \/ \E n \in Int : Set(call[c].key, n)
      BY <2>1, SMTT(30)
    <2> QED
      BY <1>2, <1>3, <2>3, <2>4, <2>5, UnmountMoves
  <1>6. CASE UnmountCounted(c)
    <2>1. /\ call[c].pc = "counted" /\ used' = used
          /\ Goto(c, IF isCounted(call[c].key) THEN "lower" ELSE "init")
      BY <1>6 DEF UnmountCounted
    <2>2. /\ Moves(c) /\ call'[c].op = "unmount" /\ call'[c].vol = call[c].vol
          /\ call'[c].key = call[c].key
          /\ call'[c].pc = IF isCounted(call[c].key) THEN "lower" ELSE "init"
      BY <1>1, <1>2, <2>1, GotoMoves DEF UnmountPC
    <2>3. ASSUME NEW v \in Vol, v = call[c].key, Ahead(call[c], v), ~config.ignoreUsed
          PROVE  Ahead(call[c], v)'
      <3>1. /\ ~resets(v) /\ Count(v)' = Count(v) /\ (isCounted(v)' <=> isCounted(v))
            /\ Count(v) = users[v] + 1 \/ (Count(v) = 0 /\ users[v] = 0)
        BY <2>1, <2>3 DEF Ahead, Count, isCounted
      <3>2. CASE isCounted(v)
        <4>1. Count(v) = users[v] + 1
          BY <1>1, <1>4, <3>1, <3>2, SMTT(30) DEF resets, Count, Counters, isCounted
        <4> QED
          BY <1>3, <2>2, <2>3, <3>1, <3>2, <4>1 DEF Ahead
      <3>3. CASE ~isCounted(v)
        <4>1. users[v] = 0
          BY <1>4, <3>1, <3>3, SMTT(30) DEF Count
        <4> QED
          BY <1>3, <2>2, <2>3, <3>3, <4>1 DEF Ahead
      <3> QED
        BY <3>2, <3>3
    <2> QED
      BY <1>2, <1>3, <2>1, <2>2, <2>3, UnmountMoves
  <1>7. CASE UnmountLower(c)
    <2>1. /\ call[c].pc = "lower" /\ Answer(c, "ok")
          /\ addCount(call[c].key, -1)
      BY <1>7 DEF UnmountLower, decCount
    <2>2. Moves(c) /\ call'[c].op = "idle"
      BY <1>1, <2>1, AnswerMoves, IdleInPlace
    <2> DEFINE n == IF isCounted(call[c].key) THEN used[call[c].key] - 1 ELSE 1
    <2>3. n \in Int /\ Set(call[c].key, n)
      BY <1>1, <2>1, SMTT(30) DEF addCount, Counters, isCounted
    <2>4. ASSUME NEW v \in Vol, v = call[c].key, Ahead(call[c], v), ~config.ignoreUsed
          PROVE  Count(v)' = users'[v]
      <3>1. isCounted(v) /\ Count(v) = users[v] + 1
        BY <2>1, <2>4 DEF Ahead
      <3>2. n = users[v]
        BY <1>4, <2>4, <3>1, SMTT(30) DEF Count
      <3>3. Count(v)' = n
        BY <1>1, <1>4, <2>3, <2>4, SetCounts
      <3> QED
        BY <1>3, <3>2, <3>3
    <2> HIDE DEF n
    <2> QED
      BY <1>2, <1>3, <2>2, <2>3, <2>4, UnmountMoves
  <1>8. CASE UnmountInit(c)
    <2>1. call[c].pc = "init" /\ Set(call[c].key, 0) /\ Goto(c, "uinspect")
      BY <1>8 DEF UnmountInit, initCount
    <2>2. /\ Moves(c) /\ call'[c].op = "unmount" /\ call'[c].vol = call[c].vol
          /\ call'[c].key = call[c].key /\ call'[c].pc = "uinspect"
      BY <1>1, <1>2, <2>1, GotoMoves DEF UnmountPC
    <2>3. ASSUME NEW v \in Vol, v = call[c].key, Ahead(call[c], v), ~config.ignoreUsed
          PROVE  Ahead(call[c], v)'
      <3>1. users[v] = 0
        BY <2>1, <2>3 DEF Ahead
      <3>2. Count(v)' = 0
        BY <1>1, <1>4, <2>1, <2>3, SetCounts, SMTT(30)
      <3> QED
        BY <1>3, <2>2, <2>3, <3>1, <3>2 DEF Ahead
    <2>4. \E n \in Int : Set(call[c].key, n)
      BY <2>1, SMTT(30)
    <2> QED
      BY <1>2, <1>3, <2>2, <2>3, <2>4, UnmountMoves
  <1>9. CASE UnmountInspect(c) \/ UnmountOS(c) \/ UnmountDetach(c)
    <2>1. call[c].pc \in {"uinspect", "umount"} /\ used' = used
      BY <1>9 DEF UnmountInspect, UnmountOS, UnmountDetach
    <2>2. ASSUME NEW v \in Vol, Ahead(call[c], v)
          PROVE  Count(v)' = users'[v]
      BY <1>3, <2>1, <2>2 DEF Ahead, Count, isCounted
    <2>3. ASSUME NEW res, Answer(c, res) PROVE CountInv'
      <3>1. Moves(c) /\ call'[c].op = "idle"
        BY <1>1, <2>3, AnswerMoves, IdleInPlace
      <3> QED
        BY <1>2, <1>3, <2>1, <2>2, <3>1, UnmountMoves
    <2>4. ASSUME NEW n \in Nat,
                 call' = [call EXCEPT ![c] = [call[c] EXCEPT !.pc = "umount", !.todo = n]]
          PROVE  CountInv'
      <3> DEFINE x == [call[c] EXCEPT !.pc = "umount", !.todo = n]
      <3>1. /\ x \in Call /\ x.op = "unmount" /\ x.vol = call[c].vol
            /\ x.key = call[c].key /\ x.pc = "umount"
        BY <1>1, <1>2 DEF Call, UnmountPC
      <3>2. call' = [call EXCEPT ![c] = x]
        BY <2>4
      <3> HIDE DEF x
      <3>3. InPlace(x)
        BY <1>1, <1>2, <3>1 DEF InPlace, MountPC, UnmountPC, PathPC, ListPC
      <3>4. Moves(c) /\ call'[c] = x
        BY <1>1, <3>1, <3>2, <3>3, ChangeMoves
      <3>5. ASSUME NEW v \in Vol, v = call[c].key, Ahead(call[c], v), ~config.ignoreUsed
            PROVE  Ahead(call[c], v)'
        BY <2>2, <3>1, <3>4, <3>5 DEF Ahead
      <3> QED
        BY <1>2, <1>3, <2>1, <3>1, <3>4, <3>5, UnmountMoves
    <2>5. CASE UnmountInspect(c)
      <3>1. \/ \E res : Answer(c, res)
            \/ \E n \in Mounts(call[c].vol) :
                  call' = [call EXCEPT ![c].pc = "umount", ![c].todo = n]
        BY <2>5 DEF UnmountInspect
      <3>2. ASSUME NEW n \in Nat, call' = [call EXCEPT ![c].pc = "umount", ![c].todo = n]
            PROVE  CountInv'
        <4>1. call' = [call EXCEPT ![c] = [call[c] EXCEPT !.pc = "umount", !.todo = n]]
          BY <1>1, <3>2 DEF Calls
        <4> QED
          BY <2>4, <4>1
      <3>3. Mounts(call[c].vol) \subseteq Nat
        BY <1>1, <1>2, SMTT(30) DEF Mounts, DiskOK, InPlace
      <3> QED
        BY <2>3, <3>1, <3>2, <3>3
    <2>6. CASE UnmountOS(c)
      <3>1. call[c].todo > 0 /\ call[c].pc = "umount"
            /\ call' = [call EXCEPT ![c].todo = @ - 1]
        BY <2>6 DEF UnmountOS
      <3>2. call[c].todo - 1 \in Nat
        BY <1>1, <3>1, SMTT(30) DEF Call
      <3>3. call' = [call EXCEPT ![c] = [call[c] EXCEPT !.pc = "umount",
                                                        !.todo = call[c].todo - 1]]
        BY <1>1, <3>1 DEF Calls, Call
      <3> QED
        BY <2>4, <3>2, <3>3
    <2>7. CASE UnmountDetach(c)
      BY <2>3, <2>7 DEF UnmountDetach
    <2> QED
      BY <1>9, <2>5, <2>6, <2>7
  <1> QED
    BY <1>5, <1>6, <1>7, <1>8, <1>9 DEF UnmountStep

-----------------------------------------------------------------------------
(* The other requests, and failures *)

\* A request ends at a step at which the counter is settled.
LEMMA AnswerKeeps ==
  ASSUME CountInv, NEW c \in Caller, NEW res, Answer(c, res), config' = config,
         used' = used, users' = users, disturbed' = disturbed,
         call[c].pc \notin {"unmount", "counted", "lower", "init"}
  PROVE  CountInv'
  <1>1. Moves(c) /\ call'[c].op = "idle" /\ InPlace(call[c]) /\ Counters'
    BY AnswerMoves, IdleInPlace DEF CountInv, Calls, Counters
  <1>2. ASSUME NEW v \in Vol \ disturbed', ~config.ignoreUsed PROVE Fits(c, v)
    <2>1. Counted(v)
      BY <1>2 DEF CountInv
    <2>2. Count(v)' = Count(v) /\ (isCounted(v)' <=> isCounted(v)) /\ ~On(call[c], v)'
      BY <1>1 DEF Count, isCounted, On
    <2>3. On(call[c], v) => Count(v) = users[v]
      BY <1>1, <2>1 DEF Counted, Ahead, InPlace, UnmountPC
    <2> QED
      BY <2>2, <2>3 DEF Fits
  <1> QED
    BY <1>1, <1>2, StepKeeps

LEMMA ListMoves ==
  ASSUME CountInv, NEW c \in Caller, call[c].op = "list", config' = config,
         users' = users, disturbed' = disturbed, Counters',
         NEW x \in Call, InPlace(x), x.op = "list", call' = [call EXCEPT ![c] = x],
         ASSUME NEW v \in Vol, Ahead(call[c], v)
         PROVE  Count(v)' = users'[v] /\ (x.pc = "zero" /\ x.vol = v => ~isCounted(v)')
  PROVE  CountInv'
  <1>1. Moves(c) /\ call'[c] = x
    BY ChangeMoves, ZenonT(60) DEF CountInv
  <1>2. ASSUME NEW v \in Vol \ disturbed', ~config.ignoreUsed PROVE Fits(c, v)
    <2>1. On(call[c], v) /\ On(call[c], v)'
      BY <1>1 DEF On
    <2>2. Ahead(call[c], v)
      BY <1>2, <2>1 DEF CountInv, Counted
    <2>3. Count(v)' = users'[v] /\ (x.pc = "zero" /\ x.vol = v => ~isCounted(v)')
      BY <2>2
    <2>4. Ahead(call[c], v)'
      BY <1>1, <2>3 DEF Ahead, InPlace, ListPC
    <2> QED
      BY <2>1, <2>4 DEF Fits
  <1> QED
    BY <1>1, <1>2, StepKeeps

LEMMA OtherStepKeeps ==
  ASSUME CountInv, NEW c \in Caller, OtherStep(c)
  PROVE  CountInv'
  <1>1. Calls /\ Counters /\ call[c] \in Call /\ InPlace(call[c])
    BY DEF CountInv, Calls
  <1>2. config' = config /\ users' = users /\ disturbed' = disturbed
    BY DEF OtherStep, PathCounted, PathLookup, ListVolumes, ListCounted, ListInit,
           CreateVolume, RemoveVolume, env
  <1>3. ASSUME NEW res, Answer(c, res), used' = used,
               call[c].pc \in PathPC \cup ListPC \cup {"create", "remove"}
        PROVE  CountInv'
    BY <1>2, <1>3, AnswerKeeps DEF PathPC, ListPC
  <1>4. CASE PathCounted(c)
    <2>1. call[c].pc = "path" /\ used' = used /\ call[c].op = "path"
      BY <1>1, <1>4 DEF PathCounted, InPlace, PathPC
    <2>2. CASE Goto(c, "lookup")
      <3>1. /\ Moves(c) /\ call'[c].op = call[c].op /\ call'[c].vol = call[c].vol
            /\ call'[c].key = call[c].key
        BY <1>1, <2>1, <2>2, GotoMoves DEF PathPC
      <3> QED
        BY <1>1, <1>2, <2>1, <3>1, QuietKeeps DEF Counters
    <2>3. CASE Answer(c, "empty")
      BY <1>3, <2>1, <2>3 DEF PathPC
    <2> QED
      BY <1>4, <2>2, <2>3 DEF PathCounted
  <1>5. CASE PathLookup(c)
    BY <1>3, <1>5 DEF PathLookup, PathPC
  <1>6. CASE CreateVolume(c) \/ RemoveVolume(c)
    BY <1>3, <1>6 DEF CreateVolume, RemoveVolume
  <1>7. CASE ListVolumes(c)
    <2>1. /\ call[c].pc = "list" /\ used' = used /\ call[c].op = "list" /\ Counters'
      BY <1>1, <1>2, <1>7 DEF ListVolumes, InPlace, ListPC, Counters
    <2>2. PICK S \in SUBSET Vol :
             call' = [call EXCEPT ![c].pc = "cache", ![c].seen = S]
      BY <1>7 DEF ListVolumes
    <2> DEFINE x == [call[c] EXCEPT !.pc = "cache", !.seen = S]
    <2>3. call' = [call EXCEPT ![c] = x]
      BY <1>1, <2>2 DEF Calls
    <2>4. /\ x \in Call /\ x.op = "list" /\ x.pc = "cache"
      BY <1>1, <2>1 DEF Call, ListPC
    <2> HIDE DEF x
    <2>5. InPlace(x)
      BY <2>4 DEF InPlace, MountPC, UnmountPC, PathPC, ListPC
    <2>6. ASSUME NEW v \in Vol, Ahead(call[c], v) PROVE Count(v)' = users'[v]
      BY <1>2, <2>1, <2>6 DEF Ahead, Count, isCounted
    <2> QED
      BY <1>2, <2>1, <2>3, <2>4, <2>5, <2>6, ListMoves
  <1>8. CASE ListCounted(c)
    <2>1. /\ call[c].pc = "cache" /\ used' = used /\ call[c].op = "list" /\ Counters'
      BY <1>1, <1>2, <1>8 DEF ListCounted, InPlace, ListPC, Counters
    <2>2. CASE Answer(c, "ok")
      BY <1>3, <2>1, <2>2 DEF ListPC
    <2>3. ASSUME NEW v \in call[c].seen,
                 call' = IF isCounted(v)
                         THEN [call EXCEPT ![c].seen = @ \ {v}]
                         ELSE [call EXCEPT ![c].vol = v, ![c].pc = "zero"]
          PROVE  CountInv'
      <3> DEFINE x == IF isCounted(v) THEN [call[c] EXCEPT !.seen = @ \ {v}]
                      ELSE [call[c] EXCEPT !.vol = v, !.pc = "zero"]
      <3>1. call' = [call EXCEPT ![c] = x]
        BY <1>1, <2>3 DEF Calls
      <3>2. /\ x \in Call /\ x.op = "list" /\ x.pc \in {"cache", "zero"}
            /\ x.pc = "zero" => x.vol = v /\ ~isCounted(v)
        BY <1>1, <2>1 DEF Call, ListPC
      <3>3. v \in Vol
        BY <1>1 DEF Call
      <3> HIDE DEF x
      <3>4. InPlace(x)
        BY <3>2, <3>3 DEF InPlace, MountPC, UnmountPC, PathPC, ListPC
      <3>5. ASSUME NEW w \in Vol, Ahead(call[c], w)
            PROVE  Count(w)' = users'[w] /\ (x.pc = "zero" /\ x.vol = w => ~isCounted(w)')
        BY <1>2, <2>1, <3>2, <3>5 DEF Ahead, Count, isCounted
      <3> QED
        BY <1>2, <2>1, <3>1, <3>2, <3>4, <3>5, ListMoves
    <2> QED
      BY <1>8, <2>2, <2>3 DEF ListCounted
  <1>9. CASE ListInit(c)
    <2>1. /\ call[c].pc = "zero" /\ call[c].op = "list" /\ call[c].vol \in Vol
          /\ Set(call[c].vol, 0)
          /\ call' = [call EXCEPT ![c].pc = "cache", ![c].seen = @ \ {call[c].vol}]
      BY <1>1, <1>9 DEF ListInit, initCount, InPlace, ListPC
    <2>2. call[c].vol \in Keys
      BY <2>1 DEF Keys
    <2>3. Counters'
      BY <1>1, <1>2, <2>1, <2>2, SetCounts, SMTT(30) DEF Counters
    <2> DEFINE x == [call[c] EXCEPT !.pc = "cache", !.seen = @ \ {call[c].vol}]
    <2>4. call' = [call EXCEPT ![c] = x]
      BY <1>1, <2>1 DEF Calls
    <2>5. /\ x \in Call /\ x.op = "list" /\ x.pc = "cache"
      BY <1>1, <2>1 DEF Call, ListPC
    <2> HIDE DEF x
    <2>6. InPlace(x)
      BY <2>5 DEF InPlace, MountPC, UnmountPC, PathPC, ListPC
    <2>7. ASSUME NEW v \in Vol, Ahead(call[c], v) PROVE Count(v)' = users'[v]
      <3>1. Count(v) = users[v] /\ v \in Keys
        BY <2>1, <2>7 DEF Ahead, Keys
      <3>2. CASE v = call[c].vol
        <4>1. ~isCounted(v)
          BY <2>1, <2>7, <3>2 DEF Ahead
        <4>2. Count(v)' = 0
          BY <1>1, <2>1, <2>2, <3>2, SetCounts, SMTT(30)
        <4> QED
          BY <1>2, <3>1, <4>1, <4>2 DEF Count
      <3>3. CASE v # call[c].vol
        <4>1. Count(v)' = Count(v)
          BY <1>1, <2>1, <2>2, <3>1, <3>3, SetCounts, SMTT(30)
        <4> QED
          BY <1>2, <3>1, <4>1
      <3> QED
        BY <3>2, <3>3
    <2> QED
      BY <1>2, <2>1, <2>3, <2>4, <2>5, <2>6, <2>7, ListMoves
  <1> QED
    BY <1>4, <1>5, <1>6, <1>7, <1>8, <1>9 DEF OtherStep

LEMMA CallFailsKeeps ==
  ASSUME CountInv, NEW c \in Caller, CallFails(c)
  PROVE  CountInv'
  BY AnswerKeeps DEF CallFails, Fault, Failing

-----------------------------------------------------------------------------
(* Requests, the surroundings and restarts *)

LEMMA BeginKeeps ==
  ASSUME CountInv, NEW c \in Caller, NEW op \in Op, NEW v \in Vol \cup {NoVol},
         NEW byID \in BOOLEAN, NEW over \in BOOLEAN, Begin(c, op, v, byID, over),
         op = "list" \/ v \in Vol
  PROVE  CountInv'
  <1> DEFINE x == [Idle EXCEPT !.op = op, !.vol = v, !.key = IF byID THEN Anon ELSE v,
                               !.pc = op, !.over = over]
  <1>1. Calls /\ Counters /\ call \in [Caller -> Call]
    BY DEF CountInv, Calls
  <1>2. call[c].op = "idle" /\ config' = config /\ used' = used
        /\ call' = [call EXCEPT ![c] = x]
    BY DEF Begin, env
  <1>3. /\ x \in Call /\ x.op = op /\ x.vol = v /\ x.pc = op
        /\ x.key = IF byID THEN Anon ELSE v
    BY ZenonT(60) DEF Idle, Call, Keys, Op, MountPC, UnmountPC, PathPC, ListPC
  <1>4. op \in {"list", "path"} => ~byID
    BY DEF Begin
  <1> HIDE DEF x
  <1>5. InPlace(x)
    BY <1>3, <1>4 DEF InPlace, MountPC, UnmountPC, PathPC, ListPC, Op
  <1>6. Moves(c) /\ call'[c] = x
    BY <1>1, <1>2, <1>3, <1>5, ChangeMoves
  <1>7. Calls'
    BY <1>1, <1>6, SMTT(30) DEF Calls, Moves, InPlace
  <1>8. /\ users' = IF op = "unmount" /\ users[v] > 0
                     THEN [users EXCEPT ![v] = @ - 1] ELSE users
        /\ disturbed \subseteq disturbed' /\ disturbed' \subseteq Vol
    BY <1>1 DEF Begin, Counters
  <1>9. Counters'
    <2>1. users' \in [Vol -> Nat]
      BY <1>1, <1>8, SMTT(30) DEF Counters
    <2> QED
      BY <1>1, <1>2, <1>8, <2>1 DEF Counters
  <1>10. ASSUME NEW w \in Vol \ disturbed', ~config.ignoreUsed PROVE Counted(w)'
    <2>1. Counted(w) /\ users[w] \in Nat
      BY <1>1, <1>8, <1>10 DEF CountInv, Counters
    <2>2. ~On(call[c], w)
      BY <1>2 DEF On
    <2>3. Count(w)' = Count(w) /\ (isCounted(w)' <=> isCounted(w))
      BY <1>2 DEF Count, isCounted
    <2>4. CASE ~On(x, w)
      <3>1. ~On(call[c], w)'
        BY <1>6, <2>4 DEF On
      <3>2. users'[w] = users[w]
        BY <1>1, <1>3, <1>8, <2>4 DEF On, Counters
      <3> QED
        BY <1>6, <2>1, <2>2, <2>3, <3>1, <3>2, FitsKeeps DEF Fits
    <2>5. CASE On(x, w)
      <3>1. op # "path" /\ (w = v \/ op = "list")
        BY <1>3, <2>5 DEF On
      <3>2. ~byID /\ \A d \in Busy(w) : call[d].op = "path"
        BY <1>10, <3>1 DEF Begin
      <3>3. \A d \in Caller : ~On(call[d], w)
        BY <3>2 DEF Busy, On
      <3>4. Count(w) = users[w]
        BY <2>1, <3>3 DEF Counted
      <3>5. \A d \in Caller : d # c => ~On(call[d], w)'
        BY <1>6, <3>3 DEF Moves, On
      <3>6. Ahead(call[c], w)'
        <4>1. op \in {"mount", "unmount"} => x.key = w
          BY <1>3, <3>1, <3>2
        <4>2. op # "unmount" => Count(w)' = users'[w]
          BY <1>8, <2>3, <3>4
        <4>3. op = "unmount" =>
                Count(w)' = users'[w] + 1 \/ (Count(w)' = 0 /\ users'[w] = 0)
          BY <1>1, <1>8, <2>1, <2>3, <3>1, <3>4, SMTT(30) DEF Counters
        <4> QED
          BY <1>3, <1>6, <4>1, <4>2, <4>3 DEF Ahead, Op
      <3>7. Alone(w)'
        BY <3>5 DEF Alone
      <3> QED
        BY <1>6, <2>5, <3>5, <3>6, <3>7 DEF Counted, On
    <2> QED
      BY <2>4, <2>5
  <1> QED
    BY <1>2, <1>7, <1>9, <1>10 DEF CountInv

LEMMA RequestKeeps ==
  ASSUME CountInv, NEW c \in Caller, Request(c)
  PROVE  CountInv'
  BY BeginKeeps, ZenonT(60) DEF Request, Op

\* Nothing that the counters depend on moves.
LEMMA StillKeeps ==
  ASSUME CountInv, config' = config, used' = used, users' = users, call' = call,
         disturbed \subseteq disturbed', disturbed' \subseteq Vol
  PROVE  CountInv'
  <1>1. Calls' /\ Counters'
    BY ZenonT(60) DEF CountInv, Calls, Counters, InPlace
  <1>2. ASSUME NEW v \in Vol \ disturbed', ~config.ignoreUsed PROVE Counted(v)'
    <2>1. Counted(v)
      BY <1>2 DEF CountInv
    <2> QED
      BY <2>1, ZenonT(60) DEF Counted, Alone, On, Ahead, Count, isCounted, resets
  <1> QED
    BY <1>1, <1>2 DEF CountInv

LEMMA AroundKeeps ==
  ASSUME CountInv, NEW v \in Vol,
         DeviceAppears(v) \/ UserWrites(v) \/ OtherAttaches(v) \/ OtherDetaches(v)
  PROVE  CountInv'
  <1>1. disturbed \subseteq Vol
    BY DEF CountInv, Counters
  <1>2. CASE DeviceAppears(v) \/ UserWrites(v) \/ OtherDetaches(v)
    BY <1>1, <1>2, StillKeeps DEF DeviceAppears, UserWrites, OtherDetaches, env
  <1>3. CASE OtherAttaches(v)
    BY <1>1, <1>3, StillKeeps DEF OtherAttaches
  <1> QED
    BY <1>2, <1>3

LEMMA RestartKeeps ==
  ASSUME CountInv, NEW c \in Caller, Restart(c)
  PROVE  CountInv'
  <1> DEFINE x == [Idle EXCEPT !.op = "list", !.pc = "list"]
  <1>1. x \in Call /\ x.op = "list" /\ x.pc = "list"
    BY ZenonT(60) DEF Idle, Call, Keys, Op, MountPC, UnmountPC, PathPC, ListPC
  <1>2. /\ call' = [d \in Caller |-> IF d = c /\ config.cache THEN x ELSE Idle]
        /\ config' = config /\ users' = users /\ used' = NoCounts
        /\ disturbed' = disturbed \cup {v \in Vol : users[v] > 0 \/ Busy(v) # {}}
    BY DEF Restart
  <1> HIDE DEF x
  <1>3. InPlace(x)
    BY <1>1 DEF InPlace, MountPC, UnmountPC, PathPC, ListPC, Op
  <1>4. \A d \in Caller : call'[d] = Idle \/ (d = c /\ call'[d] = x)
    BY <1>2
  <1>5. call' \in [Caller -> Call]
    BY <1>1, <1>2, IdleInPlace
  <1>6. Calls'
    BY <1>3, <1>4, <1>5, IdleInPlace, ZenonT(60) DEF Calls, InPlace
  <1>7. DOMAIN used' = {}
    BY <1>2 DEF NoCounts
  <1>8. Counters'
    BY <1>2, <1>7 DEF CountInv, Counters
  <1>9. ASSUME NEW v \in Vol \ disturbed', ~config.ignoreUsed PROVE Counted(v)'
    <2>1. users'[v] = 0
      BY <1>2, <1>9, SMTT(30) DEF CountInv, Counters
    <2>2. Count(v)' = 0
      BY <1>7 DEF Count, isCounted
    <2>3. \A d \in Caller : On(call[d], v)' => d = c /\ call'[d] = x
      BY <1>4, IdleInPlace DEF On
    <2>4. ASSUME NEW d \in Caller, On(call[d], v)' PROVE Ahead(call[d], v)'
      <3>1. call'[d] = x
        BY <2>3, <2>4
      <3> QED
        BY <1>1, <2>1, <2>2, <3>1 DEF Ahead
    <2> QED
      BY <2>1, <2>2, <2>3, <2>4 DEF Counted, Alone
  <1> QED
    BY <1>2, <1>6, <1>8, <1>9 DEF CountInv

-----------------------------------------------------------------------------
(* The disks have their types *)

LEMMA VolumesTyped == FreshVolume \in Volume /\ NoVolume \in Volume
  BY DEF FreshVolume, NoVolume, Volume

LEMMA UnmountedTyped ==
  ASSUME mnt \in [Vol -> Nat], lost \subseteq Vol, NEW v \in Vol, Unmounted(v)
  PROVE  mnt' \in [Vol -> Nat] /\ lost' \subseteq Vol
  <1>1. (IF mnt[v] > 0 THEN mnt[v] - 1 ELSE 0) \in Nat
    BY SMT
  <1>2. mnt' = [mnt EXCEPT ![v] = IF mnt[v] > 0 THEN mnt[v] - 1 ELSE 0]
    BY DEF Unmounted
  <1>3. lost' \subseteq Vol
    BY DEF Unmounted
  <1> QED
    BY <1>1, <1>2, <1>3

LEMMA RequestDisk ==
  ASSUME DiskOK, Calls, NEW c \in Caller,
         Request(c) \/ MountStep(c) \/ UnmountStep(c) \/ OtherStep(c) \/ CallFails(c)
           \/ Restart(c)
  PROVE  DiskOK'
  <1>1. InPlace(call[c])
    BY DEF Calls
  <1>2. CASE UNCHANGED disk
    BY <1>2 DEF disk, DiskOK
  <1>3. CASE Request(c) \/ CallFails(c) \/ Restart(c)
    BY <1>2, <1>3, ZenonT(60) DEF Request, Begin, CallFails, Fault, Restart
  <1>4. CASE MountStep(c)
    <2>1. ASSUME call[c].pc \in MountPC PROVE call[c].vol \in Vol
      BY <1>1, <2>1 DEF InPlace
    <2>2. CASE MountCreate(c)
      BY <2>1, <2>2, VolumesTyped DEF MountCreate, MountPC, DiskOK
    <2>3. CASE MountPrecaution(c)
      <3>1. call[c].vol \in Vol /\ vol' = vol
        BY <2>1, <2>3 DEF MountPrecaution, MountPC
      <3>2. Unmounted(call[c].vol) \/ (mnt' = mnt /\ lost' = lost)
        BY <2>3 DEF MountPrecaution
      <3> QED
        BY <3>1, <3>2, UnmountedTyped DEF DiskOK
    <2>4. CASE MountAttach(c)
      BY <2>1, <2>4, SMTT(30) DEF MountAttach, MountPC, DiskOK, Volume
    <2>5. CASE MountMkfs(c)
      <3>1. call[c].vol \in Vol /\ vol \in [Vol -> Volume]
        BY <2>1, <2>5 DEF MountMkfs, MountPC, DiskOK
      <3> DEFINE r == [vol[call[c].vol] EXCEPT !.fs = TRUE, !.data = FALSE]
      <3>2. r \in Volume
        BY <3>1, ZenonT(60) DEF Volume
      <3>3. \/ vol' = vol
            \/ vol' = [vol EXCEPT ![call[c].vol].fs = TRUE, ![call[c].vol].data = FALSE]
        BY <2>5 DEF MountMkfs
      <3>4. vol' = vol \/ vol' = [vol EXCEPT ![call[c].vol] = r]
        BY <3>1, <3>3
      <3> HIDE DEF r
      <3>5. vol' \in [Vol -> Volume]
        BY <3>1, <3>2, <3>4
      <3> QED
        BY <2>5, <3>5 DEF MountMkfs, DiskOK
    <2>6. CASE MountMount(c)
      BY <2>1, <2>6, SMTT(30) DEF MountMount, MountPC, DiskOK
    <2>7. CASE MountInspect(c) \/ MountWait(c) \/ MountInspectAgain(c) \/ MountLocal(c)
                 \/ MountProbe(c) \/ MountCheck(c) \/ MountCount(c)
      BY <1>2, <2>7 DEF MountInspect, MountWait, MountInspectAgain, MountLocal,
                        MountProbe, MountCheck, MountCount
    <2> QED
      BY <1>4, <2>2, <2>3, <2>4, <2>5, <2>6, <2>7 DEF MountStep
  <1>5. CASE UnmountStep(c)
    <2>1. ASSUME call[c].pc = "umount" PROVE call[c].vol \in Vol
      BY <1>1, <2>1 DEF InPlace, UnmountPC
    <2>2. CASE UnmountOS(c)
      <3>1. call[c].vol \in Vol /\ vol' = vol /\ Unmounted(call[c].vol)
        BY <2>1, <2>2 DEF UnmountOS
      <3> QED
        BY <3>1, UnmountedTyped DEF DiskOK
    <2>3. CASE UnmountDetach(c)
      BY <2>1, <2>3, SMTT(30) DEF UnmountDetach, DiskOK, Volume
    <2>4. CASE UnmountReset(c) \/ UnmountCounted(c) \/ UnmountLower(c) \/ UnmountInit(c)
                 \/ UnmountInspect(c)
      BY <1>2, <2>4 DEF UnmountReset, UnmountCounted, UnmountLower, UnmountInit,
                        UnmountInspect
    <2> QED
      BY <1>5, <2>2, <2>3, <2>4 DEF UnmountStep
  <1>6. CASE OtherStep(c)
    <2>1. CASE CreateVolume(c) \/ RemoveVolume(c)
      <3>1. call[c].vol \in Vol
        BY <1>1, <2>1 DEF CreateVolume, RemoveVolume, InPlace
      <3> QED
        BY <2>1, <3>1, VolumesTyped DEF CreateVolume, RemoveVolume, DiskOK
    <2>2. CASE PathCounted(c) \/ PathLookup(c) \/ ListVolumes(c) \/ ListCounted(c)
                 \/ ListInit(c)
      BY <1>2, <2>2 DEF PathCounted, PathLookup, ListVolumes, ListCounted, ListInit
    <2> QED
      BY <1>6, <2>1, <2>2 DEF OtherStep
  <1> QED
    BY <1>3, <1>4, <1>5, <1>6

LEMMA AroundDisk ==
  ASSUME DiskOK, NEW v \in Vol,
         DeviceAppears(v) \/ UserWrites(v) \/ OtherAttaches(v) \/ OtherDetaches(v)
  PROVE  DiskOK'
  <1>1. CASE DeviceAppears(v)
    BY <1>1, ZenonT(60) DEF DeviceAppears, DiskOK, Volume
  <1>2. CASE UserWrites(v)
    BY <1>2, ZenonT(60) DEF UserWrites, DiskOK, Volume
  <1>3. CASE OtherAttaches(v)
    BY <1>3, ZenonT(60) DEF OtherAttaches, DiskOK, Volume
  <1>4. CASE OtherDetaches(v)
    BY <1>4, ZenonT(60) DEF OtherDetaches, DiskOK, Volume
  <1> QED
    BY <1>1, <1>2, <1>3, <1>4

-----------------------------------------------------------------------------
LEMMA CountInvInit == Init => CountInv /\ DiskOK
  <1> SUFFICES ASSUME Init PROVE CountInv /\ DiskOK
    OBVIOUS
  <1>1. Calls /\ \A c \in Caller : call[c] = Idle
    BY IdleInPlace DEF Init, Calls
  <1>2. Counters /\ DOMAIN used = {} /\ \A v \in Vol : users[v] = 0
    BY IntegrationAssumption DEF Init, Counters, NoCounts
  <1>3. ASSUME NEW v \in Vol PROVE Counted(v)
    <2>1. Count(v) = users[v]
      BY <1>2 DEF Count, isCounted
    <2>2. \A c \in Caller : ~On(call[c], v)
      BY <1>1, IdleInPlace DEF On
    <2> QED
      BY <2>1, <2>2 DEF Counted, Alone
  <1>4. DiskOK
    BY VolumesTyped DEF Init, DiskOK
  <1> QED
    BY <1>1, <1>2, <1>3, <1>4 DEF CountInv

LEMMA CountInvNext == CountInv /\ DiskOK /\ [Next]_vars => (CountInv /\ DiskOK)'
  <1> SUFFICES ASSUME CountInv, DiskOK, [Next]_vars PROVE CountInv' /\ DiskOK'
    OBVIOUS
  <1>1. Calls /\ disturbed \subseteq Vol
    BY DEF CountInv, Counters
  <1>2. CASE UNCHANGED vars
    <2>1. CountInv'
      BY <1>1, <1>2, StillKeeps DEF vars
    <2>2. DiskOK'
      BY <1>2 DEF vars, DiskOK
    <2> QED
      BY <2>1, <2>2
  <1>3. ASSUME NEW c \in Caller,
               \/ Request(c) \/ MountStep(c) \/ UnmountStep(c)
               \/ OtherStep(c) \/ CallFails(c) \/ Restart(c)
        PROVE  CountInv' /\ DiskOK'
    BY <1>1, <1>3, RequestKeeps, MountStepKeeps, UnmountStepKeeps, OtherStepKeeps,
       CallFailsKeeps, RestartKeeps, RequestDisk
  <1>4. ASSUME NEW v \in Vol,
               DeviceAppears(v) \/ UserWrites(v) \/ OtherAttaches(v) \/ OtherDetaches(v)
        PROVE  CountInv' /\ DiskOK'
    BY <1>4, AroundKeeps, AroundDisk
  <1> QED
    BY <1>2, <1>3, <1>4 DEF Next

\* The counters of the integration driver manager agree with what its users did
\* whenever no request is busy with the volume, however requests for it, failures
\* and restarts follow one another; and the variables have their types.
THEOREM CountersAreRight == Spec => []CountsMatch
  <1>1. CountInv /\ DiskOK => CountsMatch
    <2> SUFFICES ASSUME CountInv, DiskOK PROVE CountsMatch
      OBVIOUS
    <2>1. TypeOK
      BY DEF CountInv, DiskOK, Volume, Counters, Calls, Call, TypeOK
    <2>2. ASSUME NEW v \in Vol, ~config.ignoreUsed, Quiet(v) PROVE Count(v) = users[v]
      <3>1. Counted(v)
        BY <2>2 DEF CountInv, Quiet
      <3>2. \A c \in Caller : ~On(call[c], v)
        BY <2>2 DEF Quiet, Busy, On
      <3> QED
        BY <3>1, <3>2 DEF Counted
    <2> QED
      BY <2>1, <2>2 DEF CountsMatch
  <1> QED
    BY <1>1, CountInvInit, CountInvNext, PTL DEF Spec

-----------------------------------------------------------------------------
(***************************************************************************)
(* Mounts and data.                                                        *)
(*                                                                         *)
(* The invariant ties an undisturbed volume to the one request that        *)
(* changes it: what the volume is like when nobody touches it (Sane), what *)
(* the request knows of it at each of its steps (Knows), and who will take *)
(* a mount away that has no user (Due).                                    *)
(***************************************************************************)

Works(x, v) == x.op \in {"mount", "unmount"} /\ x.vol = v

\* What a mount or an unmount of v that is at step pc relies on.
Knows(pc, over, todo, v) ==
  /\ pc \in {"implicit", "prepare", "attach"} => vol[v].att # "me"
  /\ pc \in {"wait", "inspect", "local", "probe", "mkfs", "osmount", "syscall", "count"}
       => vol[v].att = "me"
  /\ pc \in {"attach", "wait", "inspect", "probe", "mkfs", "osmount", "syscall"}
       => mnt[v] = 0
  /\ pc = "mkfs" /\ ~over => ~vol[v].fs
  /\ pc = "syscall" => vol[v].fs
  /\ pc = "count" => mnt[v] > 0
  /\ pc = "umount" => todo = mnt[v]
  /\ pc = "lower" => users[v] > 0
  /\ pc \in {"counted", "lower"} => ~config.ignoreUsed
  /\ pc \in {"init", "uinspect", "umount"} /\ ~config.ignoreUsed => users[v] = 0

Sane(v) ==
  /\ vol[v].dev => vol[v].att = "me"
  /\ vol[v].att = "me" => vol[v].made /\ v \notin lost
  /\ mnt[v] \in {0, 1} /\ (v \in lost => mnt[v] = 1)
  /\ ~failed => v \notin lost
  /\ mnt[v] > 0 /\ v \notin lost => vol[v].att = "me" /\ vol[v].dev /\ vol[v].fs
  /\ vol[v].data => vol[v].fs /\ vol[v].made
  /\ users[v] > 0 /\ ~config.ignoreUsed => vol[v].att = "me" /\ mnt[v] > 0

\* The request will take the mount away, or count its user.
Settles(x, v) == Works(x, v) /\ (x.op = "unmount" \/ x.pc = "count")

Due(v) ==
  ~failed /\ mnt[v] > 0 => users[v] > 0 \/ \E c \in Caller : Settles(call[c], v)

Host(v) ==
  /\ Sane(v) /\ Due(v)
  /\ \A c \in Caller :
       Works(call[c], v) => Knows(call[c].pc, call[c].over, call[c].todo, v)

HostInv == \A v \in Vol \ disturbed : Alone(v) /\ Host(v)

-----------------------------------------------------------------------------

LEMMA StillHost ==
  ASSUME NEW v \in Vol, Host(v), vol'[v] = vol[v], mnt'[v] = mnt[v],
         v \in lost' <=> v \in lost, users'[v] = users[v], config' = config,
         ~failed' => ~failed,
         \A d \in Caller : \/ call'[d] = call[d]
                           \/ ~Works(call[d], v) /\ ~Works(call[d], v)'
  PROVE  Host(v)'
  <1>1. Sane(v)'
    BY DEF Host, Sane
  <1>2. ASSUME NEW d \in Caller, Works(call[d], v)'
        PROVE  Knows(call[d].pc, call[d].over, call[d].todo, v)'
    <2>1. call'[d] = call[d] /\ Works(call[d], v)
      BY <1>2 DEF Works
    <2>2. Knows(call[d].pc, call[d].over, call[d].todo, v)
      BY <2>1 DEF Host
    <2> QED
      BY <2>1, <2>2 DEF Knows
  <1>3. \A d \in Caller : Settles(call[d], v) => Settles(call[d], v)'
    BY DEF Settles, Works
  <1>4. Due(v)'
    BY <1>3 DEF Host, Due
  <1> QED
    BY <1>1, <1>2, <1>4 DEF Host

\* The request on v makes a step.
LEMMA OwnHost ==
  ASSUME NEW v \in Vol, Alone(v), Host(v), NEW c \in Caller, On(call[c], v), Moves(c),
         Sane(v)',
         Works(call[c], v)' => Knows(call[c].pc, call[c].over, call[c].todo, v)',
         ~failed' /\ mnt'[v] > 0 => users'[v] > 0 \/ Settles(call[c], v)'
  PROVE  Host(v)'
  <1>1. \A d \in Caller : d # c => ~Works(call[d], v)'
    BY DEF Alone, On, Works, Moves
  <1>2. Due(v)'
    BY DEF Due
  <1> QED
    BY <1>1, <1>2 DEF Host

LEMMA OwnDue ==
  ASSUME NEW v \in Vol, Alone(v), Host(v), NEW c \in Caller, On(call[c], v),
         ~Settles(call[c], v), ~failed, mnt[v] > 0
  PROVE  users[v] > 0
  BY DEF Host, Due, Alone, On, Settles, Works

LEMMA GotoKeeps ==
  ASSUME Calls, NEW c \in Caller, NEW pc, Goto(c, pc),
         \/ call[c].op = "mount" /\ pc \in MountPC
         \/ call[c].op = "unmount" /\ pc \in UnmountPC
  PROVE  /\ Moves(c) /\ call'[c].op = call[c].op /\ call'[c].vol = call[c].vol
         /\ call'[c].pc = pc
         /\ call'[c].over = call[c].over /\ call'[c].todo = call[c].todo
  <1>1. Moves(c) /\ call'[c].op = call[c].op /\ call'[c].vol = call[c].vol /\ call'[c].pc = pc
    BY GotoMoves
  <1>2. call'[c].over = call[c].over /\ call'[c].todo = call[c].todo
    BY DEF Goto, Calls, Call
  <1> QED
    BY <1>1, <1>2

\* Going on without touching anything.
LEMMA GoesOn ==
  ASSUME Calls, NEW v \in Vol, Alone(v), Host(v), NEW c \in Caller, Works(call[c], v),
         NEW pc, Goto(c, pc),
         \/ call[c].op = "mount" /\ pc \in MountPC
         \/ call[c].op = "unmount" /\ pc \in UnmountPC,
         vol'[v] = vol[v], mnt'[v] = mnt[v], v \in lost' <=> v \in lost,
         users'[v] = users[v], config' = config, ~failed' => ~failed,
         Knows(pc, call[c].over, call[c].todo, v),
         Settles(call[c], v) => call[c].op = "unmount"
  PROVE  Host(v)'
  <1>1. /\ Moves(c) /\ call'[c].op = call[c].op /\ call'[c].vol = call[c].vol
        /\ call'[c].pc = pc
        /\ call'[c].over = call[c].over /\ call'[c].todo = call[c].todo
    BY GotoKeeps
  <1>2. On(call[c], v)
    BY DEF Works, On
  <1>3. Sane(v)'
    BY DEF Host, Sane
  <1>4. Knows(call[c].pc, call[c].over, call[c].todo, v)'
    BY <1>1 DEF Knows
  <1>5. ~failed' /\ mnt'[v] > 0 => users'[v] > 0 \/ Settles(call[c], v)'
    <2>1. CASE call[c].op = "unmount"
      BY <1>1, <2>1 DEF Settles, Works
    <2>2. CASE call[c].op # "unmount"
      BY <1>2, <2>2, OwnDue
    <2> QED
      BY <2>1, <2>2
  <1> QED
    BY <1>1, <1>2, <1>3, <1>4, <1>5, OwnHost

\* Giving up without touching anything.
LEMMA GivesUp ==
  ASSUME Calls, NEW v \in Vol, Alone(v), Host(v), NEW c \in Caller, On(call[c], v),
         NEW res, Answer(c, res),
         vol'[v] = vol[v], mnt'[v] = mnt[v], v \in lost' <=> v \in lost,
         users'[v] = users[v], config' = config, ~failed' => ~failed,
         ~failed' /\ mnt[v] > 0 => users[v] > 0 \/ ~Settles(call[c], v)
  PROVE  Host(v)'
  <1>1. Moves(c) /\ ~Works(call[c], v)'
    BY AnswerMoves, IdleInPlace DEF Works
  <1>2. Sane(v)'
    BY DEF Host, Sane
  <1>3. ~failed' /\ mnt'[v] > 0 => users'[v] > 0
    BY OwnDue
  <1> QED
    BY <1>1, <1>2, <1>3, OwnHost

-----------------------------------------------------------------------------
(* The steps of a mount, for its volume *)

LEMMA MountHost ==
  ASSUME Calls, Counters, DiskOK, NEW c \in Caller, MountStep(c), NEW v \in Vol,
         v = call[c].vol, v \notin disturbed', Alone(v), Host(v)
  PROVE  Host(v)'
  <1>1. call[c] \in Call /\ InPlace(call[c]) /\ vol[v] \in Volume /\ mnt[v] \in Nat
    BY DEF Calls, DiskOK
  <1>2. call[c].op = "mount" /\ call[c].pc \in MountPC
    BY <1>1 DEF MountStep, MountInspect, MountCreate, MountPrecaution, MountAttach,
                MountWait, MountInspectAgain, MountLocal, MountProbe, MountMkfs,
                MountCheck, MountMount, MountCount, InPlace, MountPC
  <1>3. /\ Works(call[c], v) /\ On(call[c], v) /\ Sane(v)
        /\ Knows(call[c].pc, call[c].over, call[c].todo, v)
    BY <1>2 DEF Works, On, Host
  <1>4. call[c].pc # "count" => ~Settles(call[c], v)
    BY <1>2 DEF Settles
  <1>5. config' = config
    BY DEF MountStep, MountInspect, MountCreate, MountPrecaution, MountAttach,
           MountWait, MountInspectAgain, MountLocal, MountProbe, MountMkfs,
           MountCheck, MountMount, MountCount, env
  <1>6. ASSUME NEW pc \in MountPC, Goto(c, pc), UNCHANGED <<failed, disk, users>>,
               Knows(pc, call[c].over, call[c].todo, v), call[c].pc # "count"
        PROVE  Host(v)'
    BY <1>2, <1>3, <1>4, <1>5, <1>6, GoesOn DEF disk
  <1>7. ASSUME Answer(c, "error"), UNCHANGED <<failed, disk, users>>, call[c].pc # "count"
        PROVE  Host(v)'
    BY <1>3, <1>4, <1>5, <1>7, GivesUp DEF disk
  <1>8. CASE MountInspect(c)
    <2>1. call[c].pc = "mount" /\ UNCHANGED <<failed, disk, users>>
      BY <1>8 DEF MountInspect, env
    <2>2. CASE Goto(c, "local") /\ vol[v].att = "me"
      BY <1>6, <2>1, <2>2 DEF MountPC, Knows
    <2>3. CASE Goto(c, "prepare") /\ vol[v].att # "me"
      BY <1>6, <2>1, <2>3 DEF MountPC, Knows
    <2>4. CASE Goto(c, "implicit") /\ vol[v].att # "me"
      BY <1>6, <2>1, <2>4 DEF MountPC, Knows
    <2>5. CASE Answer(c, "error")
      BY <1>7, <2>1, <2>5
    <2> QED
      BY <1>3, <1>8, <2>2, <2>3, <2>4, <2>5 DEF MountInspect, Here, Free, Sane
  <1>9. CASE MountCreate(c)
    <2>1. call[c].pc = "implicit" /\ UNCHANGED <<failed, mnt, lost, users>>
      BY <1>9 DEF MountCreate, env
    <2>2. CASE vol[v].made
      BY <1>7, <1>9, <2>1, <2>2 DEF MountCreate, disk
    <2>3. CASE ~vol[v].made
      <3>1. Goto(c, "prepare") /\ vol' = [vol EXCEPT ![v] = FreshVolume]
        BY <1>9, <2>3 DEF MountCreate
      <3>2. /\ Moves(c) /\ call'[c].op = "mount" /\ call'[c].vol = v
            /\ call'[c].pc = "prepare"
        BY <1>2, <3>1, GotoKeeps DEF MountPC
      <3>3. vol'[v] = FreshVolume
        BY <3>1 DEF DiskOK
      <3>4. Sane(v)'
        BY <1>3, <1>5, <2>1, <2>3, <3>3, SMTT(30) DEF Sane, FreshVolume
      <3>5. Knows(call[c].pc, call[c].over, call[c].todo, v)'
        BY <3>2, <3>3, SMTT(30) DEF Knows, FreshVolume
      <3>6. ~failed' /\ mnt'[v] > 0 => users'[v] > 0
        BY <1>3, <1>4, <2>1, OwnDue
      <3> QED
        BY <1>3, <3>2, <3>4, <3>5, <3>6, OwnHost
    <2> QED
      BY <2>2, <2>3
  <1>10. CASE MountPrecaution(c)
    <2>1. /\ call[c].pc = "prepare" /\ Goto(c, "attach") /\ Unmounted(v)
          /\ failed' = failed /\ vol' = vol /\ users' = users
      BY <1>10 DEF MountPrecaution
    <2>2. /\ Moves(c) /\ call'[c].op = "mount" /\ call'[c].vol = v
          /\ call'[c].pc = "attach"
      BY <1>2, <2>1, GotoKeeps DEF MountPC
    <2>3. mnt'[v] = 0 /\ v \notin lost'
      BY <1>3, <2>1, SMTT(30) DEF Unmounted, DiskOK, Sane
    <2>4. vol[v].att # "me"
      BY <1>3, <2>1, ZenonT(60) DEF Knows
    <2>5. Sane(v)'
      BY <1>3, <1>5, <2>1, <2>3, <2>4, SMTT(30) DEF Sane
    <2>6. Knows(call[c].pc, call[c].over, call[c].todo, v)'
      BY <2>1, <2>2, <2>3, <2>4 DEF Knows
    <2> QED
      BY <1>3, <2>2, <2>3, <2>5, <2>6, OwnHost, SMTT(30)
  <1>11. CASE MountAttach(c)
    <2>1. call[c].pc = "attach" /\ UNCHANGED <<failed, mnt, users>>
      BY <1>11 DEF MountAttach, env
    <2>2. CASE Answer(c, "error") /\ UNCHANGED <<vol, lost>>
      BY <1>7, <2>1, <2>2 DEF disk
    <2>3. ASSUME NEW pc \in {"wait", "inspect"}, Goto(c, pc), vol[v].made,
                 vol' = [vol EXCEPT ![v].att = "me", ![v].dev = FALSE],
                 lost' = IF mnt[v] > 0 THEN lost \cup {v} ELSE lost
          PROVE  Host(v)'
      <3>1. /\ Moves(c) /\ call'[c].op = "mount" /\ call'[c].vol = v
            /\ call'[c].pc = pc
        BY <1>2, <2>3, GotoKeeps, ZenonT(60) DEF MountPC
      <3>2. mnt[v] = 0 /\ v \notin lost
        BY <1>3, <2>1, SMTT(30) DEF Knows, Sane
      <3>3. /\ vol'[v].att = "me" /\ ~vol'[v].dev /\ vol'[v].made = vol[v].made
            /\ vol'[v].fs = vol[v].fs /\ vol'[v].data = vol[v].data
        <4> DEFINE r == [vol[v] EXCEPT !.att = "me", !.dev = FALSE]
        <4>1. vol'[v] = r
          BY <2>3 DEF DiskOK, Volume
        <4>2. /\ r.att = "me" /\ ~r.dev /\ r.made = vol[v].made
              /\ r.fs = vol[v].fs /\ r.data = vol[v].data
          BY <1>1, ZenonT(60) DEF Volume
        <4> QED
          BY <4>1, <4>2
      <3>4. Sane(v)'
        <4>1. mnt'[v] = 0 /\ v \notin lost' /\ users'[v] = users[v] /\ config' = config
          BY <1>5, <2>1, <2>3, <3>2, SMTT(30)
        <4>2. users[v] > 0 => config.ignoreUsed
          BY <1>3, <3>2, SMTT(30) DEF Sane
        <4>3. vol'[v].data => vol'[v].fs /\ vol'[v].made
          BY <1>3, <3>3 DEF Sane
        <4>4. vol'[v].made
          BY <2>3, <3>3
        <4> QED
          BY <3>3, <4>1, <4>2, <4>3, <4>4, SMTT(30) DEF Sane
      <3>5. Knows(call[c].pc, call[c].over, call[c].todo, v)'
        BY <2>1, <2>3, <3>1, <3>2, <3>3 DEF Knows
      <3> QED
        BY <1>3, <2>1, <3>1, <3>2, <3>4, <3>5, OwnHost, SMTT(30)
    <2> QED
      BY <1>11, <2>2, <2>3 DEF MountAttach
  <1>12. CASE MountWait(c) \/ MountInspectAgain(c)
    <2>1. call[c].pc \in {"wait", "inspect"} /\ UNCHANGED <<failed, disk, users>>
      BY <1>12 DEF MountWait, MountInspectAgain, env
    <2>2. \A pc \in {"inspect", "local"} : Knows(pc, call[c].over, call[c].todo, v)
      BY <1>3, <2>1 DEF Knows
    <2>3. Answer(c, "error") \/ \E pc \in {"inspect", "local"} : Goto(c, pc)
      BY <1>12 DEF MountWait, MountInspectAgain
    <2> QED
      BY <1>6, <1>7, <2>1, <2>2, <2>3 DEF MountPC
  <1>13. CASE MountLocal(c)
    <2>1. call[c].pc = "local" /\ UNCHANGED <<failed, disk, users>>
      BY <1>13 DEF MountLocal, env
    <2>2. vol[v].att = "me" /\ Mounts(v) = {mnt[v]}
      BY <1>3, <2>1 DEF Knows, Sane, Mounts
    <2>3. Goto(c, IF mnt[v] > 0 THEN "count" ELSE "probe")
      BY <1>13, <2>2 DEF MountLocal
    <2>4. Knows(IF mnt[v] > 0 THEN "count" ELSE "probe", call[c].over, call[c].todo, v)
      BY <1>1, <2>2, SMTT(30) DEF Knows
    <2> QED
      BY <1>6, <2>1, <2>3, <2>4 DEF MountPC
  <1>14. CASE MountProbe(c)
    <2>1. call[c].pc = "probe" /\ UNCHANGED <<failed, disk, users>>
      BY <1>14 DEF MountProbe, env
    <2>2. CASE Goto(c, "mkfs") /\ (call[c].over \/ ~vol[v].fs)
      BY <1>3, <1>6, <2>1, <2>2 DEF MountPC, Knows
    <2>3. CASE Goto(c, "osmount")
      BY <1>3, <1>6, <2>1, <2>3 DEF MountPC, Knows
    <2> QED
      BY <1>14, <2>2, <2>3 DEF MountProbe
  <1>15. CASE MountMkfs(c)
    <2>1. call[c].pc = "mkfs" /\ UNCHANGED <<failed, mnt, lost, users>>
      BY <1>15 DEF MountMkfs, env
    <2>2. CASE ~vol[v].dev
      BY <1>7, <1>15, <2>1, <2>2 DEF MountMkfs, disk
    <2>3. CASE vol[v].dev
      <3>1. Goto(c, "osmount")
            /\ vol' = [vol EXCEPT ![v].fs = TRUE, ![v].data = FALSE]
        BY <1>15, <2>3 DEF MountMkfs
      <3>2. /\ Moves(c) /\ call'[c].op = "mount" /\ call'[c].vol = v
            /\ call'[c].pc = "osmount"
        BY <1>2, <3>1, GotoKeeps DEF MountPC
      <3>3. /\ vol'[v].fs /\ ~vol'[v].data /\ vol'[v].made = vol[v].made
            /\ vol'[v].att = vol[v].att /\ vol'[v].dev = vol[v].dev
        BY <3>1, SMTT(30) DEF DiskOK, Volume
      <3>4. vol[v].att = "me" /\ mnt[v] = 0
        BY <1>3, <2>1 DEF Knows
      <3>5. Sane(v)'
        BY <1>3, <1>5, <2>1, <3>3, <3>4 DEF Sane
      <3>6. Knows(call[c].pc, call[c].over, call[c].todo, v)'
        BY <2>1, <3>2, <3>3, <3>4 DEF Knows
      <3> QED
        BY <1>3, <2>1, <3>2, <3>4, <3>5, <3>6, OwnHost, SMTT(30)
    <2> QED
      BY <2>2, <2>3
  <1>16. CASE MountCheck(c)
    <2>1. call[c].pc = "osmount" /\ UNCHANGED <<failed, disk, users>>
      BY <1>16 DEF MountCheck, env
    <2>2. CASE Answer(c, "error")
      BY <1>7, <2>1, <2>2
    <2>3. CASE Goto(c, "syscall") /\ vol[v].fs
      BY <1>3, <1>6, <2>1, <2>3 DEF MountPC, Knows
    <2> QED
      BY <1>3, <1>16, <2>1, <2>2, <2>3, SMTT(30) DEF MountCheck, Knows
  <1>17. CASE MountMount(c)
    <2>1. call[c].pc = "syscall" /\ UNCHANGED <<failed, vol, lost, users>>
      BY <1>17 DEF MountMount, env
    <2>2. CASE ~vol[v].dev
      BY <1>7, <1>17, <2>1, <2>2 DEF MountMount, disk
    <2>3. CASE vol[v].dev
      <3>1. Goto(c, "count") /\ mnt' = [mnt EXCEPT ![v] = @ + 1]
        BY <1>17, <2>3 DEF MountMount
      <3>2. /\ Moves(c) /\ call'[c].op = "mount" /\ call'[c].vol = v
            /\ call'[c].pc = "count"
        BY <1>2, <3>1, GotoKeeps DEF MountPC
      <3>3. vol[v].att = "me" /\ mnt[v] = 0 /\ vol[v].fs
        BY <1>3, <2>1 DEF Knows
      <3>4. mnt'[v] = 1
        BY <3>1, <3>3, SMTT(30) DEF DiskOK
      <3>5. Sane(v)'
        BY <1>3, <1>5, <2>1, <2>3, <3>3, <3>4, SMTT(30) DEF Sane
      <3>6. Knows(call[c].pc, call[c].over, call[c].todo, v)'
        BY <2>1, <3>2, <3>3, <3>4, SMTT(30) DEF Knows
      <3>7. Settles(call[c], v)'
        BY <3>2 DEF Settles, Works
      <3> QED
        BY <1>3, <3>2, <3>5, <3>6, <3>7, OwnHost
    <2> QED
      BY <2>2, <2>3
  <1>18. CASE MountCount(c)
    <2>1. /\ call[c].pc = "count" /\ UNCHANGED <<failed, disk>> /\ Answer(c, "ok")
          /\ users' = [users EXCEPT ![v] = @ + 1]
      BY <1>18 DEF MountCount, env
    <2>2. Moves(c) /\ ~Works(call[c], v)'
      BY <2>1, AnswerMoves, IdleInPlace DEF Works
    <2>3. users'[v] > 0
      BY <2>1, SMTT(30) DEF Counters
    <2>4. vol[v].att = "me" /\ mnt[v] > 0
      BY <1>3, <2>1 DEF Knows
    <2>5. Sane(v)'
      BY <1>3, <1>5, <2>1, <2>4 DEF Sane, disk
    <2> QED
      BY <1>3, <2>2, <2>3, <2>5, OwnHost
  <1> QED
    BY <1>8, <1>9, <1>10, <1>11, <1>12, <1>13, <1>14, <1>15, <1>16, <1>17, <1>18
    DEF MountStep

-----------------------------------------------------------------------------
(* The steps of an unmount, for its volume *)

LEMMA UnmountHost ==
  ASSUME CountInv, DiskOK, NEW c \in Caller, UnmountStep(c), NEW v \in Vol \ disturbed,
         v = call[c].vol, Alone(v), Host(v)
  PROVE  Host(v)'
  <1>1. /\ Calls /\ Counters /\ call[c] \in Call /\ InPlace(call[c])
        /\ vol[v] \in Volume /\ mnt[v] \in Nat /\ users[v] \in Nat
    BY DEF CountInv, Calls, Counters, DiskOK
  <1>2. call[c].op = "unmount" /\ call[c].pc \in UnmountPC
    BY <1>1 DEF UnmountStep, UnmountReset, UnmountCounted, UnmountLower, UnmountInit,
                UnmountInspect, UnmountOS, UnmountDetach, InPlace, UnmountPC
  <1>3. /\ Works(call[c], v) /\ On(call[c], v) /\ Sane(v)
        /\ Knows(call[c].pc, call[c].over, call[c].todo, v)
    BY <1>2 DEF Works, On, Host
  <1>4. ~config.ignoreUsed => Ahead(call[c], v) /\ call[c].key = v
    BY <1>2, <1>3, SMTT(30) DEF CountInv, Counted, Ahead
  <1>5. config' = config /\ users' = users /\ failed' = failed
    BY DEF UnmountStep, UnmountReset, UnmountCounted, UnmountLower, UnmountInit,
           UnmountInspect, UnmountOS, UnmountDetach, env
  <1>6. ASSUME NEW pc \in UnmountPC, Goto(c, pc), UNCHANGED disk,
               Knows(pc, call[c].over, call[c].todo, v)
        PROVE  Host(v)'
    BY <1>1, <1>2, <1>3, <1>5, <1>6, GoesOn DEF disk
  <1>7. ASSUME NEW res, Answer(c, res), UNCHANGED disk,
               ~failed /\ mnt[v] > 0 => users[v] > 0
        PROVE  Host(v)'
    BY <1>1, <1>3, <1>5, <1>7, GivesUp DEF disk
  <1>8. CASE UnmountReset(c)
    <2>1. call[c].pc = "unmount" /\ UNCHANGED disk
      BY <1>8 DEF UnmountReset
    <2>2. CASE config.ignoreUsed
      <3>1. Goto(c, "init")
        BY <1>8, <2>2 DEF UnmountReset
      <3> QED
        BY <1>6, <2>1, <2>2, <3>1 DEF Knows, UnmountPC
    <2>3. CASE ~config.ignoreUsed /\ resets(v)
      <3>1. Goto(c, "init")
        BY <1>4, <1>8, <2>3 DEF UnmountReset
      <3>2. Count(v) = users[v] + 1 \/ (Count(v) = 0 /\ users[v] = 0)
        BY <1>4, <2>1, <2>3 DEF Ahead
      <3>3. users[v] = 0
        BY <1>1, <2>3, <3>2, SMTT(30) DEF resets, Count, Counters, isCounted
      <3> QED
        BY <1>6, <2>1, <3>1, <3>3 DEF Knows, UnmountPC
    <2>4. CASE ~config.ignoreUsed /\ ~resets(v)
      <3>1. Goto(c, "counted")
        BY <1>4, <1>8, <2>4 DEF UnmountReset
      <3> QED
        BY <1>6, <2>1, <2>4, <3>1 DEF Knows, UnmountPC
    <2> QED
      BY <2>2, <2>3, <2>4
  <1>9. CASE UnmountCounted(c)
    <2>1. /\ call[c].pc = "counted" /\ UNCHANGED disk
          /\ Goto(c, IF isCounted(call[c].key) THEN "lower" ELSE "init")
      BY <1>9 DEF UnmountCounted
    <2>2. ~config.ignoreUsed
      BY <1>3, <2>1 DEF Knows
    <2>3. call[c].key = v /\ ~resets(v)
          /\ (Count(v) = users[v] + 1 \/ (Count(v) = 0 /\ users[v] = 0))
      BY <1>4, <2>1, <2>2 DEF Ahead
    <2>4. CASE isCounted(v)
      <3>1. Count(v) > 1
        BY <1>1, <2>3, <2>4, SMTT(30) DEF resets, Count, Counters, isCounted
      <3>2. users[v] > 0
        BY <1>1, <2>3, <3>1, SMTT(30)
      <3> QED
        BY <1>6, <2>1, <2>2, <2>3, <2>4, <3>2 DEF Knows, UnmountPC
    <2>5. CASE ~isCounted(v)
      <3>1. users[v] = 0
        BY <1>1, <2>3, <2>5, SMTT(30) DEF Count
      <3> QED
        BY <1>6, <2>1, <2>2, <2>3, <2>5, <3>1 DEF Knows, UnmountPC
    <2> QED
      BY <2>4, <2>5
  <1>10. CASE UnmountLower(c)
    <2>1. call[c].pc = "lower" /\ Answer(c, "ok") /\ UNCHANGED disk
      BY <1>10 DEF UnmountLower
    <2>2. users[v] > 0
      BY <1>3, <2>1 DEF Knows
    <2> QED
      BY <1>7, <2>1, <2>2
  <1>11. CASE UnmountInit(c)
    <2>1. call[c].pc = "init" /\ Goto(c, "uinspect") /\ UNCHANGED disk
      BY <1>11 DEF UnmountInit
    <2> QED
      BY <1>3, <1>6, <2>1 DEF Knows, UnmountPC
  <1>12. CASE UnmountInspect(c)
    <2>1. call[c].pc = "uinspect" /\ UNCHANGED disk
      BY <1>12 DEF UnmountInspect
    <2>2. CASE Here(v) /\ vol[v].dev
      <3>1. PICK n \in Mounts(v) : call' = [call EXCEPT ![c].pc = "umount", ![c].todo = n]
        BY <1>12, <2>2 DEF UnmountInspect
      <3>2. n = mnt[v]
        BY <1>3, <2>2, <3>1 DEF Mounts, Sane, Here
      <3> DEFINE x == [call[c] EXCEPT !.pc = "umount", !.todo = n]
      <3>3. call' = [call EXCEPT ![c] = x]
        BY <1>1, <3>1 DEF Calls
      <3>4. /\ x \in Call /\ x.op = "unmount" /\ x.vol = v /\ x.pc = "umount"
            /\ x.todo = mnt[v] /\ x.key = call[c].key
        BY <1>1, <1>2, <3>2 DEF Call, UnmountPC
      <3> HIDE DEF x
      <3>5. InPlace(x)
        BY <1>1, <1>2, <3>4 DEF InPlace, MountPC, UnmountPC, PathPC, ListPC
      <3>6. Moves(c) /\ call'[c] = x
        BY <1>1, <3>3, <3>4, <3>5, ChangeMoves
      <3>7. Sane(v)'
        BY <1>3, <1>5, <2>1 DEF Sane, disk
      <3>8. Knows(call[c].pc, call[c].over, call[c].todo, v)'
        BY <1>3, <1>5, <2>1, <3>4, <3>6 DEF Knows, disk
      <3>9. Settles(call[c], v)'
        BY <3>4, <3>6 DEF Settles, Works
      <3> QED
        BY <1>3, <3>6, <3>7, <3>8, <3>9, OwnHost
    <2>3. CASE ~(Here(v) /\ vol[v].dev)
      <3>1. Answer(c, "error")
        BY <1>12, <2>3 DEF UnmountInspect
      <3>2. ~failed => mnt[v] = 0
        BY <1>3, <2>3, SMTT(30) DEF Sane, Here
      <3> QED
        BY <1>7, <2>1, <3>1, <3>2, SMTT(30)
    <2> QED
      BY <2>2, <2>3
  <1>13. CASE UnmountOS(c)
    <2>1. /\ call[c].pc = "umount" /\ call[c].todo > 0 /\ Unmounted(v)
          /\ call' = [call EXCEPT ![c].todo = @ - 1] /\ vol' = vol
      BY <1>13 DEF UnmountOS
    <2>2. call[c].todo = mnt[v] /\ mnt[v] = 1
      BY <1>3, <2>1, SMTT(30) DEF Knows, Sane
    <2>3. mnt'[v] = 0 /\ v \notin lost'
      BY <2>1, <2>2, SMTT(30) DEF Unmounted, DiskOK
    <2> DEFINE x == [call[c] EXCEPT !.todo = 0]
    <2>4. call' = [call EXCEPT ![c] = x]
      BY <1>1, <2>1, <2>2, SMTT(30) DEF Calls
    <2>5. /\ x \in Call /\ x.op = "unmount" /\ x.vol = v /\ x.pc = "umount"
          /\ x.todo = 0 /\ x.key = call[c].key
      BY <1>1, <1>2, <2>1 DEF Call, UnmountPC
    <2> HIDE DEF x
    <2>6. InPlace(x)
      BY <1>1, <1>2, <2>5 DEF InPlace, MountPC, UnmountPC, PathPC, ListPC
    <2>7. Moves(c) /\ call'[c] = x
      BY <1>1, <2>4, <2>5, <2>6, ChangeMoves
    <2>8. ~config.ignoreUsed => users[v] = 0
      BY <1>3, <2>1, ZenonT(60) DEF Knows
    <2>9. Sane(v)'
      BY <1>1, <1>3, <1>5, <2>1, <2>3, <2>8, SMTT(30) DEF Sane
    <2>10. Knows(call[c].pc, call[c].over, call[c].todo, v)'
      BY <1>5, <2>3, <2>5, <2>7, <2>8 DEF Knows
    <2>11. Settles(call[c], v)'
      BY <2>5, <2>7, ZenonT(60) DEF Settles, Works
    <2> QED
      BY <1>3, <2>7, <2>9, <2>10, <2>11, OwnHost
  <1>14. CASE UnmountDetach(c)
    <2>1. call[c].pc = "umount" /\ call[c].todo = 0 /\ mnt' = mnt
      BY <1>14 DEF UnmountDetach
    <2>2. mnt[v] = 0 /\ (~config.ignoreUsed => users[v] = 0)
      BY <1>3, <2>1 DEF Knows
    <2>3. CASE Answer(c, "error") /\ vol' = vol /\ lost' = lost
      BY <1>7, <2>1, <2>2, <2>3, SMTT(30) DEF disk
    <2>4. CASE Answer(c, "ok") /\ lost' = lost
               /\ vol' = [vol EXCEPT ![v].att = "none", ![v].dev = FALSE]
      <3> DEFINE r == [vol[v] EXCEPT !.att = "none", !.dev = FALSE]
      <3>1. vol'[v] = r
        BY <2>4 DEF DiskOK, Volume
      <3>2. /\ r.att = "none" /\ ~r.dev /\ r.made = vol[v].made
            /\ r.fs = vol[v].fs /\ r.data = vol[v].data
        BY <1>1 DEF Volume
      <3> HIDE DEF r
      <3>3. Moves(c) /\ ~Works(call[c], v)'
        BY <1>1, <2>4, AnswerMoves, IdleInPlace DEF Works
      <3>4. vol'[v].data => vol'[v].fs /\ vol'[v].made
        BY <1>3, <3>1, <3>2, ZenonT(60) DEF Sane
      <3>5. mnt'[v] = 0 /\ v \notin lost'
        BY <1>3, <2>1, <2>2, <2>4, SMTT(30) DEF Sane
      <3>6. ~config.ignoreUsed' => users'[v] = 0
        BY <1>5, <2>2, ZenonT(60)
      <3>7. vol'[v].att = "none" /\ ~vol'[v].dev
        BY <3>1, <3>2, ZenonT(60)
      <3>8. Sane(v)'
        BY <3>4, <3>5, <3>6, <3>7, SMTT(30) DEF Sane
      <3> QED
        BY <1>3, <2>1, <2>2, <3>3, <3>8, OwnHost, SMTT(30)
    <2> QED
      BY <1>14, <2>2, <2>3, <2>4, SMTT(30) DEF UnmountDetach
  <1> QED
    BY <1>8, <1>9, <1>10, <1>11, <1>12, <1>13, <1>14 DEF UnmountStep

-----------------------------------------------------------------------------
(* What any step of a request has in common *)

CallStep(c) == MountStep(c) \/ UnmountStep(c) \/ OtherStep(c) \/ CallFails(c)

LEMMA ListGoes ==
  ASSUME Calls, NEW c \in Caller, ListVolumes(c) \/ ListCounted(c) \/ ListInit(c)
  PROVE  Moves(c) /\ call[c].op = "list" /\ call'[c].op \in {"idle", "list"}
  <1>1. call[c] \in Call /\ InPlace(call[c])
    BY DEF Calls
  <1>2. call[c].op = "list"
    BY <1>1 DEF ListVolumes, ListCounted, ListInit, InPlace, ListPC
  <1>3. ASSUME NEW x \in Call, x.op = "list", x.pc \in ListPC,
               x.pc = "zero" => x.vol \in Vol, call' = [call EXCEPT ![c] = x]
        PROVE  Moves(c) /\ call'[c].op \in {"idle", "list"}
    <2>1. InPlace(x)
      BY <1>3 DEF InPlace, MountPC, UnmountPC, PathPC, ListPC
    <2> QED
      BY <1>3, <2>1, ChangeMoves
  <1>4. CASE ListVolumes(c)
    <2>1. PICK S \in SUBSET Vol :
             call' = [call EXCEPT ![c].pc = "cache", ![c].seen = S]
      BY <1>4 DEF ListVolumes
    <2> DEFINE x == [call[c] EXCEPT !.pc = "cache", !.seen = S]
    <2>2. call' = [call EXCEPT ![c] = x]
      BY <2>1 DEF Calls
    <2>3. x \in Call /\ x.op = "list" /\ x.pc = "cache"
      BY <1>1, <1>2 DEF Call, ListPC
    <2> HIDE DEF x
    <2> QED
      BY <1>2, <1>3, <2>2, <2>3 DEF ListPC
  <1>5. CASE ListCounted(c)
    <2>1. CASE Answer(c, "ok")
      BY <1>2, <2>1, AnswerMoves, IdleInPlace
    <2>2. ASSUME NEW v \in call[c].seen,
                 call' = IF isCounted(v)
                         THEN [call EXCEPT ![c].seen = @ \ {v}]
                         ELSE [call EXCEPT ![c].vol = v, ![c].pc = "zero"]
          PROVE  Moves(c) /\ call'[c].op \in {"idle", "list"}
      <3> DEFINE x == IF isCounted(v) THEN [call[c] EXCEPT !.seen = @ \ {v}]
                      ELSE [call[c] EXCEPT !.vol = v, !.pc = "zero"]
      <3>1. call' = [call EXCEPT ![c] = x]
        BY <2>2 DEF Calls
      <3>2. call[c].pc = "cache" /\ v \in Vol
        BY <1>1, <1>5 DEF ListCounted, Call
      <3>3. /\ x \in Call /\ x.op = "list" /\ x.pc \in {"cache", "zero"}
            /\ x.pc = "zero" => x.vol \in Vol
        BY <1>1, <1>2, <3>2 DEF Call, ListPC
      <3> HIDE DEF x
      <3> QED
        BY <1>3, <3>1, <3>3 DEF ListPC
    <2> QED
      BY <1>2, <1>5, <2>1, <2>2 DEF ListCounted
  <1>6. CASE ListInit(c)
    <2> DEFINE x == [call[c] EXCEPT !.pc = "cache", !.seen = @ \ {call[c].vol}]
    <2>1. call' = [call EXCEPT ![c] = x]
      BY <1>6 DEF ListInit, Calls
    <2>2. x \in Call /\ x.op = "list" /\ x.pc = "cache"
      BY <1>1, <1>2 DEF Call, ListPC
    <2> HIDE DEF x
    <2> QED
      BY <1>2, <1>3, <2>1, <2>2 DEF ListPC
  <1> QED
    BY <1>4, <1>5, <1>6

\* Only caller c moves, and its request stays what it is or is done.
Proceeds(c) ==
  /\ Moves(c)
  /\ \/ call'[c].op = "idle"
     \/ call'[c].op = call[c].op /\ (call'[c].vol = call[c].vol \/ call[c].op = "list")

LEMMA AnswerProceeds ==
  ASSUME Calls, NEW c \in Caller, NEW res, Answer(c, res)
  PROVE  Proceeds(c)
  BY AnswerMoves, IdleInPlace DEF Proceeds

LEMMA CallStepProceeds ==
  ASSUME Calls, DiskOK, NEW c \in Caller, CallStep(c)
  PROVE  Proceeds(c)
  <1>1. call[c] \in Call /\ InPlace(call[c])
    BY DEF Calls
  <1>2. ASSUME NEW pc, Goto(c, pc),
               \/ call[c].op = "mount" /\ pc \in MountPC
               \/ call[c].op = "unmount" /\ pc \in UnmountPC
               \/ call[c].op = "path" /\ pc \in PathPC
        PROVE  Proceeds(c)
    BY <1>2, GotoMoves DEF Proceeds
  <1>3. CASE CallFails(c)
    BY <1>3, AnswerProceeds DEF CallFails, Fault
  <1>4. CASE MountStep(c)
    <2>1. call[c].pc \in MountPC /\ ((\E res : Answer(c, res)) \/ \E pc \in MountPC : Goto(c, pc))
      BY <1>4 DEF MountStep, MountInspect, MountCreate, MountPrecaution, MountAttach,
                  MountWait, MountInspectAgain, MountLocal, MountProbe, MountMkfs,
                  MountCheck, MountMount, MountCount, MountPC
    <2>2. call[c].op = "mount"
      BY <1>1, <2>1 DEF InPlace
    <2> QED
      BY <1>2, <2>1, <2>2, AnswerProceeds
  <1>5. CASE UnmountStep(c)
    <2>1. call[c].pc \in UnmountPC
      BY <1>5 DEF UnmountStep, UnmountReset, UnmountCounted, UnmountLower, UnmountInit,
                  UnmountInspect, UnmountOS, UnmountDetach, UnmountPC
    <2>2. call[c].op = "unmount" /\ call[c].vol \in Vol
      BY <1>1, <2>1 DEF InPlace
    <2>3. ASSUME NEW n \in Nat,
                 call' = [call EXCEPT ![c] = [call[c] EXCEPT !.pc = "umount", !.todo = n]]
          PROVE  Proceeds(c)
      <3> DEFINE x == [call[c] EXCEPT !.pc = "umount", !.todo = n]
      <3>1. /\ x \in Call /\ x.op = "unmount" /\ x.vol = call[c].vol
            /\ x.pc = "umount" /\ x.key = call[c].key
        BY <1>1, <2>2 DEF Call, UnmountPC
      <3>2. call' = [call EXCEPT ![c] = x]
        BY <2>3
      <3> HIDE DEF x
      <3>3. InPlace(x)
        BY <1>1, <2>2, <3>1 DEF InPlace, MountPC, UnmountPC, PathPC, ListPC
      <3> QED
        BY <2>2, <3>1, <3>2, <3>3, ChangeMoves DEF Proceeds
    <2>4. CASE UnmountInspect(c)
      <3>1. \/ Answer(c, "error")
            \/ \E n \in Mounts(call[c].vol) :
                  call' = [call EXCEPT ![c].pc = "umount", ![c].todo = n]
        BY <2>4 DEF UnmountInspect
      <3>2. ASSUME NEW n \in Nat, call' = [call EXCEPT ![c].pc = "umount", ![c].todo = n]
            PROVE  Proceeds(c)
        <4>1. call' = [call EXCEPT ![c] = [call[c] EXCEPT !.pc = "umount", !.todo = n]]
          BY <3>2 DEF Calls
        <4> QED
          BY <2>3, <4>1
      <3>3. Mounts(call[c].vol) \subseteq Nat
        BY <2>2, SMTT(30) DEF Mounts, DiskOK
      <3> QED
        BY <3>1, <3>2, <3>3, AnswerProceeds
    <2>5. CASE UnmountOS(c)
      <3>1. call[c].pc = "umount" /\ call[c].todo - 1 \in Nat
            /\ call' = [call EXCEPT ![c].todo = @ - 1]
        BY <1>1, <2>5, SMTT(30) DEF UnmountOS, Call
      <3>2. call' = [call EXCEPT ![c] = [call[c] EXCEPT !.pc = "umount",
                                                        !.todo = call[c].todo - 1]]
        BY <1>1, <3>1, ZenonT(60) DEF Calls, Call
      <3> QED
        BY <2>3, <3>1, <3>2
    <2>6. CASE ~UnmountInspect(c) /\ ~UnmountOS(c)
      <3>1. (\E res : Answer(c, res)) \/ \E pc \in UnmountPC : Goto(c, pc)
        BY <1>5, <2>6 DEF UnmountStep, UnmountReset, UnmountCounted, UnmountLower,
                          UnmountInit, UnmountDetach, UnmountPC
      <3> QED
        BY <1>2, <2>2, <3>1, AnswerProceeds
    <2> QED
      BY <2>4, <2>5, <2>6
  <1>6. CASE OtherStep(c)
    <2>1. CASE PathCounted(c) \/ PathLookup(c)
      <3>1. call[c].op = "path" /\ ((\E res : Answer(c, res)) \/ Goto(c, "lookup"))
        BY <1>1, <2>1 DEF PathCounted, PathLookup, InPlace, PathPC
      <3> QED
        BY <1>2, <3>1, AnswerProceeds DEF PathPC
    <2>2. CASE CreateVolume(c) \/ RemoveVolume(c)
      BY <2>2, AnswerProceeds DEF CreateVolume, RemoveVolume
    <2>3. CASE ListVolumes(c) \/ ListCounted(c) \/ ListInit(c)
      BY <2>3, ListGoes DEF Proceeds
    <2> QED
      BY <1>6, <2>1, <2>2, <2>3 DEF OtherStep
  <1> QED
    BY <1>3, <1>4, <1>5, <1>6 DEF CallStep

\* Volume w is as it was.
Same(w) ==
  /\ vol'[w] = vol[w] /\ mnt'[w] = mnt[w] /\ users'[w] = users[w]
  /\ w \in lost' <=> w \in lost

LEMMA CallStepElsewhere ==
  ASSUME Counters, DiskOK, NEW c \in Caller, CallStep(c), NEW w \in Vol, w # call[c].vol
  PROVE  Same(w)
  <1>1. CASE UNCHANGED <<disk, users>>
    BY <1>1 DEF disk, Same
  <1>2. CASE CallFails(c)
    BY <1>1, <1>2 DEF CallFails, Fault
  <1>3. CASE OtherStep(c)
    <2>1. CASE CreateVolume(c) \/ RemoveVolume(c)
      BY <2>1 DEF CreateVolume, RemoveVolume, DiskOK, Same
    <2>2. CASE PathCounted(c) \/ PathLookup(c) \/ ListVolumes(c) \/ ListCounted(c)
                 \/ ListInit(c)
      BY <1>1, <2>2 DEF PathCounted, PathLookup, ListVolumes, ListCounted, ListInit
    <2> QED
      BY <1>3, <2>1, <2>2 DEF OtherStep
  <1>4. CASE UnmountStep(c)
    <2>1. CASE UnmountOS(c)
      BY <2>1 DEF UnmountOS, Unmounted, DiskOK, Same
    <2>2. CASE UnmountDetach(c)
      BY <2>2 DEF UnmountDetach, DiskOK, Same
    <2>3. CASE ~UnmountOS(c) /\ ~UnmountDetach(c)
      BY <1>1, <1>4, <2>3 DEF UnmountStep, UnmountReset, UnmountCounted, UnmountLower,
                              UnmountInit, UnmountInspect
    <2> QED
      BY <2>1, <2>2, <2>3
  <1>5. CASE MountStep(c)
    <2>1. CASE MountCreate(c) \/ MountMkfs(c) \/ MountMount(c)
      BY <2>1 DEF MountCreate, MountMkfs, MountMount, DiskOK, Same
    <2>2. CASE MountPrecaution(c)
      BY <2>2 DEF MountPrecaution, Unmounted, DiskOK, Same
    <2>3. CASE MountAttach(c)
      BY <2>3, ZenonT(60) DEF MountAttach, DiskOK, Same
    <2>4. CASE MountCount(c)
      BY <2>4 DEF MountCount, Counters, Same, disk
    <2>5. CASE MountInspect(c) \/ MountWait(c) \/ MountInspectAgain(c) \/ MountLocal(c)
                 \/ MountProbe(c) \/ MountCheck(c)
      BY <1>1, <2>5 DEF MountInspect, MountWait, MountInspectAgain, MountLocal,
                        MountProbe, MountCheck
    <2> QED
      BY <1>5, <2>1, <2>2, <2>3, <2>4, <2>5 DEF MountStep
  <1> QED
    BY <1>2, <1>3, <1>4, <1>5 DEF CallStep

-----------------------------------------------------------------------------
(* All steps keep the invariant *)

LEMMA AloneKeeps ==
  ASSUME NEW v, Alone(v), NEW c \in Caller, Moves(c), On(call[c], v)' => On(call[c], v)
  PROVE  Alone(v)'
  <1>1. \A d \in Caller : On(call[d], v)' => On(call[d], v)
    BY DEF Moves, On
  <1> QED
    BY <1>1 DEF Alone

\* A step that leaves v alone.
LEMMA BesideHost ==
  ASSUME NEW v \in Vol, Host(v), NEW c \in Caller, Proceeds(c), Same(v),
         config' = config, ~failed' => ~failed, ~Works(call[c], v)
  PROVE  Host(v)'
  <1>1. ~Works(call[c], v)'
    BY DEF Proceeds, Works
  <1>2. \A d \in Caller : call'[d] = call[d] \/ d = c
    BY DEF Proceeds, Moves
  <1> QED
    BY <1>1, <1>2, StillHost DEF Same

\* Creation and removal, for their volume.
LEMMA MakeHost ==
  ASSUME Calls, DiskOK, NEW c \in Caller, CreateVolume(c) \/ RemoveVolume(c),
         NEW v \in Vol, v = call[c].vol, Alone(v), Host(v)
  PROVE  Host(v)'
  <1>1. InPlace(call[c]) /\ vol[v] \in Volume /\ Sane(v)
    BY DEF Calls, DiskOK, Host
  <1>2. On(call[c], v) /\ ~Settles(call[c], v)
    BY <1>1, ZenonT(60) DEF CreateVolume, RemoveVolume, InPlace, On, Settles, Works
  <1>3. /\ UNCHANGED <<mnt, lost, users>> /\ config' = config /\ failed' = failed
        /\ \E res : Answer(c, res)
    BY DEF CreateVolume, RemoveVolume, env
  <1>4. \/ vol'[v] = vol[v]
        \/ vol'[v] = FreshVolume /\ ~vol[v].made
        \/ vol'[v] = NoVolume /\ vol[v].att = "none"
    BY DEF CreateVolume, RemoveVolume, DiskOK
  <1>5. Moves(c) /\ ~Works(call[c], v)'
    BY <1>3, AnswerMoves, IdleInPlace DEF Works
  <1>6. Sane(v)'
    <2>1. CASE vol'[v] = vol[v]
      BY <1>1, <1>3, <2>1, ZenonT(60) DEF Sane
    <2>2. CASE vol'[v] \in {FreshVolume, NoVolume} /\ vol[v].att # "me"
      <3>1. vol'[v].att = "none" /\ ~vol'[v].dev /\ ~vol'[v].data
        BY <2>2, SMTT(30) DEF FreshVolume, NoVolume
      <3> QED
        BY <1>1, <1>3, <2>2, <3>1 DEF Sane
    <2> QED
      BY <1>1, <1>4, <2>1, <2>2, ZenonT(60) DEF Sane
  <1>7. ~failed' /\ mnt'[v] > 0 => users'[v] > 0
    BY <1>2, <1>3, OwnDue
  <1> QED
    BY <1>2, <1>5, <1>6, <1>7, OwnHost

LEMMA CallStepHost ==
  ASSUME CountInv, DiskOK, HostInv, NEW c \in Caller, CallStep(c),
         NEW v \in Vol \ disturbed'
  PROVE  Alone(v)' /\ Host(v)'
  <1>1. Calls /\ Counters /\ Proceeds(c) /\ InPlace(call[c])
    BY CallStepProceeds DEF CountInv, Calls
  <1>2. disturbed \subseteq disturbed' /\ config' = config
    BY ZenonT(60) DEF CallStep, MountStep, MountInspect, MountCreate, MountPrecaution, MountAttach,
           MountWait, MountInspectAgain, MountLocal, MountProbe, MountMkfs,
           MountCheck, MountMount, MountCount, UnmountStep, UnmountReset, UnmountCounted,
           UnmountLower, UnmountInit, UnmountInspect, UnmountOS, UnmountDetach,
           OtherStep, PathCounted, PathLookup, ListVolumes, ListCounted, ListInit,
           CreateVolume, RemoveVolume, CallFails, Fault, env
  <1>3. ~failed' => ~failed
    BY DEF CallStep, MountStep, MountInspect, MountCreate, MountPrecaution, MountAttach,
           MountWait, MountInspectAgain, MountLocal, MountProbe, MountMkfs,
           MountCheck, MountMount, MountCount, UnmountStep, UnmountReset, UnmountCounted,
           UnmountLower, UnmountInit, UnmountInspect, UnmountOS, UnmountDetach,
           OtherStep, PathCounted, PathLookup, ListVolumes, ListCounted, ListInit,
           CreateVolume, RemoveVolume, CallFails, Fault, env
  <1>4. v \in Vol \ disturbed /\ Alone(v) /\ Host(v)
    BY <1>2 DEF HostInv
  <1>5. Alone(v)'
    BY <1>1, <1>4, AloneKeeps DEF Proceeds, On
  <1> SUFFICES Host(v)'
    BY <1>5
  <1>6. CASE v # call[c].vol
    BY <1>1, <1>2, <1>3, <1>4, <1>6, CallStepElsewhere, BesideHost DEF Works
  <1>7. CASE v = call[c].vol
    <2>1. CASE MountStep(c)
      BY <1>1, <1>4, <1>7, <2>1, MountHost
    <2>2. CASE UnmountStep(c)
      BY <1>4, <1>7, <2>2, UnmountHost
    <2>3. CASE CallFails(c)
      <3>1. failed' /\ UNCHANGED <<disk, users>> /\ Answer(c, "error")
        BY <2>3 DEF CallFails, Fault
      <3>2. Same(v)
        BY <3>1 DEF Same, disk
      <3>3. CASE On(call[c], v)
        BY <1>1, <1>2, <1>3, <1>4, <3>1, <3>2, <3>3, GivesUp DEF Same
      <3>4. CASE ~On(call[c], v)
        BY <1>1, <1>2, <1>3, <1>4, <3>2, <3>4, BesideHost DEF On, Works
      <3> QED
        BY <3>3, <3>4
    <2>4. CASE CreateVolume(c) \/ RemoveVolume(c)
      BY <1>1, <1>4, <1>7, <2>4, MakeHost
    <2>5. CASE PathCounted(c) \/ PathLookup(c) \/ ListVolumes(c) \/ ListCounted(c)
                 \/ ListInit(c)
      <3>1. Same(v)
        BY <2>5 DEF PathCounted, PathLookup, ListVolumes, ListCounted, ListInit, Same, disk
      <3>2. ~Works(call[c], v)
        BY <1>1, <2>5 DEF PathCounted, PathLookup, ListVolumes, ListCounted, ListInit,
                          InPlace, PathPC, ListPC, Works
      <3> QED
        BY <1>1, <1>2, <1>3, <1>4, <3>1, <3>2, BesideHost
    <2> QED
      BY <2>1, <2>2, <2>3, <2>4, <2>5 DEF CallStep, OtherStep
  <1> QED
    BY <1>6, <1>7

\* A request arrives.
LEMMA BeginHost ==
  ASSUME CountInv, HostInv, NEW c \in Caller, NEW op \in Op,
         NEW w \in Vol \cup {NoVol}, NEW byID \in BOOLEAN, NEW over \in BOOLEAN,
         Begin(c, op, w, byID, over), op = "list" \/ w \in Vol,
         NEW v \in Vol \ disturbed'
  PROVE  Alone(v)' /\ Host(v)'
  <1> DEFINE x == [Idle EXCEPT !.op = op, !.vol = w, !.key = IF byID THEN Anon ELSE w,
                               !.pc = op, !.over = over]
  <1>1. call \in [Caller -> Call] /\ users \in [Vol -> Nat]
    BY DEF CountInv, Calls, Counters
  <1>2. /\ call[c].op = "idle" /\ config' = config /\ failed' = failed
        /\ UNCHANGED disk /\ disturbed \subseteq disturbed'
        /\ call' = [call EXCEPT ![c] = x]
        /\ users' = IF op = "unmount" /\ users[w] > 0
                     THEN [users EXCEPT ![w] = @ - 1] ELSE users
    BY DEF Begin, env
  <1>3. x.op = op /\ x.vol = w /\ x.pc = op
    BY DEF Idle
  <1> HIDE DEF x
  <1>4. call'[c] = x /\ \A d \in Caller : d # c => call'[d] = call[d]
    BY <1>1, <1>2
  <1>5. Alone(v) /\ Host(v)
    BY <1>2 DEF HostInv
  <1>6. On(x, v) => \A d \in Caller : ~On(call[d], v)
    <2>1. SUFFICES ASSUME On(x, v) PROVE \A d \in Busy(v) : call[d].op = "path"
      BY DEF Busy, On
    <2>2. op # "path" /\ (v = w \/ op = "list")
      BY <1>3, <2>1 DEF On
    <2> QED
      BY <2>2 DEF Begin
  <1>7. Alone(v)'
    <2>1. \A d \in Caller : d # c => (On(call[d], v)' <=> On(call[d], v))
      BY <1>4 DEF On
    <2>2. On(call[c], v)' <=> On(x, v)
      BY <1>4 DEF On
    <2>3. ~On(call[c], v)
      BY <1>2 DEF On
    <2> QED
      BY <1>5, <1>6, <2>1, <2>2, <2>3 DEF Alone
  <1>8. CASE ~Works(x, v)
    <2>1. users'[v] = users[v]
      BY <1>1, <1>2, <1>3, <1>8 DEF Works
    <2>2. ~Works(call[c], v) /\ ~Works(call[c], v)'
      BY <1>2, <1>4, <1>8 DEF Works
    <2>3. Host(v)'
      BY <1>2, <1>4, <1>5, <2>1, <2>2, StillHost DEF disk
    <2> QED
      BY <1>7, <2>3
  <1>9. CASE Works(x, v)
    <2>1. v = w /\ op \in {"mount", "unmount"} /\ On(x, v)
      BY <1>3, <1>9 DEF Works, On
    <2>2. \A d \in Caller : ~Works(call[d], v)
      BY <1>6, <2>1 DEF Works, On
    <2>3. \A d \in Caller : Works(call[d], v)' => d = c
      BY <1>4, <2>2 DEF Works
    <2>4. Knows(call[c].pc, call[c].over, call[c].todo, v)'
      BY <1>3, <1>4, <2>1 DEF Knows
    <2>5. users'[v] > 0 => users[v] > 0
      BY <1>1, <1>2, <2>1
    <2>6. Sane(v)'
      BY <1>2, <1>5, <2>5, ZenonT(60) DEF Host, Sane, disk
    <2>7. ~failed /\ mnt[v] > 0 => users[v] > 0
      BY <1>5, <2>2 DEF Host, Due, Settles
    <2>8. Due(v)'
      <3>1. CASE op = "unmount"
        <4>1. Settles(call[c], v)'
          BY <1>3, <1>4, <2>1, <3>1 DEF Settles, Works
        <4> QED
          BY <4>1 DEF Due
      <3>2. CASE op # "unmount"
        BY <1>2, <2>7, <3>2 DEF Due, disk
      <3> QED
        BY <3>1, <3>2
    <2>9. Host(v)'
      BY <2>3, <2>4, <2>6, <2>8 DEF Host
    <2> QED
      BY <1>7, <2>9
  <1> QED
    BY <1>8, <1>9

\* The process restarts: what it forgets is disturbed.
LEMMA RestartHost ==
  ASSUME CountInv, HostInv, NEW c \in Caller, Restart(c), NEW v \in Vol \ disturbed'
  PROVE  Alone(v)' /\ Host(v)'
  <1>1. /\ users[v] = 0 /\ Busy(v) = {} /\ v \in Vol \ disturbed
        /\ UNCHANGED <<config, failed, disk, users>>
    BY SMTT(30) DEF Restart, CountInv, Counters
  <1>2. Host(v)
    BY <1>1 DEF HostInv
  <1>3. \A d \in Caller : call'[d].op = "idle" \/ (d = c /\ call'[d].op = "list")
    BY DEF Restart, Idle
  <1>4. Alone(v)' /\ \A d \in Caller : ~Works(call[d], v)'
    BY <1>3 DEF Alone, On, Works
  <1>5. \A d \in Caller : ~Works(call[d], v)
    BY <1>1 DEF Busy, Works
  <1>6. ~failed => mnt[v] = 0 \/ ~(mnt[v] > 0)
    BY <1>1, <1>2, <1>5, SMTT(30) DEF Host, Due, Settles
  <1>7. Sane(v)'
    BY <1>1, <1>2 DEF Host, Sane, disk
  <1>8. Due(v)'
    BY <1>1, <1>6 DEF Due, disk
  <1> QED
    BY <1>4, <1>7, <1>8 DEF Host

\* The surroundings move.
LEMMA AroundHost ==
  ASSUME CountInv, DiskOK, HostInv, NEW w \in Vol,
         DeviceAppears(w) \/ UserWrites(w) \/ OtherAttaches(w) \/ OtherDetaches(w),
         NEW v \in Vol \ disturbed'
  PROVE  Alone(v)' /\ Host(v)'
  <1>1. /\ disturbed \subseteq disturbed'
        /\ UNCHANGED <<config, failed, mnt, call, users>>
    BY DEF DeviceAppears, UserWrites, OtherAttaches, OtherDetaches, env
  <1>2. v \in Vol \ disturbed /\ Alone(v) /\ Host(v) /\ Sane(v) /\ vol[v] \in Volume
    BY <1>1 DEF HostInv, Host, DiskOK
  <1>3. Alone(v)'
    BY <1>1, <1>2 DEF Alone, On
  <1> SUFFICES Host(v)'
    BY <1>3
  <1>4. CASE v # w
    <2>1. Same(v)
      BY <1>1, <1>4 DEF DeviceAppears, UserWrites, OtherAttaches, OtherDetaches, DiskOK, Same
    <2> QED
      BY <1>1, <1>2, <2>1, StillHost DEF Same
  <1>5. ASSUME Sane(v)', vol'[v].fs = vol[v].fs, vol'[v].att = "me" <=> vol[v].att = "me"
        PROVE  Host(v)'
    <2>1. Due(v)'
      BY <1>1, <1>2 DEF Host, Due, Settles, Works
    <2>2. ASSUME NEW d \in Caller, Works(call[d], v)'
          PROVE  Knows(call[d].pc, call[d].over, call[d].todo, v)'
      <3>1. Knows(call[d].pc, call[d].over, call[d].todo, v)
        BY <1>1, <1>2, <2>2, ZenonT(60) DEF Host, Works
      <3> QED
        BY <1>1, <1>5, <3>1, ZenonT(60) DEF Knows
    <2> QED
      BY <1>5, <2>1, <2>2 DEF Host
  <1>6. CASE v = w /\ DeviceAppears(w)
    <2> DEFINE r == [vol[v] EXCEPT !.dev = TRUE]
    <2>1. vol'[v] = r /\ vol[v].att = "me" /\ lost' = lost
      BY <1>6 DEF DeviceAppears, DiskOK
    <2>2. /\ r.att = vol[v].att /\ r.dev /\ r.made = vol[v].made
          /\ r.fs = vol[v].fs /\ r.data = vol[v].data
      BY <1>2 DEF Volume
    <2> HIDE DEF r
    <2>3. Sane(v)'
      BY <1>1, <1>2, <2>1, <2>2 DEF Sane
    <2> QED
      BY <1>5, <2>1, <2>2, <2>3
  <1>7. CASE v = w /\ UserWrites(w)
    <2> DEFINE r == [vol[v] EXCEPT !.data = TRUE]
    <2>1. vol'[v] = r /\ mnt[v] > 0 /\ v \notin lost /\ lost' = lost
      BY <1>7 DEF UserWrites, DiskOK
    <2>2. /\ r.att = vol[v].att /\ r.dev = vol[v].dev /\ r.made = vol[v].made
          /\ r.fs = vol[v].fs /\ r.data
      BY <1>2 DEF Volume
    <2> HIDE DEF r
    <2>3. Sane(v)'
      BY <1>1, <1>2, <2>1, <2>2, ZenonT(60) DEF Sane
    <2> QED
      BY <1>5, <2>1, <2>2, <2>3
  <1>8. CASE v = w /\ OtherDetaches(w)
    <2> DEFINE r == [vol[v] EXCEPT !.att = "none"]
    <2>1. vol'[v] = r /\ vol[v].att = "other" /\ lost' = lost
      BY <1>8 DEF OtherDetaches, DiskOK
    <2>2. /\ r.att = "none" /\ r.dev = vol[v].dev /\ r.made = vol[v].made
          /\ r.fs = vol[v].fs /\ r.data = vol[v].data
      BY <1>2 DEF Volume
    <2> HIDE DEF r
    <2>3. Sane(v)'
      BY <1>1, <1>2, <2>1, <2>2 DEF Sane
    <2> QED
      BY <1>5, <2>1, <2>2, <2>3
  <1>9. CASE v = w /\ OtherAttaches(w)
    <2> DEFINE r == [vol[v] EXCEPT !.att = "other", !.dev = FALSE]
    <2>1. /\ vol'[v] = r /\ lost' = (IF mnt[v] > 0 THEN lost \cup {v} ELSE lost)
          /\ vol[v].att = "me" => ~(users[v] > 0) /\ Busy(v) = {}
      BY <1>9 DEF OtherAttaches, DiskOK
    <2>2. /\ r.att = "other" /\ ~r.dev /\ r.made = vol[v].made
          /\ r.fs = vol[v].fs /\ r.data = vol[v].data
      BY <1>2 DEF Volume
    <2> HIDE DEF r
    <2>3. vol[v].att = "me" => \A d \in Caller : ~Works(call[d], v)
      BY <2>1 DEF Busy, Works
    <2>4. ~failed /\ vol[v].att = "me" => ~(mnt[v] > 0)
      BY <1>2, <2>1, <2>3 DEF Host, Due, Settles
    <2>5. Sane(v)'
      <3>1. vol[v].att # "me" /\ mnt[v] > 0 => v \in lost
        BY <1>2, ZenonT(60) DEF Sane
      <3>2. ~failed => v \notin lost'
        BY <1>2, <2>1, <2>4, <3>1 DEF Sane
      <3>3. mnt[v] > 0 => v \in lost'
        BY <2>1
      <3>4. v \in lost' => mnt[v] = 1
        BY <1>2, <2>1, SMTT(30) DEF Sane
      <3>5. users[v] > 0 => config.ignoreUsed
        BY <1>2, <2>1 DEF Sane
      <3> QED
        BY <1>1, <1>2, <2>1, <2>2, <3>2, <3>3, <3>4, <3>5, ZenonT(60) DEF Sane
    <2>6. CASE vol[v].att # "me"
      BY <1>5, <2>1, <2>2, <2>5, <2>6, ZenonT(60)
    <2>7. CASE vol[v].att = "me"
      <3>1. Due(v)'
        BY <1>1, <2>4, <2>7, ZenonT(60) DEF Due
      <3> QED
        BY <1>1, <2>3, <2>5, <2>7, <3>1, ZenonT(60) DEF Host, Works
    <2> QED
      BY <2>6, <2>7
  <1> QED
    BY <1>4, <1>6, <1>7, <1>8, <1>9

LEMMA HostInvInit == Init => HostInv
  <1> SUFFICES ASSUME Init, NEW v \in Vol PROVE Alone(v) /\ Host(v)
    BY DEF HostInv
  <1>1. \A c \in Caller : call[c].op = "idle"
    BY DEF Init, Idle
  <1>2. /\ vol[v] \in {FreshVolume, NoVolume} /\ mnt[v] = 0 /\ lost = {} /\ users[v] = 0
    BY DEF Init
  <1>3. vol[v].att = "none" /\ ~vol[v].dev /\ ~vol[v].data
    BY <1>2, SMTT(30) DEF FreshVolume, NoVolume
  <1>4. Sane(v) /\ Due(v)
    BY <1>2, <1>3, SMTT(30) DEF Sane, Due
  <1> QED
    BY <1>1, <1>4 DEF Host, Alone, On, Works

LEMMA HostInvNext == CountInv /\ DiskOK /\ HostInv /\ [Next]_vars => HostInv'
  <1> SUFFICES ASSUME CountInv, DiskOK, HostInv, [Next]_vars, NEW v \in Vol \ disturbed'
               PROVE  Alone(v)' /\ Host(v)'
    BY DEF HostInv
  <1>1. CASE UNCHANGED vars
    <2>1. Alone(v) /\ Host(v)
      BY <1>1 DEF HostInv, vars
    <2>2. Host(v)'
      BY <1>1, <2>1, StillHost DEF vars
    <2> QED
      BY <1>1, <2>1, <2>2 DEF vars, Alone, On
  <1>2. ASSUME NEW c \in Caller, Request(c) PROVE Alone(v)' /\ Host(v)'
    BY <1>2, BeginHost, ZenonT(60) DEF Request, Op
  <1>3. ASSUME NEW c \in Caller, CallStep(c) PROVE Alone(v)' /\ Host(v)'
    BY <1>3, CallStepHost
  <1>4. ASSUME NEW c \in Caller, Restart(c) PROVE Alone(v)' /\ Host(v)'
    BY <1>4, RestartHost
  <1>5. ASSUME NEW w \in Vol,
               DeviceAppears(w) \/ UserWrites(w) \/ OtherAttaches(w) \/ OtherDetaches(w)
        PROVE  Alone(v)' /\ Host(v)'
    BY <1>5, AroundHost
  <1> QED
    BY <1>1, <1>2, <1>3, <1>4, <1>5 DEF Next, CallStep

-----------------------------------------------------------------------------
(* Path *)

\* Path does not miss a mount that has a user.
ToldRight ==
  ~config.ignoreUsed =>
    \A v \in Vol : Quiet(v) /\ users[v] > 0 /\ told.op = "path" /\ told.vol = v
                     => told.res # "empty"

LEMMA ToldNext == CountInv /\ HostInv /\ ToldRight /\ [Next]_vars => ToldRight'
  <1> SUFFICES ASSUME CountInv, HostInv, ToldRight, [Next]_vars PROVE ToldRight'
    OBVIOUS
  <1>1. CASE UNCHANGED vars
    BY <1>1 DEF vars, ToldRight, Quiet, Busy
  <1>2. CASE told' = Nothing
    BY <1>2 DEF ToldRight, Nothing
  <1>3. ASSUME NEW c \in Caller, Answer(c, "error") PROVE ToldRight'
    BY <1>3 DEF ToldRight, Answer
  <1>4. ASSUME NEW c \in Caller, NEW res, Answer(c, res), call[c].op # "path"
        PROVE  ToldRight'
    BY <1>4 DEF ToldRight, Answer
  <1>5. ASSUME NEW c \in Caller, CallStep(c) PROVE ToldRight'
    <2>1. call[c] \in Call /\ InPlace(call[c])
      BY DEF CountInv, Calls
    <2>2. CASE PathCounted(c) \/ PathLookup(c)
      <3>1. CASE Goto(c, "lookup")
        BY <1>2, <3>1 DEF Goto
      <3>2. ASSUME NEW res, Answer(c, res) PROVE ToldRight'
        <4>1. /\ call[c].op = "path" /\ call[c].key = call[c].vol
              /\ UNCHANGED <<config, disk, used, users, disturbed>>
          BY <2>1, <2>2, ZenonT(60) DEF PathCounted, PathLookup, InPlace, PathPC, env
        <4>2. SUFFICES ASSUME NEW v \in Vol, ~config.ignoreUsed, Quiet(v)', users[v] > 0,
                              call[c].vol = v
                       PROVE  res # "empty"
          <5>1. told'.vol = call[c].vol /\ told'.res = res
            BY <3>2 DEF Answer
          <5> QED
            BY <4>1, <5>1 DEF ToldRight
        <4>3. v \notin disturbed /\ Counted(v) /\ Sane(v)
          BY <4>1, <4>2 DEF Quiet, CountInv, HostInv, Host
        <4>4. \A d \in Caller : ~On(call[d], v)
          <5>1. \A d \in Caller : d # c => call'[d] = call[d]
            BY <3>2 DEF Answer, CountInv, Calls
          <5>2. \A d \in Caller : ~On(call[d], v)'
            BY <4>2 DEF Quiet, Busy, On
          <5> QED
            BY <4>1, <5>1, <5>2 DEF On
        <4>5. Count(v) = users[v]
          BY <4>3, <4>4 DEF Counted
        <4>6. isCounted(v) /\ mnt[v] > 0
          BY <4>2, <4>3, <4>5, SMTT(30) DEF Count, Sane
        <4>7. told'.res = res
          BY <3>2 DEF Answer
        <4>8. CASE PathCounted(c)
          <5>1. Goto(c, "lookup")
            BY <4>1, <4>2, <4>6, <4>8 DEF PathCounted
          <5>2. told'.op = "path" /\ told' = Nothing
            BY <3>2, <4>1, <5>1, SMTT(30) DEF Answer, Goto
          <5> QED
            BY <5>2 DEF Nothing
        <4>9. CASE PathLookup(c)
          <5>1. told'.res \in {"error", "path"}
            BY <4>2, <4>6, <4>9 DEF PathLookup, Answer
          <5> QED
            BY <4>7, <5>1
        <4> QED
          BY <2>2, <4>8, <4>9
      <3> QED
        BY <2>2, <3>1, <3>2 DEF PathCounted, PathLookup
    <2>3. CASE ~(PathCounted(c) \/ PathLookup(c))
      <3>1. CallFails(c) => Answer(c, "error")
        BY DEF CallFails, Fault
      <3>2. ~CallFails(c) => call[c].op # "path"
        BY <1>5, <2>1, <2>3, ZenonT(60)
        DEF CallStep, MountStep, MountInspect, MountCreate, MountPrecaution, MountAttach,
            MountWait, MountInspectAgain, MountLocal, MountProbe, MountMkfs,
            MountCheck, MountMount, MountCount, UnmountStep, UnmountReset, UnmountCounted,
            UnmountLower, UnmountInit, UnmountInspect, UnmountOS, UnmountDetach,
            OtherStep, ListVolumes, ListCounted, ListInit,
            CreateVolume, RemoveVolume, InPlace, PathPC
      <3>3. ~CallFails(c) => told' = Nothing \/ \E res : Answer(c, res)
        BY <1>5, <2>3, ZenonT(60)
        DEF CallStep, MountStep, MountInspect, MountCreate, MountPrecaution, MountAttach,
            MountWait, MountInspectAgain, MountLocal, MountProbe, MountMkfs,
            MountCheck, MountMount, MountCount, UnmountStep, UnmountReset, UnmountCounted,
            UnmountLower, UnmountInit, UnmountInspect, UnmountOS, UnmountDetach,
            OtherStep, ListVolumes, ListCounted, ListInit,
            CreateVolume, RemoveVolume, Goto
      <3> QED
        BY <1>2, <1>3, <1>4, <3>1, <3>2, <3>3
    <2> QED
      BY <2>2, <2>3
  <1>6. ASSUME NEW c \in Caller, Request(c) \/ Restart(c) PROVE ToldRight'
    BY <1>2, <1>6, ZenonT(60) DEF Request, Begin, Restart
  <1>7. ASSUME NEW w \in Vol,
               DeviceAppears(w) \/ UserWrites(w) \/ OtherAttaches(w) \/ OtherDetaches(w)
        PROVE  ToldRight'
    BY <1>2, <1>7 DEF DeviceAppears, UserWrites, OtherAttaches, OtherDetaches
  <1> QED
    BY <1>1, <1>5, <1>6, <1>7 DEF Next, CallStep

-----------------------------------------------------------------------------
(* Data *)

LEMMA DataStep ==
  ASSUME CountInv, DiskOK, HostInv, Next, NEW v \in Vol, vol[v].data, ~vol'[v].data
  PROVE  \/ v \in disturbed \/ ~vol'[v].made
         \/ \E c \in Caller : call[c].vol = v /\ call[c].over
  <1> SUFFICES ASSUME v \notin disturbed, vol'[v].made
               PROVE  \E c \in Caller : call[c].vol = v /\ call[c].over
    OBVIOUS
  <1>1. Host(v) /\ Sane(v) /\ vol[v] \in Volume /\ vol \in [Vol -> Volume]
    BY DEF HostInv, Host, DiskOK
  <1>2. vol[v].fs /\ vol[v].made
    BY <1>1 DEF Sane
  <1>3. vol'[v] # vol[v]
    OBVIOUS
  <1>4. ASSUME NEW c \in Caller, Request(c) \/ Restart(c) PROVE FALSE
    BY <1>3, <1>4, ZenonT(60) DEF Request, Begin, Restart, disk
  <1>5. ASSUME NEW w \in Vol,
               DeviceAppears(w) \/ UserWrites(w) \/ OtherAttaches(w) \/ OtherDetaches(w)
        PROVE  FALSE
    BY <1>1, <1>5, SMTT(30) DEF DeviceAppears, UserWrites, OtherAttaches, OtherDetaches, Volume
  <1>6. ASSUME NEW c \in Caller, CallStep(c)
        PROVE  \E d \in Caller : call[d].vol = v /\ call[d].over
    <2>1. v = call[c].vol
      BY <1>3, <1>6, CallStepElsewhere DEF CountInv, Same
    <2>2. MountMkfs(c)
      <3>1. ~MountCreate(c) /\ ~CreateVolume(c) /\ ~RemoveVolume(c)
        BY <1>1, <1>2, <1>3, <2>1 DEF MountCreate, CreateVolume, RemoveVolume, NoVolume,
                                      FreshVolume
      <3>2. ~MountAttach(c) /\ ~UnmountDetach(c)
        BY <1>1, <1>3, <2>1, SMTT(30) DEF MountAttach, UnmountDetach, Volume
      <3> QED
        BY <1>3, <1>6, <3>1, <3>2
        DEF CallStep, MountStep, MountInspect, MountPrecaution,
            MountWait, MountInspectAgain, MountLocal, MountProbe,
            MountCheck, MountMount, MountCount, UnmountStep, UnmountReset, UnmountCounted,
            UnmountLower, UnmountInit, UnmountInspect, UnmountOS,
            OtherStep, PathCounted, PathLookup, ListVolumes, ListCounted, ListInit,
            CallFails, Fault, disk
    <2>3. call[c].pc = "mkfs" /\ InPlace(call[c])
      BY <2>2 DEF MountMkfs, CountInv, Calls
    <2>4. Works(call[c], v)
      BY <2>1, <2>3 DEF InPlace, MountPC, Works
    <2>5. Knows(call[c].pc, call[c].over, call[c].todo, v)
      BY <1>1, <2>4 DEF Host
    <2>6. call[c].over
      BY <1>2, <2>3, <2>5 DEF Knows
    <2> QED
      BY <2>1, <2>6
  <1> QED
    BY <1>4, <1>5, <1>6 DEF Next, CallStep

-----------------------------------------------------------------------------

\* The invariant of this module, with that of the counters.
LEMMA MountInvariant == Spec => [](CountInv /\ DiskOK /\ HostInv /\ ToldRight)
  <1>1. Init => ToldRight
    BY SMTT(30) DEF Init, ToldRight, Nothing
  <1> QED
    BY <1>1, CountInvInit, CountInvNext, HostInvInit, HostInvNext, ToldNext, PTL DEF Spec

\* As long as a user of an undisturbed volume has not asked for its unmount, the
\* volume is attached here and mounted on its device, and Path finds it, whatever
\* failed in between (idm.Mount, idm.Unmount, idm.Path and the drivers below).
THEOREM MountsAreKept == Spec => []MountedWhileUsed
  <1>1. DiskOK /\ HostInv /\ ToldRight => MountedWhileUsed
    <2> SUFFICES ASSUME DiskOK, HostInv, ToldRight, ~config.ignoreUsed, NEW v \in Vol,
                        Quiet(v), users[v] > 0
                 PROVE  /\ Here(v) /\ mnt[v] > 0 /\ v \notin lost
                        /\ told.op = "path" /\ told.vol = v => told.res # "empty"
      BY DEF MountedWhileUsed
    <2>1. Sane(v)
      BY DEF HostInv, Host, Quiet
    <2> QED
      BY <2>1 DEF Sane, Here, ToldRight
  <1> QED
    BY <1>1, MountInvariant, PTL

\* Without a failed command the last unmount takes the mount away (driver.Unmount).
THEOREM MountsAreUndone == Spec => []UnmountedWhenUnused
  <1>1. DiskOK /\ HostInv => UnmountedWhenUnused
    <2> SUFFICES ASSUME DiskOK, HostInv, ~failed, NEW v \in Vol, Quiet(v), users[v] = 0
                 PROVE  mnt[v] = 0
      BY DEF UnmountedWhenUnused
    <2>1. Host(v)
      BY DEF HostInv, Quiet
    <2>2. \A c \in Caller : ~Works(call[c], v)
      BY DEF Quiet, Busy, Works
    <2>3. ~(mnt[v] > 0)
      BY <2>1, <2>2, SMTT(30) DEF Host, Due, Settles
    <2> QED
      BY <2>3, SMTT(30) DEF DiskOK
  <1> QED
    BY <1>1, MountInvariant, PTL

\* The data on an undisturbed volume is destroyed by nothing but its removal or a
\* mount that asks for a new file system (os.Format, VolumeRemove).
THEOREM DataIsKept == Spec => DataKept
  <1>1. CountInv /\ DiskOK /\ HostInv /\ [Next]_vars =>
          [\A v \in Vol : vol[v].data /\ ~vol'[v].data
             => \/ v \in disturbed \/ ~vol'[v].made
                \/ \E c \in Caller : call[c].vol = v /\ call[c].over]_vars
    BY DataStep
  <1> QED
    BY <1>1, MountInvariant, PTL DEF Spec, DataKept
=============================================================================
