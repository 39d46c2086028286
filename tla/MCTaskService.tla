--------------------------- MODULE MCTaskService ----------------------------
(* Finite instances of TaskService for TLC. *)
EXTENDS TaskService, TLC

CONSTANTS r1, r2, r3, s1, s2

(* Requests of one task each on one service; r3 alone is asynchronous. *)
SingleArrival == [r \in Request |-> {<<s1, r = r3>>}]

(* One batch of one kind beside a request that keeps the map busy. *)
LiveArrival ==
  [r \in Request |-> IF r = r1 THEN {<<s1, FALSE>>} ELSE {<<"detachAll", FALSE>>}]

(* A request on the service beside another of any kind: on the service, in
   the foreground or not, or a batch over all services. *)
MixedArrival ==
  [r \in Request |->
     IF r = r1 THEN {<<s1, FALSE>>}
     ELSE {<<s1, FALSE>>, <<s1, TRUE>>, <<"list", FALSE>>, <<"detachAll", FALSE>>}]

(* A single request, asynchronous. *)
LeakArrival == [r \in Request |-> IF r = r1 THEN {<<s1, TRUE>>} ELSE {}]
=============================================================================
