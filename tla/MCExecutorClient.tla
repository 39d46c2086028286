------------------------- MODULE MCExecutorClient -------------------------
(***************************************************************************)
(* Small instances of ExecutorClient for TLC.                              *)
(***************************************************************************)
EXTENDS ExecutorClient, TLC

CONSTANTS c1, c2, p1, p2, s1, s2, d1, d2

MCClient == {c1, c2}
MCProc == {p1, p2}
MCService == {s1, s2}
MCDriver == {d1, d2}

K(flag, iid, meta) == [flag |-> flag, iid |-> iid, meta |-> meta]

\* One process with two drivers; two processes that share a driver and its
\* executor; one that downloads next to one that does not; a controller.
MCSetups ==
  {[proc |-> c1 :> p1 @@ c2 :> p1, driver |-> s1 :> d1 @@ s2 :> d2,
    kind |-> d1 :> K("all", TRUE, TRUE) @@ d2 :> K("silent", FALSE, FALSE),
    controller |-> {}, download |-> {p1, p2}],
   [proc |-> c1 :> p1 @@ c2 :> p2, driver |-> s1 :> d1 @@ s2 :> d1,
    kind |-> d1 :> K("nomount", TRUE, FALSE) @@ d2 :> K("none", FALSE, FALSE),
    controller |-> {}, download |-> {p1, p2}],
   [proc |-> c1 :> p1 @@ c2 :> p2, driver |-> s1 :> d1 @@ s2 :> d2,
    kind |-> d1 :> K("none", FALSE, FALSE) @@ d2 :> K("all", TRUE, FALSE),
    controller |-> {}, download |-> {p1}],
   [proc |-> c1 :> p1 @@ c2 :> p1, driver |-> s1 :> d1 @@ s2 :> d1,
    kind |-> d1 :> K("all", TRUE, FALSE) @@ d2 :> K("all", TRUE, FALSE),
    controller |-> {p1}, download |-> {p1}]}

=============================================================================
