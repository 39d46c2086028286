--------------------------- MODULE MCIntegration ---------------------------
(***************************************************************************)
(* Small instances of Integration for TLC.                                 *)
(***************************************************************************)
EXTENDS Integration, TLC

CONSTANTS v1, c1, c2

MCVol == {v1}
MCCaller == {c1, c2}
Symmetry == Permutations(MCCaller)

\* The defaults; a host that takes volumes from others; one that ignores the
\* counters and leaves the making of volumes to others.
Default == [preempt |-> FALSE, ignoreUsed |-> FALSE, cache |-> TRUE,
            implicit |-> TRUE, create |-> TRUE, remove |-> TRUE]
Taker == [Default EXCEPT !.preempt = TRUE]
Careless == [Default EXCEPT !.ignoreUsed = TRUE, !.cache = FALSE,
               !.implicit = FALSE, !.create = FALSE, !.remove = FALSE]
MCDefault == {Default}
\* One request at a time.
MCOneCaller == {c1}
MCConfigs == {Default, Taker, Careless}

=============================================================================
