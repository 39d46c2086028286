------------------------- MODULE MCServerLifecycle --------------------------
(* Finite instances of ServerLifecycle for TLC. *)
EXTENDS ServerLifecycle

CONSTANTS s1, s2, e1, e2, c1, c2, c3

(* Two calls of one server's Close and one of the package's Close. *)
ClosersOfOneAndAll == [c \in Closer |-> IF c = c3 THEN All ELSE s1]
=============================================================================
