---------------------------- MODULE MCVfsDriver -----------------------------
(* Finite instances of VfsDriver for TLC. *)
EXTENDS VfsDriver, TLC

CONSTANTS i1, i2

InstancePerms == Permutations({i1, i2})
=============================================================================
