-------------------------- MODULE MCStorageDrivers --------------------------
(***************************************************************************)
(* StorageDrivers for TLC.  The hosts are interchangeable, and so are the  *)
(* identities of volumes.                                                  *)
(***************************************************************************)
EXTENDS StorageDrivers, TLC

Symmetry == Permutations(Hosts) \cup Permutations(Vols)
=============================================================================
