--------------------------- MODULE MCImportCommand ---------------------------
(* Instances of ImportCommand: handles, peers and directions are interchangeable. *)
EXTENDS ImportCommand, TLC

Interchangeable ==
  Permutations(Handles) \cup Permutations(Peers) \cup Permutations(Dirs)
=============================================================================
