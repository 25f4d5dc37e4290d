---------------------------- MODULE MCVaultNote ----------------------------
(* A file with two texts beside the empty one, and two keys for child notes. *)
EXTENDS VaultNote
=============================================================================
