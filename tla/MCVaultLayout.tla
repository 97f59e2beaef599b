--------------------------- MODULE MCVaultLayout ---------------------------
(* Two windows and three backups. *)
EXTENDS VaultLayout, TLC
CONSTANTS w1, w2
=============================================================================
