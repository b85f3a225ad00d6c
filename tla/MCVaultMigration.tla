---------------------------- MODULE MCVaultMigration ----------------------------
(* Model checking VaultMigration on small instances; the .cfg files choose   *)
(* which failures a behaviour may meet.                                      *)
EXTENDS VaultMigration
=============================================================================
