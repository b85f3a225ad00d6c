---------------------------- MODULE MCVaultInstall ----------------------------
EXTENDS VaultInstall

(* The first restore over a vault: nothing has been moved aside yet.         *)
SoleInit == Init /\ old_copy_sets(fs) = {}
SoleSpec == SoleInit /\ [][Next]_vars
=============================================================================
