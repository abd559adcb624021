---------------------------- MODULE MCVaultNames ----------------------------
(* Small instances of VaultNames for TLC. *)
EXTENDS VaultNames, TLC

\* Note 2 links to note 1.
LinksOfTwo == {<<2, 1>>}

=============================================================================
