---------------------------- MODULE MCMigration ----------------------------
(* Small instances of Migration.                                           *)
EXTENDS MigrationScripts

CONSTANTS m1, m2
=============================================================================
