----------------------- MODULE MCMigrationTransaction -----------------------
(***************************************************************************)
(* The plan of a bundle with upload credentials: the private directory,    *)
(* the credentials in it, then settings and setup history.                *)
(***************************************************************************)
EXTENDS MigrationTransaction

MCOperation == <<"mkdir", "create", "replace", "replace">>
MCInside == <<0, 1, 0, 0>>
=============================================================================
