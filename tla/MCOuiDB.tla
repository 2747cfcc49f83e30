------------------------------- MODULE MCOuiDB -------------------------------
(* OuiDB with two callers, two versions and a few failures. *)
EXTENDS OuiDB
=============================================================================
