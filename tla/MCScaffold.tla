----------------------------- MODULE MCScaffold -----------------------------
(* Instances of Scaffold for TLC. *)
EXTENDS Scaffold

CONSTANTS run1, run2, readme, manifest, user, null
=============================================================================
