---- MODULE MCEmbeddedEditor ----
(***************************************************************************)
(* EmbeddedEditor for TLC.  The run checks liveness, so the symmetry of    *)
(* the requests is not used; the constants are in the .cfg.                *)
(***************************************************************************)
EXTENDS EmbeddedEditor

====
