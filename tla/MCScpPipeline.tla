---------------------------- MODULE MCScpPipeline ----------------------------
(***************************************************************************)
(* ScpPipeline on small instances.  The bounds of a run are in its .cfg.   *)
(***************************************************************************)
EXTENDS ScpPipelineInv
=============================================================================
