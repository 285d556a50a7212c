----------------------------- MODULE MCAsyncWait -----------------------------
(***************************************************************************)
(* AsyncWait on a small instance.  The bounds are in the .cfg.             *)
(***************************************************************************)
EXTENDS AsyncWait
=============================================================================
