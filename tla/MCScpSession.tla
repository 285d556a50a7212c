---------------------------- MODULE MCScpSession ----------------------------
(***************************************************************************)
(* ScpSession on a small instance.  The lids are those of three ports of   *)
(* one subnet, and all sides have a gid, as by default, or none has; the   *)
(* other bounds are in the .cfg.                                           *)
(***************************************************************************)
EXTENDS ScpSession

CONSTANTS c1, c2, s

MCLid == [p \in Side |-> CASE p = c1 -> 1 [] p = c2 -> 2 [] p = s -> 3]
MCGidIdx == [p \in Side |-> 3]
MCNoGid == [p \in Side |-> -1]
=============================================================================
