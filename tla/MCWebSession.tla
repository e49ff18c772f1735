---------------------------- MODULE MCWebSession -----------------------------
(***************************************************************************)
(* WebSession on a small instance: two tabs, a donor and an admin.         *)
(***************************************************************************)
EXTENDS WebSession, TLC

CONSTANTS t1, t2, ana, root

Roles == ana :> "donor" @@ root :> "admin"
=============================================================================
