---------------------------- MODULE MCUserStore ----------------------------
(* UserStore on small instances.                                           *)
EXTENDS UserStore
=============================================================================
