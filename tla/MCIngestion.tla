---------------------------- MODULE MCIngestion ----------------------------
(* Ingestion for TLC. *)
EXTENDS Ingestion
=============================================================================
