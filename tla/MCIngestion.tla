----------------------------- MODULE MCIngestion -----------------------------
(***************************************************************************)
(* Two documents, changes to each before, during and between cycles, and   *)
(* failures enough to interrupt a cycle and its repetition.                *)
(***************************************************************************)
EXTENDS Ingestion
=============================================================================
