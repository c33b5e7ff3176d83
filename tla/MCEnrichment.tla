----------------------------- MODULE MCEnrichment -----------------------------
(* Model-checking instances of Enrichment. *)
EXTENDS Enrichment
=============================================================================
