------------------------------ MODULE MCDiskSync ------------------------------
(* Model-checking instances of DiskSync. *)
EXTENDS DiskSync, SequencesExt

\* The playlists in some fixed order.
AnyOrder == SetToSeq(Playlists)
=============================================================================
