------------------------------ MODULE MCPlayLog ------------------------------
(* Model-checking instances of PlayLog: PlayLog.cfg and PlayLogPanic.cfg. *)
EXTENDS PlayLog
=============================================================================
