----------------------------- MODULE MCGCEStart -----------------------------
(***************************************************************************)
(* Model-checking harness for GCEStart.  The .cfg files choose whether     *)
(* INSTANCE_GROUP is set.                                                  *)
(***************************************************************************)
EXTENDS GCEStart

\* The default auto-implode pair: AUTO_IMPLODE=true, 130 minutes.
MCICModes == {[AutoImplode |-> TRUE, HardTimeoutMinutes |-> "nonNegative"]}

=============================================================================
