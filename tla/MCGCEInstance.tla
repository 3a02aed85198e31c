---------------------------- MODULE MCGCEInstance ----------------------------
(***************************************************************************)
(* Model-checking harness for GCEInstance: two upload retries (three       *)
(* attempts, enough for a failed Write to be followed by a retry and then  *)
(* an exhausted budget) and two exit statuses, zero and non-zero.          *)
(***************************************************************************)
EXTENDS GCEInstance

MCUploadRetries == 2

MCExitCodes == {0, 7}

=============================================================================
