---------------------------- MODULE MCReadiness ----------------------------
(***************************************************************************)
(* Instance of Readiness: the default configuration is the deployment      *)
(* script's kind, read only.                                               *)
(***************************************************************************)
EXTENDS Readiness

CONSTANTS s1, s2, s3

MCDefault == [sub |-> s1, mode |-> "readonly"]
=============================================================================
