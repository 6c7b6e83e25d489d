--------------------------- MODULE MCEpochLifecycle --------------------------
(* Instances of EpochLifecycle for TLC; the configurations give the bounds.  *)
EXTENDS EpochLifecycle
=============================================================================
