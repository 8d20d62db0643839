--------------------------- MODULE MCDiscoveryScan ---------------------------
(* Values for model-checking DiscoveryScan. *)
EXTENDS DiscoveryScan
=============================================================================
