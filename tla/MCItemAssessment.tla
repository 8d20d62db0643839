--------------------------- MODULE MCItemAssessment ---------------------------
(* One issue and one pull request, each moving between two revisions. *)
EXTENDS ItemAssessment
=============================================================================
