--------------------------- MODULE MCGitHubListing ---------------------------
(* Up to four items, the second a pull request, on up to two pages of two;   *)
(* a page with two long items is more than the Tail holds.                   *)
EXTENDS GitHubListing
=============================================================================
