----------------------------- MODULE MCStateFile -----------------------------
(* StateFile.cfg gives State three model values: the State on disk, the one *)
(* being saved and one saved in between.                                    *)
EXTENDS StateFile
=============================================================================
