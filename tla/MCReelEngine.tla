---------------------------- MODULE MCReelEngine ----------------------------
(* A small instance of ReelEngine for TLC.                                     *)
EXTENDS ReelEngine

NewReelWork   == NewReel
BegunReelWork == BegunReel
=============================================================================
