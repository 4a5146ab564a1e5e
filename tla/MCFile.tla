------------------------------- MODULE MCFile -------------------------------
(* Instances of File for TLC: blocks of two bytes. *)
EXTENDS File

MCData == {<<1>>}
=============================================================================
