---------------------------- MODULE MCCheckpoint ----------------------------
(* Instances of Checkpoint for TLC. *)
EXTENDS Checkpoint

MCNameLen == [n \in Name |-> 1]

\* No action reads reply.
StateView == <<Inodes, DeletedInodes, stbuf, kernel, state_pool, restores>>
=============================================================================
