------------------------------ MODULE MCPickle ------------------------------
(* Instances of Pickle for TLC. *)
EXTENDS Pickle, TLC

CONSTANTS s1, l1, s2, f1, f2

\* A table without and one with an empty slot, the latter with a checkpoint.
MCFresh == [stat |-> 0, inodes |-> <<"root">>, deleted |-> <<>>, pool |-> <<>>]
Full == [stat |-> 1, inodes |-> <<"root", "a">>, deleted |-> <<>>, pool |-> <<>>]
Holed == [stat |-> 1, inodes |-> <<"root", None, "b">>, deleted |-> <<2>>,
          pool |-> <<[key |-> 7, stat |-> 1, inodes |-> <<"root", None>>, deleted |-> <<2>>]>>]

BothStates == {Full, Holed}
OnePath == (s1 :> f1) @@ (l1 :> f1)
TwoPaths == (s1 :> f1) @@ (s2 :> f2) @@ (l1 :> f1)
=============================================================================
