------------------------------ MODULE MCXattr ------------------------------
(* Instances of Xattr for TLC. *)
EXTENDS Xattr, TLC

MCValue == {<<>>, <<1>>, <<2, 2>>}
Growing == {<<1>>, <<2, 2>>}

Symmetric == Permutations(Addr) \cup Permutations(Attr)
=============================================================================
