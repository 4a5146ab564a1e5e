----------------------------- MODULE MCReaddir -----------------------------
(* Instances of Readdir for TLC. *)
EXTENDS Readdir

CONSTANTS a, b, c, d1, d2, i1, i2, i3, i4

\* One long name and short ones: any two entries fit into a reply.
OneLong == (Dot :> 1) @@ (DotDot :> 2) @@ (a :> 255) @@ (b :> 20) @@ (c :> 20)
\* Two names that do not fit into one reply together.
TwoLong == (Dot :> 1) @@ (DotDot :> 2) @@ (a :> 255) @@ (b :> 255) @@ (c :> 20)

ABAndNone == (d1 :> <<Entry(a, i1), Entry(b, i2)>>) @@ (d2 :> <<>>)
ABAndC == (d1 :> <<Entry(a, i1), Entry(b, i2)>>) @@ (d2 :> <<Entry(c, i3)>>)
=============================================================================
