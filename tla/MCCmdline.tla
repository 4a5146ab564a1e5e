----------------------------- MODULE MCCmdline -----------------------------
(* Instances of Cmdline for TLC. *)
EXTENDS Cmdline, TLC

Option(key, value) == [key |-> key, value |-> value]
Opts(list) == [sort |-> "opts", list |-> list]
Joined(list) == [sort |-> "-oX", list |-> list]

Size1m == Option("size", <<"1", "m">>)
Size26 == Option("size", <<"2", "6", "k", " ">>)
Size12e == Option("size", <<"1", "2", "e">>)
Size16e == Option("size", <<"1", "6", "e">>)
Dev == Option("dev", None)
Ro == Option("ro", None)

\* The arguments in all orders.  "-o" goes with the argument after it.
Groups(lists) ==
  {<<Arg("-o"), Opts(l)>> : l \in lists} \cup {<<Joined(l)>> : l \in lists}
    \cup {<<Arg("-b")>>, <<Arg("-f")>>, <<Path("mountpoint")>>}
Lines(lists, n) == {FlattenSeq(g) : g \in UNION {[1..m -> Groups(lists)] : m \in 0..n}}

\* Some have large sizes, other options or a token without a key, and some
\* end with an "-o" that has no options.
AllLines ==
  Lines({<<Size1m>>, <<Size26, Ro>>}, 4) \cup Lines({<<Size12e>>, <<Size16e>>}, 3)
    \cup Lines({<<Option("size", None), Option("inodes", <<"2", "k">>)>>,
               <<Option("subtype", <<"name">>)>>, <<Dev, Option("=", None)>>}, 3)
    \cup {Append(line, Arg("-o")) : line \in Lines({<<Size1m>>}, 2)}
FirstLines == Lines({<<Size1m>>}, 2)

\* Nothing, or up to two characters, before a NUL.
NoJunk == {<<>>}
ShortJunk == NoJunk \cup {<<x>> : x \in {"b", "o", "?"}} \cup ({"b", "o", "?"} \X {"b", "o", "?"})
=============================================================================
