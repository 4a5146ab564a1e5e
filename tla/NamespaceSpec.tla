---------------------------- MODULE NamespaceSpec ----------------------------
(***************************************************************************)
(* What clients are promised of names: objects of a kind, entries of       *)
(* directories that name them, and requests that make, link, remove or     *)
(* rename exactly the entry they are about, or change nothing.  There are  *)
(* no tables, counts or sizes here.  An object may vanish when it has no   *)
(* name; whether it does is not promised.                                  *)
(***************************************************************************)
EXTENDS FiniteSets

CONSTANTS Name, Object, Root

VARIABLES
  kind,   \* the objects there are, with the kind of each
  entry   \* the entries: directory, name and object

vars == <<kind, entry>>

At(p, n) == {i \in DOMAIN kind : <<p, n, i>> \in entry}
Named(i) == i = Root \/ \E e \in entry : e[3] = i
EmptyDir(d) == \A e \in entry : e[1] # d

\* Where an entry can be made: free names in directories that have a name.
Places == {d \in DOMAIN kind : kind[d] = "dir" /\ Named(d)} \X Name
Free == {at \in Places : At(at[1], at[2]) = {}}

Init == kind = [i \in {Root} |-> "dir"] /\ entry = {}

\* A new object, of some kind.
Make(i) ==
  /\ i \notin DOMAIN kind
  /\ \E at \in Free : entry' = entry \cup {<<at[1], at[2], i>>}
  /\ kind' \in [DOMAIN kind \cup {i} -> {"file", "dir", "symlink", "special"}]
  /\ \A j \in DOMAIN kind : kind'[j] = kind[j]

Link(i) ==
  /\ UNCHANGED kind /\ kind[i] # "dir" /\ Named(i)
  /\ \E at \in Free : entry' = entry \cup {<<at[1], at[2], i>>}

\* Only an empty directory is removed.
Remove(e) ==
  /\ UNCHANGED kind /\ entry' = entry \ {e}
  /\ kind[e[3]] = "dir" => EmptyDir(e[3])

\* Whatever had the new name is replaced: a directory by a directory, if it is
\* empty, anything else by anything else.
Rename(e, at) ==
  LET i == e[3]
      replaced == At(at[1], at[2])
  IN  /\ UNCHANGED kind
      /\ entry' = (entry \ ({e} \cup {<<at[1], at[2], j>> : j \in replaced}))
                    \cup {<<at[1], at[2], i>>}
      /\ \A j \in replaced :
           /\ j # i /\ (kind[j] = "dir" <=> kind[i] = "dir")
           /\ kind[j] = "dir" => EmptyDir(j)

Vanish(i) ==
  /\ UNCHANGED entry /\ ~Named(i) /\ EmptyDir(i)
  /\ kind' = [j \in DOMAIN kind \ {i} |-> kind[j]]

\* A request that is refused, or is not about entries.
Refuse == UNCHANGED vars

Next ==
  \/ Refuse
  \/ \E i \in Object : Make(i)
  \/ \E i \in DOMAIN kind : Link(i) \/ Vanish(i)
  \/ \E e \in entry : Remove(e) \/ \E at \in Places : Rename(e, at)

Spec == Init /\ [][Next]_vars

=============================================================================
