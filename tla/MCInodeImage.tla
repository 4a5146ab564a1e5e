---------------------------- MODULE MCInodeImage ----------------------------
(* Inodes of every class with up to two attributes, in tables of up to      *)
(* MaxSlots slots; names, values and contents are of different lengths.     *)
EXTENDS InodeImage

CONSTANT MaxSlots  \* bound: the length of the table

\* Names, values and contents are sequences of bytes.
Values == {<<>>, <<9>>, <<8, 9>>}
Xattrs ==
  {<<>>} \cup {<<7>> :> v : v \in Values} \cup {(<<7>> :> v) @@ (<<7, 6>> :> <<5>>) : v \in Values}

Entry(name, ino) == [name |-> name, ino |-> ino]

Files ==
  {<<"file", Len(b), [m_buf |-> b]>> : b \in {<<>>, <<4>>, <<4, 9>>}}
Directories ==
  {<<"dir", Len(c), [m_children |-> c]>> :
     c \in {<<Entry(<<9>>, 1), Entry(<<9, 9>>, 1)>>,
            <<Entry(<<9, 9>>, 1), Entry(<<2, 3, 4>>, 3), Entry(<<8>>, 2)>>}}
SymLinks == {<<"symlink", Len(l), [m_link |-> l]>> : l \in {<<2>>, <<2, 9>>}}
SpecialInodes == {<<"special", 0, [m_type |-> t]>> : t \in {0, 3}}

Objects ==
  {[m_markedForDeletion |-> 0, m_nlookup |-> n, m_xattr |-> x, own |-> o[3],
    m_fuseEntryParam |-> [mode |-> o[1], st_size |-> o[2]]] :
     n \in {0, 2}, x \in Xattrs, o \in Files \cup Directories \cup SymLinks \cup SpecialInodes}

MCTable == UNION {[1..n -> Objects \cup {None}] : n \in 0..MaxSlots}

=============================================================================
