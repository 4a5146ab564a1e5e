----------------------------- MODULE InodeImage -----------------------------
(***************************************************************************)
(* How inodes are laid out in a state file: GetPickledSize, Pickle and     *)
(* Load of Inode and of its four classes, and the loop of load_file_system *)
(* that reads the table back, slot by slot.  Fields have no separators and *)
(* no bounds are checked: every reader must stop where the writer did.  A  *)
(* stream is a sequence of units, one for a field of fixed size or for a   *)
(* byte of a name, of a value or of contents; all that Load knows of the   *)
(* rest is in the units it has read.                                       *)
(***************************************************************************)
EXTENDS Integers, Sequences, FiniteSets, SequencesExt, FiniteSetsExt, TLC

CONSTANTS
  Table,    \* bound: the tables that are pickled
  None,     \* an empty slot
  Unknown   \* whatever was read from a wrong place

VARIABLES
  table,    \* the inode table that was pickled
  stream,   \* the part of the state file that has it
  ptr,      \* the next unit that load_file_system reads
  left,     \* the slots still to be read
  inodes,   \* the table that is loaded
  status,   \* "loading", "done" or an errno
  failed    \* history: an allocation failed

vars == <<table, stream, ptr, left, inodes, status, failed>>

-----------------------------------------------------------------------------
(* Pickle: what a class adds follows what Inode writes *)

Names(x) == SetToSeq(DOMAIN x.m_xattr)

InodePickle(x) ==
  <<x.m_markedForDeletion, x.m_nlookup, x.m_fuseEntryParam, Len(Names(x))>>
  \o FlattenSeq([i \in DOMAIN Names(x) |->
       LET name == Names(x)[i]
           value == x.m_xattr[name]
       IN  <<Len(name)>> \o name \o <<Len(value)>> \o value])

FilePickle(x) == SubSeq(x.own.m_buf, 1, x.m_fuseEntryParam.st_size)
DirectoryPickle(x) ==
  LET m_children == x.own.m_children
  IN  <<Len(m_children)>>
      \o FlattenSeq([i \in DOMAIN m_children |->
           <<m_children[i].ino, Len(m_children[i].name)>> \o m_children[i].name])
SymLinkPickle(x) == x.own.m_link
SpecialInodePickle(x) == <<x.own.m_type>>

Mode(x) == x.m_fuseEntryParam.mode

Pickle(x) ==
  InodePickle(x) \o
  CASE Mode(x) = "file" -> FilePickle(x)
    [] Mode(x) = "dir" -> DirectoryPickle(x)
    [] Mode(x) = "symlink" -> SymLinkPickle(x)
    [] Mode(x) = "special" -> SpecialInodePickle(x)

-----------------------------------------------------------------------------
(* GetPickledSize: what is allocated for it *)

InodeGetPickledSize(x) ==
  4 + MapThenSumSet(LAMBDA name : 2 + Len(name) + Len(x.m_xattr[name]), DOMAIN x.m_xattr)

\* Fault: the inode numbers of the entries are not counted.
DirectoryGetPickledSizeNames(x) ==
  1 + MapThenSumSet(LAMBDA i : 1 + Len(x.own.m_children[i].name), DOMAIN x.own.m_children)
DirectoryGetPickledSize(x) ==
  1 + MapThenSumSet(LAMBDA i : 2 + Len(x.own.m_children[i].name), DOMAIN x.own.m_children)
FileGetPickledSize(x) == x.m_fuseEntryParam.st_size
SymLinkGetPickledSize(x) == Len(x.own.m_link)
SpecialInodeGetPickledSize(x) == 1

GetPickledSize(x) ==
  InodeGetPickledSize(x) +
  CASE Mode(x) = "file" -> FileGetPickledSize(x)
    [] Mode(x) = "dir" -> DirectoryGetPickledSize(x)
    [] Mode(x) = "symlink" -> SymLinkGetPickledSize(x)
    [] Mode(x) = "special" -> SpecialInodeGetPickledSize(x)

\* A slot: inode_state, and the inode if there is one.
Slot(x) ==
  IF x = None THEN <<[exist |-> FALSE]>> ELSE <<[exist |-> TRUE, mode |-> Mode(x)]>> \o Pickle(x)

Slots(t) == FlattenSeq([i \in DOMAIN t |-> Slot(t[i])])

-----------------------------------------------------------------------------
(* Load *)

Units(p, n) == SubSeq(stream, p, p + n - 1)
UpTo(n) == [i \in 1..n |-> i]

\* What Inode::Load reads from p when memory suffices, and where it ends.
InodeLoad(p) ==
  LET xattr(acc, i) ==
        LET keysize == stream[acc.end]
            value == acc.end + 1 + keysize
            valsize == stream[value]
        IN  [end |-> value + 1 + valsize,
             map |-> (Units(acc.end + 1, keysize) :> Units(value + 1, valsize)) @@ acc.map]
      all == FoldLeft(xattr, [end |-> p + 4, map |-> <<>>], UpTo(stream[p + 3]))
  IN  [end |-> all.end, m_markedForDeletion |-> stream[p], m_nlookup |-> stream[p + 1],
       m_fuseEntryParam |-> stream[p + 2], m_xattr |-> all.map]

\* The rest, for each class.
FileLoad(p, entry) ==
  [end |-> p + entry.st_size, own |-> [m_buf |-> Units(p, entry.st_size)]]
\* Fault: an entry is taken to end before the last byte of its name.
ChildShort(list, i) ==
  LET namelen == stream[list.end + 1]
  IN  [end |-> list.end + 1 + namelen,
       m_children |-> Append(list.m_children,
                             [ino |-> stream[list.end], name |-> Units(list.end + 2, namelen)])]
\* The next entry, after those in list.
Child(list, i) ==
  LET namelen == stream[list.end + 1]
  IN  [end |-> list.end + 2 + namelen,
       m_children |-> Append(list.m_children,
                             [ino |-> stream[list.end], name |-> Units(list.end + 2, namelen)])]
DirectoryLoad(p) ==
  LET all == FoldLeft(Child, [end |-> p + 1, m_children |-> <<>>], UpTo(stream[p]))
  IN  [end |-> all.end, own |-> [m_children |-> all.m_children]]
SymLinkLoad(p, entry) ==
  [end |-> p + entry.st_size, own |-> [m_link |-> Units(p, entry.st_size)]]
SpecialInodeLoad(p) == [end |-> p + 1, own |-> [m_type |-> stream[p]]]

OwnLoad(mode, p, entry) ==
  CASE mode = "file" -> FileLoad(p, entry)
    [] mode = "dir" -> DirectoryLoad(p)
    [] mode = "symlink" -> SymLinkLoad(p, entry)
    [] mode = "special" -> SpecialInodeLoad(p)

Loaded(base, own) ==
  [m_markedForDeletion |-> base.m_markedForDeletion, m_nlookup |-> base.m_nlookup,
   m_fuseEntryParam |-> base.m_fuseEntryParam, m_xattr |-> base.m_xattr, own |-> own]

\* What the classes return when Inode::Load has failed and returned 0: they go
\* on at the start of the inode.  The contents of a file may not get memory
\* either.
AfterFailure(mode, entry) ==
  CASE mode = "file" -> {0, entry.st_size}
    [] mode = "symlink" -> {entry.st_size}
    [] mode = "dir" -> 1..Len(stream)
    [] mode = "special" -> {1}

-----------------------------------------------------------------------------
Init ==
  /\ table \in Table
  /\ stream = Slots(table) /\ ptr = 1 /\ left = Len(table)
  /\ inodes = <<>> /\ status = "loading" /\ failed = FALSE

Reading == status = "loading" /\ left > 0 /\ ~failed /\ left' = left - 1

SkipEmpty ==
  /\ Reading /\ ~stream[ptr].exist
  /\ ptr' = ptr + 1
  /\ UNCHANGED <<table, stream, inodes, status, failed>>

LoadInode ==
  /\ Reading /\ stream[ptr].exist
  /\ LET base == InodeLoad(ptr + 1)
         rest == OwnLoad(stream[ptr].mode, base.end, base.m_fuseEntryParam)
     IN  ptr' = rest.end /\ inodes' = Append(inodes, Loaded(base, rest.own))
  /\ UNCHANGED <<table, stream, status, failed>>

\* Memory for a value runs out: the attributes are cleared and the class does
\* not notice.  What is read after that is not followed.
XattrNoMemory ==
  /\ Reading /\ stream[ptr].exist
  /\ LET base == InodeLoad(ptr + 1)
     IN  /\ base.m_xattr # <<>>
         /\ inodes' = Append(inodes, Loaded([base EXCEPT !.m_xattr = <<>>], Unknown))
         /\ \E res \in AfterFailure(stream[ptr].mode, base.m_fuseEntryParam) :
              IF res = 0 THEN status' = "ENOMEM" /\ UNCHANGED ptr
              ELSE ptr' = ptr + 1 + res /\ UNCHANGED status
  /\ failed' = TRUE /\ UNCHANGED <<table, stream>>

\* Memory for the contents of a file runs out.
FileNoMemory ==
  /\ Reading /\ stream[ptr].exist /\ stream[ptr].mode = "file"
  /\ inodes' = Append(inodes, Loaded([InodeLoad(ptr + 1) EXCEPT !.m_xattr = <<>>], Unknown))
  /\ status' = "ENOMEM" /\ failed' = TRUE
  /\ UNCHANGED <<table, stream, ptr>>

Return ==
  /\ status = "loading" /\ left = 0 /\ ~failed /\ status' = "done"
  /\ UNCHANGED <<table, stream, ptr, left, inodes, failed>>

Next == SkipEmpty \/ LoadInode \/ XattrNoMemory \/ FileNoMemory \/ Return

Spec == Init /\ [][Next]_vars

-----------------------------------------------------------------------------
(* Properties *)

\* The slots of the table that have been read.
ReadSlots == SubSeq(table, 1, Len(table) - left)

\* pickle_file_system allocates GetPickledSize and writes all of it to the
\* file: Pickle fills exactly that, whatever names, values and contents are.
PickledFits ==
  \A i \in DOMAIN table : table[i] # None => Len(Pickle(table[i])) = GetPickledSize(table[i])

\* With memory enough, whatever has been read so far is what was pickled, and
\* the next slot is read from where it begins.
LoadedAsPickled ==
  ~failed => /\ inodes = SelectSeq(ReadSlots, LAMBDA x : x # None)
             /\ ptr = Len(Slots(ReadSlots)) + 1

\* load_file_system: "@return: bytes used".  While it goes on, what it has
\* counted are the bytes of the slots it has read.
CountsBytesUsed == status = "loading" => ptr = Len(Slots(ReadSlots)) + 1

=============================================================================
