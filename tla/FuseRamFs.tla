------------------------------ MODULE FuseRamFs ------------------------------
(***************************************************************************)
(* The namespace and the inode table of the RefFS/VeriFS2 daemon: the      *)
(* request handlers of fuse_cpp_ramfs.cpp that change them, with the       *)
(* Directory, File and SymLink methods they call.                          *)
(*                                                                         *)
(* main() runs fuse_session_loop, the single-threaded loop, so a handler   *)
(* runs to its end before the next request is read: one action per         *)
(* handler.  The other actor is the kernel.  It is not part of the program *)
(* and appears as kref and kdead, what it knows of the inode numbers it    *)
(* was given, and as the Kernel* predicates, which say what it may send.   *)
(***************************************************************************)
EXTENDS Integers, Sequences, FiniteSetsExt

CONSTANTS
  Name,       \* the entry names clients use ("." and ".." are apart)
  NameLen,    \* the length of each name, in bytes
  Files,      \* f_files, the inodes the file system may have
  Blocks,     \* f_blocks, its capacity in blocks
  Modulus,    \* 2^64 in the program: counters are unsigned and wrap
  MknodKind,  \* bound: the kinds of inode that mknod makes
  LinkLen,    \* bound: the lengths of symbolic link targets
  FileLen,    \* bound: the offsets and lengths of writes, the new sizes
  MaxLookup,  \* bound: the lookups of one inode the kernel holds at once
  MaxLinks,   \* bound: the hard links that link makes to one inode
  MaxLeak     \* bound: the blocks charged to no inode (see RegisterCharge)

ASSUME NameAssumption == IsFiniteSet(Name) /\ NameLen \in [Name -> Nat \ {0}]
ASSUME CapacityAssumption ==
  /\ Files \in Nat /\ Files >= 2
  /\ Blocks \in Nat /\ Blocks >= 2
  /\ Modulus \in Nat /\ Files < Modulus /\ Blocks < Modulus
ASSUME BoundAssumption ==
  /\ MknodKind \subseteq {"file", "special"}
  /\ LinkLen \subseteq Nat /\ FileLen \subseteq Nat
  /\ MaxLookup \in Nat \ {0} /\ MaxLookup < Modulus
  /\ MaxLinks \in Nat /\ MaxLeak \in Nat

VARIABLES
  Inodes,         \* the table; slot 0, a placeholder without links, is left out
  DeletedInodes,  \* the queue of the slots free for reuse
  f_bfree,        \* free blocks (f_bavail always equals it)
  f_ffree,        \* free inodes (f_favail always equals it)
  kref,           \* kernel: lookups it still has to forget, by inode number
  kdead,          \* kernel: the directories it has marked removed
  reply           \* the replies to the last request, in order

stbuf == <<f_bfree, f_ffree>>
kernel == <<kref, kdead>>
vars == <<Inodes, DeletedInodes, stbuf, kernel, reply>>

-----------------------------------------------------------------------------
(* Inodes *)

Root == 1
Ino == 1..(Files - 1)
INO_NOTFOUND == 0
Kind == {"null", "file", "dir", "symlink", "special"}

\* What the handlers reply: success, a write of nothing, or an errno.
Reply == {"OK", "NoBytes", "ENOENT", "ENOTDIR", "EEXIST", "ENOSPC", "EINVAL",
          "ENOTEMPTY", "EISDIR", "ERANGE"}

\* children maps every name to its inode number, or to INO_NOTFOUND.
Inode == [kind : Kind, nlink : 0..(Modulus - 1), nlookup : 0..(Modulus - 1),
          size : Int, blocks : Int, children : [Name -> Nat], dotdot : Nat]

Word(x) == x % Modulus

NoChildren == [n \in Name |-> INO_NOTFOUND]

\* An empty slot, and what GetInode finds beyond the table.
NullInode == [kind |-> "null", nlink |-> 0, nlookup |-> 0, size |-> 0,
              blocks |-> 0, children |-> NoChildren, dotdot |-> INO_NOTFOUND]

BufBlockSize == 512

get_nblocks(size) == (size + BufBlockSize - 1) \div BufBlockSize

\* sizeof(m_children), and what an entry adds to it.
BaseDirSize == 24
EntrySize(len) == 32 + 8 + 32 + len
ElemSize(n) == EntrySize(NameLen[n])
EmptyDirSize == BaseDirSize + EntrySize(1) + EntrySize(2)

NewNode(kind, size) ==
  [kind |-> kind, nlink |-> 1, nlookup |-> 0, size |-> size,
   blocks |-> get_nblocks(size), children |-> NoChildren, dotdot |-> INO_NOTFOUND]

NewFile == NewNode("file", 0)
NewSymLink(len) == NewNode("symlink", len)
NewDirectory(parent) ==
  [NewNode("dir", EmptyDirSize) EXCEPT !.nlink = 2, !.dotdot = parent]

\* nlink as the int that NumLinks returns: a wrapped count is negative.
NumLinks(node) ==
  IF node.nlink < Modulus \div 2 THEN node.nlink ELSE node.nlink - Modulus

GetInode(i) == IF i \in DOMAIN Inodes THEN Inodes[i] ELSE NullInode

HasNoLinks(i) == GetInode(i).nlink = 0

-----------------------------------------------------------------------------
(* Directories, as operations on the directory's record *)

ChildInodeNumberWithName(p, n) == GetInode(p).children[n]

\* The free block count is a parameter: callers change it before the check.
CheckHasSpaceFor(node, incSize, free) ==
  LET more == get_nblocks(node.size + incSize) - node.blocks
  IN  incSize <= 0 \/ more <= 0 \/ free >= more

UpdateSize(dir, delta) ==
  [dir EXCEPT !.size = @ + delta, !.blocks = get_nblocks(dir.size + delta)]

AddChildErrno(dir, n, free) ==
  IF dir.children[n] # INO_NOTFOUND THEN "EEXIST"
  ELSE IF CheckHasSpaceFor(dir, ElemSize(n), free) THEN "OK" ELSE "ENOSPC"

AddChild(dir, n, i) ==
  UpdateSize([dir EXCEPT !.children[n] = i], ElemSize(n))

\* Faults: the entry goes and the size stays; the size goes and the entry stays.
RemoveChildKeepsSize(dir, n) == [dir EXCEPT !.children[n] = INO_NOTFOUND]
RemoveChildKeepsEntry(dir, n) == UpdateSize(dir, -ElemSize(n))
RemoveChild(dir, n) ==
  UpdateSize([dir EXCEPT !.children[n] = INO_NOTFOUND], -ElemSize(n))

\* The table with the entry n of directory p removed, and with k links added to
\* inode i (IncrementLinkCount, DecrementLinkCount).
RemoveEntry(table, p, n) == [table EXCEPT ![p] = RemoveChild(@, n)]
AddLinks(table, i, k) == [table EXCEPT ![i].nlink = Word(@ + k)]

\* Fault: the loop answers with the first entry it sees.
IsEmptyFirst(dir) == \E n \in Name : HasNoLinks(dir.children[n])
IsEmpty(dir) == \A n \in Name : HasNoLinks(dir.children[n])

-----------------------------------------------------------------------------
(* The kernel (external).  kref counts the lookups of an inode number that *)
(* the kernel holds or has put in a FORGET still on its way: the daemon    *)
(* cannot tell the two apart.  The root is always known and never forgotten.*)

Knows(i) == i = Root \/ kref[i] > 0

\* It resolves names only in directories that it has not seen removed.
KernelWalks(p) == p \in Ino /\ Knows(p) /\ p \notin kdead

\* It has looked up the entry it removes or replaces.
KernelHolds(c) == c # INO_NOTFOUND => kref[c] > 0

\* vfs_unlink is for anything but directories.
KernelUnlinks(p, n) ==
  LET c == ChildInodeNumberWithName(p, n)
  IN  KernelWalks(p) /\ KernelHolds(c) /\ GetInode(c).kind # "dir"

\* The directory p and all those above it.
Ancestors(p) ==
  LET up[k \in 0..Files] ==
        IF k = 0 THEN {p}
        ELSE LET below == up[k - 1]
             IN  below \cup {d \in DOMAIN Inodes :
                               \E n \in Name : Inodes[d].children[n] \in below}
  IN  up[Files]

\* vfs_rename does nothing when both names are one inode, and refuses to move
\* a directory below itself.
KernelRenames(p, n, q, m) ==
  LET src == ChildInodeNumberWithName(p, n)
      existing == ChildInodeNumberWithName(q, m)
  IN  /\ KernelWalks(p) /\ KernelWalks(q)
      /\ KernelHolds(src) /\ KernelHolds(existing)
      /\ src = existing => src = INO_NOTFOUND
      /\ GetInode(src).kind = "dir" => src \notin Ancestors(q)

-----------------------------------------------------------------------------
(* Requests *)

\* FuseInit on a fresh table: the root, its two entries, and its blocks, which
\* Directory::Initialize and RegisterInode both charge.
RegisterCharge(node) ==
  IF node.kind = "dir" THEN get_nblocks(BaseDirSize) + node.blocks ELSE node.blocks

Init ==
  /\ Inodes = <<NewDirectory(Root)>>
  /\ DeletedInodes = <<>>
  /\ f_bfree = Word(Blocks - RegisterCharge(NewDirectory(Root)))
  /\ f_ffree = Files - 2
  /\ kref = [i \in Ino |-> 0]
  /\ kdead = {}
  /\ reply = <<>>

Fail(replies) ==
  /\ reply' = replies
  /\ UNCHANGED <<Inodes, DeletedInodes, stbuf, kernel>>

\* The checks every handler makes of a parent directory.
ParentErrno(p) ==
  IF HasNoLinks(p) THEN "ENOENT"
  ELSE IF GetInode(p).kind # "dir" THEN "ENOTDIR" ELSE "OK"

\* Fault: m_nlookup is not counted.
ReplyEntryUncounted(table, i) ==
  /\ kref[i] < MaxLookup
  /\ Inodes' = table
  /\ kref' = [kref EXCEPT ![i] = @ + 1]
  /\ UNCHANGED kdead
\* The reply hands inode i, as it is in table, to the kernel.
ReplyEntry(table, i) ==
  /\ kref[i] < MaxLookup
  /\ Inodes' = [table EXCEPT ![i].nlookup = Word(@ + 1)]
  /\ kref' = [kref EXCEPT ![i] = @ + 1]
  /\ UNCHANGED kdead

LookupErrno(p, n) ==
  IF ParentErrno(p) # "OK" THEN ParentErrno(p)
  ELSE IF HasNoLinks(ChildInodeNumberWithName(p, n)) THEN "ENOENT" ELSE "OK"

FuseLookup(p, n) ==
  /\ KernelWalks(p)
  /\ IF LookupErrno(p, n) # "OK" THEN Fail(<<LookupErrno(p, n)>>)
     ELSE /\ ReplyEntry(Inodes, ChildInodeNumberWithName(p, n))
          /\ reply' = <<"OK">>
          /\ UNCHANGED <<DeletedInodes, stbuf>>

\* Faults: links do not matter; lookups do not matter; the lookups are read
\* before Forget has subtracted from them.
ForgottenLinked(i, nlookup) == nlookup = 0
ForgottenHeld(i, nlookup) == HasNoLinks(i)
ForgottenEarly(i, nlookup) == GetInode(i).nlookup = 0 /\ HasNoLinks(i)
Forgotten(i, nlookup) == nlookup = 0 /\ HasNoLinks(i)

\* Faults: DeleteInode pushes nothing; UpdateUsedInodes is not called;
\* UpdateUsedBlocks is not called.
ReclaimUnqueued(i) ==
  /\ Inodes' = [Inodes EXCEPT ![i] = NullInode]
  /\ f_ffree' = Word(f_ffree + 1)
  /\ f_bfree' = Word(f_bfree + Inodes[i].blocks)
  /\ UNCHANGED DeletedInodes
ReclaimUncounted(i) ==
  /\ Inodes' = [Inodes EXCEPT ![i] = NullInode]
  /\ DeletedInodes' = Append(DeletedInodes, i)
  /\ f_bfree' = Word(f_bfree + Inodes[i].blocks)
  /\ UNCHANGED f_ffree
ReclaimCharged(i) ==
  /\ Inodes' = [Inodes EXCEPT ![i] = NullInode]
  /\ DeletedInodes' = Append(DeletedInodes, i)
  /\ f_ffree' = Word(f_ffree + 1)
  /\ UNCHANGED f_bfree

\* delete, DeleteInode, UpdateUsedInodes and UpdateUsedBlocks.
Reclaim(i) ==
  /\ Inodes' = [Inodes EXCEPT ![i] = NullInode]
  /\ DeletedInodes' = Append(DeletedInodes, i)
  /\ f_ffree' = Word(f_ffree + 1)
  /\ f_bfree' = Word(f_bfree + Inodes[i].blocks)

FuseForget(i, count) ==
  LET left == Word(GetInode(i).nlookup - count)
  IN  /\ i \in Ino /\ count \in 1..kref[i]
      /\ kref' = [kref EXCEPT ![i] = @ - count]
      /\ kdead' = IF kref[i] = count THEN kdead \ {i} ELSE kdead
      /\ reply' = <<>>
      /\ IF GetInode(i).kind = "null" THEN UNCHANGED <<Inodes, DeletedInodes, stbuf>>
         ELSE IF Forgotten(i, left) THEN Reclaim(i)
         ELSE /\ Inodes' = [Inodes EXCEPT ![i].nlookup = left]
              /\ UNCHANGED <<DeletedInodes, stbuf>>

-----------------------------------------------------------------------------
(* Creating *)

NewIno == IF DeletedInodes = <<>> THEN Len(Inodes) + 1 ELSE Head(DeletedInodes)

\* The table and the queue once node has its slot.
RegisterInode(node) ==
  IF DeletedInodes = <<>> THEN Append(Inodes, node)
  ELSE [Inodes EXCEPT ![Head(DeletedInodes)] = node]
\* Fault: PopOneDeletedInode reads the front and does not pop it.
DeletedInodesUnpopped == DeletedInodes
DeletedInodesLeft ==
  IF DeletedInodes = <<>> THEN <<>> ELSE Tail(DeletedInodes)

Live == {i \in DOMAIN Inodes : Inodes[i].kind # "null"}

\* The blocks of all inodes; an empty slot has none.
UsedBlocks == SumFunction([i \in DOMAIN Inodes |-> Inodes[i].blocks])

\* The blocks missing from f_bfree that no inode has.
Leaked == Word(Blocks - f_bfree - UsedBlocks)

\* Fault: the inode is given back and stays counted as used.
UndoRegisterCounted(node, free) ==
  /\ Inodes' = [RegisterInode(node) EXCEPT ![NewIno] = NullInode]
  /\ DeletedInodes' = Append(DeletedInodesLeft, NewIno)
  /\ f_bfree' = Word(free - node.blocks)
  /\ f_ffree' = Word(f_ffree - 1)

\* The slot of node is given back, and its blocks are charged a second time.
UndoRegister(node, free) ==
  /\ Inodes' = [RegisterInode(node) EXCEPT ![NewIno] = NullInode]
  /\ DeletedInodes' = Append(DeletedInodesLeft, NewIno)
  /\ f_bfree' = Word(free - node.blocks)
  /\ UNCHANGED f_ffree

\* Registers node and enters it into p.  It fails for want of memory or of a
\* free inode, or when the entry cannot be made.
do_create_node(p, n, node, replies) ==
  LET ino == NewIno
      free == Word(f_bfree - RegisterCharge(node))
      ret == AddChildErrno(Inodes[p], n, free)
      parent == AddChild(Inodes[p], n, ino)
  IN  \/ Fail(Append(replies, "ENOSPC"))
      \/ /\ f_ffree # 0 /\ ret # "OK"
         /\ node.blocks > 0 => Leaked < MaxLeak
         /\ UndoRegister(node, free)
         /\ reply' = Append(replies, ret)
         /\ UNCHANGED kernel
      \/ /\ f_ffree # 0 /\ ret = "OK"
         /\ LET entered == [RegisterInode(node) EXCEPT ![p] = parent]
            IN  ReplyEntry(IF node.kind = "dir" THEN AddLinks(entered, p, 1) ELSE entered,
                           ino)
         /\ DeletedInodes' = DeletedInodesLeft
         /\ f_bfree' = Word(free - (parent.blocks - Inodes[p].blocks))
         /\ f_ffree' = Word(f_ffree - 1)
         /\ reply' = Append(replies, "OK")

\* What mknod and mkdir check before they create.
MakeErrno(p, n) ==
  IF ParentErrno(p) # "OK" THEN ParentErrno(p)
  ELSE IF f_ffree = 0 THEN "ENOSPC"
  ELSE IF ChildInodeNumberWithName(p, n) # INO_NOTFOUND THEN "EEXIST" ELSE "OK"

FuseMknod(p, n, kind) ==
  /\ KernelWalks(p)
  /\ IF MakeErrno(p, n) # "OK" THEN Fail(<<MakeErrno(p, n)>>)
     ELSE do_create_node(p, n, NewNode(kind, 0), <<>>)

FuseMkdir(p, n) ==
  /\ KernelWalks(p) /\ Leaked < MaxLeak
  /\ IF MakeErrno(p, n) # "OK" THEN Fail(<<MakeErrno(p, n)>>)
     ELSE do_create_node(p, n, NewDirectory(p), <<>>)

FuseCreate(p, n) ==
  /\ KernelWalks(p)
  /\ IF ParentErrno(p) # "OK" THEN Fail(<<ParentErrno(p)>>)
     ELSE do_create_node(p, n, NewFile, <<>>)

\* The two checks of free space reply and go on.  A second reply uses a request
\* that libfuse has freed: a daemon that dies of it reaches no further state.
SymlinkWarnings(n) ==
  (IF CheckHasSpaceFor(NullInode, NameLen[n], f_bfree) THEN <<>> ELSE <<"ENOSPC">>)
  \o (IF f_ffree = 0 THEN <<"ENOSPC">> ELSE <<>>)

FuseSymlink(p, n, len) ==
  /\ KernelWalks(p)
  /\ IF ParentErrno(p) # "OK" THEN Fail(<<ParentErrno(p)>>)
     ELSE IF ChildInodeNumberWithName(p, n) # INO_NOTFOUND
     THEN Fail(Append(SymlinkWarnings(n), "EEXIST"))
     ELSE do_create_node(p, n, NewSymLink(len), SymlinkWarnings(n))

LinkErrno(i, q, n) ==
  IF HasNoLinks(i) THEN "ENOENT"
  ELSE IF ParentErrno(q) # "OK" THEN ParentErrno(q)
  ELSE AddChildErrno(Inodes[q], n, f_bfree)

\* Fault: the entry is made and the link is not counted.
FuseLinkUncounted(i, q, n) ==
  /\ i \in Ino /\ Knows(i) /\ GetInode(i).kind # "dir" /\ KernelWalks(q)
  /\ GetInode(i).nlink < MaxLinks
  /\ IF LinkErrno(i, q, n) # "OK" THEN Fail(<<LinkErrno(i, q, n)>>)
     ELSE LET dir == AddChild(Inodes[q], n, i)
          IN  /\ ReplyEntry([Inodes EXCEPT ![q] = dir], i)
              /\ f_bfree' = Word(f_bfree - (dir.blocks - Inodes[q].blocks))
              /\ reply' = <<"OK">>
              /\ UNCHANGED <<DeletedInodes, f_ffree>>

\* The kernel makes no hard links to directories.
FuseLink(i, q, n) ==
  /\ i \in Ino /\ Knows(i) /\ GetInode(i).kind # "dir" /\ KernelWalks(q)
  /\ GetInode(i).nlink < MaxLinks
  /\ IF LinkErrno(i, q, n) # "OK" THEN Fail(<<LinkErrno(i, q, n)>>)
     ELSE LET dir == AddChild(Inodes[q], n, i)
          IN  /\ ReplyEntry(AddLinks([Inodes EXCEPT ![q] = dir], i, 1), i)
              /\ f_bfree' = Word(f_bfree - (dir.blocks - Inodes[q].blocks))
              /\ reply' = <<"OK">>
              /\ UNCHANGED <<DeletedInodes, f_ffree>>

-----------------------------------------------------------------------------
(* Removing and renaming *)

\* Fault: UpdateSize gives no block back when the directory shrinks.
BlocksReturnedNone(dir, n) == 0
\* The blocks a directory gives up with the entry n.
BlocksReturned(dir, n) == dir.blocks - RemoveChild(dir, n).blocks

FuseUnlink(p, n) ==
  LET c == ChildInodeNumberWithName(p, n)
      errno == IF ParentErrno(p) # "OK" THEN ParentErrno(p)
               ELSE IF c = INO_NOTFOUND THEN "ENOENT" ELSE "OK"
  IN  /\ KernelUnlinks(p, n)
      /\ IF errno # "OK" THEN Fail(<<errno>>)
         ELSE /\ Inodes' = AddLinks(RemoveEntry(Inodes, p, n), c, -1)
              /\ f_bfree' = Word(f_bfree + BlocksReturned(Inodes[p], n))
              /\ reply' = <<"OK">>
              /\ UNCHANGED <<DeletedInodes, f_ffree, kernel>>

RmdirErrno(p, n) ==
  LET c == ChildInodeNumberWithName(p, n)
  IN  IF ParentErrno(p) # "OK" THEN ParentErrno(p)
      ELSE IF c = INO_NOTFOUND THEN "ENOENT"
      ELSE IF c = p THEN "EINVAL"
      ELSE IF ParentErrno(c) # "OK" THEN ParentErrno(c)
      ELSE IF ~IsEmpty(GetInode(c)) THEN "ENOTEMPTY" ELSE "OK"

FuseRmdir(p, n) ==
  LET c == ChildInodeNumberWithName(p, n)
  IN  /\ KernelWalks(p) /\ KernelHolds(c)
      /\ IF RmdirErrno(p, n) # "OK" THEN Fail(<<RmdirErrno(p, n)>>)
         ELSE /\ LET removed == AddLinks(RemoveEntry(Inodes, p, n), p, -1)
                 IN  Inodes' = IF NumLinks(Inodes[c]) > 0
                               THEN [removed EXCEPT ![c].nlink = 0] ELSE removed
              /\ f_bfree' = Word(f_bfree + BlocksReturned(Inodes[p], n))
              /\ kdead' = kdead \cup {c}
              /\ reply' = <<"OK">>
              /\ UNCHANGED <<DeletedInodes, f_ffree, kref>>

RenameErrno(p, n, q, m) ==
  LET src == GetInode(ChildInodeNumberWithName(p, n))
      existing == GetInode(ChildInodeNumberWithName(q, m))
  IN  IF HasNoLinks(p) \/ HasNoLinks(q) THEN "ENOENT"
      ELSE IF GetInode(p).kind # "dir" \/ GetInode(q).kind # "dir" THEN "ENOTDIR"
      ELSE IF src.nlink = 0 THEN "ENOENT"
      ELSE IF NumLinks(existing) <= 0 THEN "OK"
      ELSE IF src.kind = "dir" /\ existing.kind # "dir" THEN "ENOTDIR"
      ELSE IF existing.kind = "dir" /\ ~IsEmpty(existing) THEN "ENOTEMPTY"
      ELSE IF src.kind # "dir" /\ existing.kind = "dir" THEN "EISDIR" ELSE "OK"

\* A directory that is replaced loses three links, its new parent none.
ReplaceEntry(p, n, q, m) ==
  LET src == ChildInodeNumberWithName(p, n)
      existing == ChildInodeNumberWithName(q, m)
      isdir == GetInode(existing).kind = "dir"
      unlinked == AddLinks(Inodes, existing, IF isdir THEN -3 ELSE -1)
      removed == RemoveEntry([unlinked EXCEPT ![q].children[m] = src], p, n)
  IN  /\ Inodes' = IF isdir THEN AddLinks(removed, p, -1) ELSE removed
      /\ f_bfree' = Word(f_bfree + BlocksReturned(Inodes[p], n))
      /\ kdead' = IF isdir THEN kdead \cup {existing} ELSE kdead

\* What _AddChild returns is not looked at: without space for the new entry
\* the old one is removed all the same.
MoveEntry(p, n, q, m) ==
  LET src == ChildInodeNumberWithName(p, n)
      isdir == GetInode(src).kind = "dir"
      ret == AddChildErrno(Inodes[q], m, f_bfree)
      added == IF ret = "OK" THEN [Inodes EXCEPT ![q] = AddChild(@, m, src)] ELSE Inodes
      removed == RemoveEntry(added, p, n)
  IN  /\ Inodes' = IF isdir THEN AddLinks(AddLinks(removed, p, -1), q, 1) ELSE removed
      /\ f_bfree' = Word(f_bfree - (added[q].blocks - Inodes[q].blocks)
                                 + BlocksReturned(added[p], n))
      /\ UNCHANGED kdead

FuseRename(p, n, q, m) ==
  /\ KernelRenames(p, n, q, m)
  /\ IF RenameErrno(p, n, q, m) # "OK" THEN Fail(<<RenameErrno(p, n, q, m)>>)
     ELSE /\ IF NumLinks(GetInode(ChildInodeNumberWithName(q, m))) > 0
             THEN ReplaceEntry(p, n, q, m)
             ELSE MoveEntry(p, n, q, m)
          /\ reply' = <<"OK">>
          /\ UNCHANGED <<DeletedInodes, f_ffree, kref>>

-----------------------------------------------------------------------------
(* File sizes *)

\* The file i now has size bytes in blocks blocks, charge of them new.
SetSize(i, size, blocks, charge) ==
  /\ Inodes' = [Inodes EXCEPT ![i].size = size, ![i].blocks = blocks]
  /\ f_bfree' = Word(f_bfree - charge)
  /\ reply' = <<"OK">>
  /\ UNCHANGED <<DeletedInodes, f_ffree, kernel>>

\* The write ends past the buffer.
Grows(node, size) == size > BufBlockSize * node.blocks

WriteErrno(i, size) ==
  LET node == GetInode(i)
  IN  IF node.nlink = 0 \/ node.kind = "special" THEN "ENOENT"
      ELSE IF node.kind # "file" THEN "EISDIR"
      ELSE IF Grows(node, size) /\ ~CheckHasSpaceFor(node, size - node.size, f_bfree)
      THEN "ENOSPC" ELSE "OK"

\* When realloc finds no memory the reply says that nothing was written.
FuseWrite(i, off, len) ==
  LET node == GetInode(i)
      size == off + len
      blocks == get_nblocks(size)
  IN  /\ Knows(i) /\ len > 0
      /\ \/ /\ WriteErrno(i, size) # "OK"
            /\ Fail(<<WriteErrno(i, size)>>)
         \/ /\ WriteErrno(i, size) = "OK" /\ Grows(node, size)
            /\ Fail(<<"NoBytes">>)
         \/ /\ WriteErrno(i, size) = "OK"
            /\ IF size > node.size
               THEN SetSize(i, size, blocks,
                            IF Grows(node, size) THEN blocks - node.blocks ELSE 0)
               ELSE Fail(<<"OK">>)

\* FuseSetAttr with FUSE_SET_ATTR_SIZE.  FileTruncate returns -ENOSPC, which
\* libfuse takes for an invalid error value and turns into ERANGE.
TruncateErrno(i, size) ==
  LET node == GetInode(i)
  IN  IF node.nlink = 0 THEN "ENOENT"
      ELSE IF node.kind = "dir" THEN "EISDIR"
      ELSE IF node.kind # "file" THEN "EINVAL"
      ELSE IF CheckHasSpaceFor(node, size - node.size, f_bfree) THEN "OK" ELSE "ERANGE"

FuseSetAttr(i, size) ==
  LET blocks == get_nblocks(size)
  IN  /\ Knows(i)
      /\ \/ /\ TruncateErrno(i, size) # "OK"
            /\ Fail(<<TruncateErrno(i, size)>>)
         \/ /\ TruncateErrno(i, size) = "OK"
            /\ blocks \notin {0, Inodes[i].blocks}
            /\ Fail(<<"EINVAL">>)
         \/ /\ TruncateErrno(i, size) = "OK"
            /\ SetSize(i, size, blocks, blocks - Inodes[i].blocks)

-----------------------------------------------------------------------------
Next ==
  \/ \E i \in Ino : \E count \in 1..MaxLookup : FuseForget(i, count)
  \/ \E p \in Ino, n \in Name :
       \/ FuseLookup(p, n)
       \/ \E kind \in MknodKind : FuseMknod(p, n, kind)
       \/ FuseMkdir(p, n)
       \/ FuseCreate(p, n)
       \/ \E len \in LinkLen : FuseSymlink(p, n, len)
       \/ \E i \in Ino : FuseLink(i, p, n)
       \/ FuseUnlink(p, n)
       \/ FuseRmdir(p, n)
       \/ \E q \in Ino, m \in Name : FuseRename(p, n, q, m)
  \/ \E i \in Ino, size \in FileLen :
       \/ \E off \in FileLen : FuseWrite(i, off, size)
       \/ FuseSetAttr(i, size)

Spec == Init /\ [][Next]_vars

-----------------------------------------------------------------------------
(* Properties *)

\* Every variable has its type; in particular the table never has more slots
\* than f_files allows, though AddInode checks nothing.
TypeOK ==
  /\ Inodes \in Seq(Inode) /\ Len(Inodes) \in Ino
  /\ DeletedInodes \in Seq(Ino)
  /\ f_bfree \in 0..(Modulus - 1)
  /\ f_ffree \in 0..Files
  /\ kref \in [Ino -> 0..MaxLookup]
  /\ kdead \subseteq Ino
  /\ reply \in Seq(Reply)

\* The directory entries that name inode i.
Entries(i) ==
  {e \in Live \X Name : Inodes[e[1]].children[e[2]] = i}

\* The directories that have a name, and the root.
NamedDirs == {d \in Live : Inodes[d].kind = "dir" /\ (d = Root \/ Entries(d) # {})}

Subdirs(d) == {n \in Name : GetInode(Inodes[d].children[n]).kind = "dir"}

\* The queue holds the empty slots of the table, each once: DeleteInode and
\* PopOneDeletedInode never hand out a slot in use, or one slot twice.
QueueHoldsEmptySlots ==
  /\ IsInjective(DeletedInodes)
  /\ Range(DeletedInodes) = DOMAIN Inodes \ Live

\* f_ffree is what the inodes in use (the placeholder included) leave of
\* f_files, through reuse, failed creation and reclamation; it never wraps.
FreeInodesAccounted == f_ffree + Cardinality(Live) + 1 = Files

\* The daemon's m_nlookup is the kernel's count: a slot is emptied only when
\* the kernel has forgotten its inode number, and a reused number starts anew.
LookupsAgree == \A i \in Ino : GetInode(i).nlookup = kref[i]

\* An inode whose link count is zero is still held by the kernel, so a FORGET
\* will come that frees it: no handler leaves one behind with the count zero
\* that nothing will free.  A count that rename has taken below zero is not
\* zero: of such a directory this says nothing.
UnlinkedIsHeld ==
  \A i \in Live : i # Root /\ Inodes[i].nlink = 0 => Inodes[i].nlookup > 0

\* Every entry names a slot in use whose inode has links, as the assertion in
\* FuseUnlink (inode_p) and the comment above it expect.
EntriesNameLinkedInodes ==
  \A d \in Live : \A n \in Name :
    LET c == Inodes[d].children[n]
    IN  c # INO_NOTFOUND => c \in Live \ {Root} /\ Inodes[c].nlink > 0

\* An inode has at least the links its entries need: decrements never free
\* something that still has a name, even where an entry was lost.
LinksCoverEntries ==
  \A i \in Live :
    /\ Inodes[i].kind # "dir" => Inodes[i].nlink >= Cardinality(Entries(i))
    /\ i \in NamedDirs => Inodes[i].nlink >= 2 + Cardinality(Subdirs(i))

\* Where no entry is lost for want of space the link counts are exact: one for
\* each entry of a file, two and one for each subdirectory of a directory.
LinksAreExact ==
  \A i \in Live :
    /\ Inodes[i].kind # "dir" => Inodes[i].nlink = Cardinality(Entries(i))
    /\ i \in NamedDirs => Inodes[i].nlink = 2 + Cardinality(Subdirs(i))

\* No directory has two names, and where no entry is lost each one that has a
\* name can be reached from the root: rename and rmdir detach no subtree.
NamespaceIsTree ==
  \A d \in NamedDirs : Cardinality(Entries(d)) <= 1 /\ Root \in Ancestors(d)

\* The sizes of the entries of a directory.
EntriesSize(children) ==
  SumFunctionOnSet([n \in Name |-> ElemSize(n)], {n \in Name : children[n] # INO_NOTFOUND})

\* st_size of a directory is the base size and its entries' sizes, so that the
\* assertion in UpdateSize never fails; st_blocks is always st_size rounded up.
SizesAccounted ==
  \A i \in Live :
    /\ Inodes[i].blocks = get_nblocks(Inodes[i].size)
    /\ Inodes[i].kind = "dir" =>
         Inodes[i].size = EmptyDirSize + EntriesSize(Inodes[i].children)

\* A step that makes no directory and undoes no creation changes f_bfree by
\* what it changes in the blocks of the inodes, modulo the width of the
\* counter, wherever it starts from.
ConservesBlocks ==
  \/ \E i \in Ino : GetInode(i).kind = "null" /\ GetInode(i)'.kind = "dir"
  \/ reply' # <<>> /\ reply'[Len(reply')] \in {"ENOSPC", "EEXIST"}
  \/ f_bfree' = Word(f_bfree + UsedBlocks - UsedBlocks')
BlocksConserved == [][ConservesBlocks]_vars

\* The entries and link counts clients can see.
Namespace == [i \in Live |-> <<Inodes[i].children, Inodes[i].nlink>>]

\* A request that is answered with one error has changed no entry, no link
\* count and no free inode: every handler checks before it acts, or undoes.
\* (f_bfree is not among these, an undone creation charges it again; and
\* FuseSymlink answers an error and goes on to a second reply.)
KeepsNamespaceOnError ==
  Len(reply') = 1 /\ reply'[1] # "OK" =>
    Namespace' = Namespace /\ f_ffree' = f_ffree
ErrorLeavesNoTrace == [][KeepsNamespaceOnError]_vars

\* While the kernel holds a lookup of a number, the number keeps its inode.
KnownKeepInode ==
  \A i \in Ino : kref[i] > 0 /\ kref'[i] > 0 => GetInode(i)'.kind = GetInode(i).kind
NumberKeepsInode == [][KnownKeepInode]_vars

\* What keeps the five invariants of the table inductive: an empty slot is
\* blank, entries point into the table, and the root, which no entry names and
\* the kernel does not count, stays a directory.
TableShape ==
  /\ Inodes[Root].kind = "dir" /\ kref[Root] = 0
  /\ \A i \in DOMAIN Inodes :
       /\ Inodes[i].kind = "null" => Inodes[i] = NullInode
       /\ \A n \in Name : Inodes[i].children[n] \in (0..Len(Inodes)) \ {Root}

TableInv ==
  /\ TypeOK
  /\ TableShape
  /\ QueueHoldsEmptySlots
  /\ FreeInodesAccounted
  /\ LookupsAgree
  /\ UnlinkedIsHeld

=============================================================================
