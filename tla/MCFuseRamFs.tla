---------------------------- MODULE MCFuseRamFs ----------------------------
(* Instances of FuseRamFs for TLC. *)
EXTENDS FuseRamFs

\* A short name, and one that leaves a directory no room for a second entry
\* in its first block.
MCNameLen == [n \in Name |-> IF n = "z" THEN 255 ELSE 1]

\* No action reads reply: states that differ in it alone are one state to TLC,
\* which still evaluates the action properties on every step.
StateView == <<Inodes, DeletedInodes, stbuf, kernel>>

-----------------------------------------------------------------------------
(* The promise to clients *)

Names == INSTANCE NamespaceSpec WITH
           Object <- Ino,
           kind <- [i \in Live |-> Inodes[i].kind],
           entry <- UNION {{<<d, n, Inodes[d].children[n]>> :
                              n \in {n \in Name : Inodes[d].children[n] # INO_NOTFOUND}} : d \in Live}

\* Where no entry is lost for want of space, every handler makes, removes or
\* replaces the one entry it was asked to, in the table of inode numbers that
\* are reused, or changes no entry at all; and FuseForget frees an inode only
\* when it has no name.
HandlersKeepPromise == Names!Spec

-----------------------------------------------------------------------------
(* What comments of the source say and the code does not do *)

\* f_bfree counts the "Free blocks" (fuse_cpp_ramfs.cpp:112): what a request
\* takes from it is what the inodes gain.  Making a directory takes one more.
FreeBlocksAreFree ==
  [][(\E i \in Ino : GetInode(i).kind = "null" /\ GetInode(i)'.kind = "dir") =>
       f_bfree' = Word(f_bfree + UsedBlocks - UsedBlocks')]_vars

\* The same of a creation that is undone (do_create_node): it should give back
\* the blocks of the node, and takes them once more.
UndoneCreationRefunds ==
  [][reply' # <<>> /\ reply'[Len(reply')] \in {"ENOSPC", "EEXIST"} =>
       f_bfree' = f_bfree]_vars

\* CheckHasSpaceFor tells "if the file system can handle the increased size":
\* the inodes together never have more blocks than f_blocks.
CapacityRespected == UsedBlocks <= Blocks

\* "An empty dir has two hard links so we need to decrement one more time": a
\* directory that rename replaces, or rmdir removes, ends up without links.
RemovedDirHasNoLinks == \A d \in kdead \cap Live : Inodes[d].nlink = 0

\* "Make a directory /foo and /foo/.. will have the same inode number as /":
\* the ".." of a directory is the directory that has its entry.
DotDotIsParent ==
  \A d \in NamedDirs : \A n \in Subdirs(d) :
    Inodes[Inodes[d].children[n]].dotdot = d

\* FuseSymlink should "check free space and free inodes": once it has answered
\* ENOSPC it has made no entry.
SymlinkChecksSpace ==
  [][reply' # <<>> /\ reply'[1] = "ENOSPC" => Namespace' = Namespace]_vars

\* FuseRename gives a link to the new parent "because of moving in": what it
\* moves has an entry afterwards, whether or not there was space to add one.
MovedHasEntry ==
  \A i \in Live \ (kdead \cup {Root}) : Inodes[i].nlink > 0 => Entries(i) # {}

=============================================================================
