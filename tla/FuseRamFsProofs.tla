-------------------------- MODULE FuseRamFsProofs ---------------------------
(***************************************************************************)
(* Theorems about FuseRamFs, for every choice of its constants: what       *)
(* TableInv says; that sizes stay right and blocks are conserved; and that *)
(* a request that fails leaves no trace.                                   *)
(***************************************************************************)
EXTENDS FuseRamFsTable

-----------------------------------------------------------------------------
(* Sizes and blocks: one lemma for each handler *)

\* What a step leaves, and what it may do to the free blocks.
BookStep == Booked(Inodes', UsedBlocks') /\ ConservesBlocks

\* A step that changes f_bfree by what it changes in the table.
LEMMA BookIt ==
  ASSUME TableInv, NEW u, Booked(Inodes', u), NEW d \in Int, Booked(Inodes, UsedBlocks),
         u = UsedBlocks + d, f_bfree' = Word(f_bfree - d)
  PROVE  BookStep
<1>1. UsedBlocks' = u
  BY Zenon DEF Booked, UsedBlocks, Used
<1>2. f_bfree \in Int /\ UsedBlocks \in Int
  BY FreeBlocks DEF Booked
<1>3. f_bfree - d = f_bfree + UsedBlocks - UsedBlocks'
  BY <1>1, <1>2
<1> QED
  BY <1>1, <1>3 DEF BookStep, ConservesBlocks

\* A step that leaves both as they are.
LEMMA BookNothing ==
  ASSUME TableInv, Booked(Inodes, UsedBlocks), Booked(Inodes', UsedBlocks), f_bfree' = f_bfree
  PROVE  BookStep
<1>1. f_bfree \in 0..(Modulus - 1) /\ f_bfree - 0 = f_bfree /\ UsedBlocks = UsedBlocks + 0
  BY CapacityAssumption DEF TableInv, TypeOK, Booked
<1>2. f_bfree' = Word(f_bfree - 0)
  BY <1>1, WordId
<1> QED
  BY <1>1, <1>2, BookIt

\* A request that is refused books nothing.
LEMMA FailBooked ==
  ASSUME TableInv, Booked(Inodes, UsedBlocks), NEW r, Fail(r)
  PROVE  BookStep
<1>1. Inodes' = Inodes /\ f_bfree' = f_bfree
  BY DEF Fail, stbuf
<1> QED
  BY <1>1, BookNothing

\* FuseLookup books nothing.
LEMMA LookupBooked ==
  ASSUME TableInv, Booked(Inodes, UsedBlocks), NEW p \in Ino, NEW n \in Name, FuseLookup(p, n)
  PROVE  BookStep
<1> DEFINE c == ChildInodeNumberWithName(p, n)
           x == Word(Inodes[c].nlookup + 1)
<1>1. CASE LookupErrno(p, n) # "OK"
  BY <1>1, FailBooked DEF FuseLookup
<1>2. CASE LookupErrno(p, n) = "OK"
  <2>1. GetInode(c).nlink # 0 /\ c \in Nat
    BY <1>2, ChildFacts DEF LookupErrno, HasNoLinks
  <2>2. c \in 1..Len(Inodes) /\ Inodes[c].nlookup \in Int
    BY <2>1, InUse, InodeFields, CapacityAssumption
  <2>3. Inodes' = [Inodes EXCEPT ![c].nlookup = x] /\ f_bfree' = f_bfree
    BY <1>2 DEF FuseLookup, ReplyEntry, stbuf
  <2>4. x \in 0..(Modulus - 1)
    <3>1. Inodes[c].nlookup + 1 \in Int
      BY <2>2
    <3> QED
      BY <3>1, WordType
  <2> HIDE DEF x
  <2>5. Booked([Inodes EXCEPT ![c].nlookup = x], UsedBlocks)
    BY <2>2, <2>4, BookedLookup
  <2> QED
    BY <2>3, <2>5, BookNothing
<1> QED
  BY <1>1, <1>2

\* FuseLink books the blocks that the directory grew by.
LEMMA LinkBooked ==
  ASSUME TableInv, Booked(Inodes, UsedBlocks), NEW i \in Ino, NEW q \in Ino, NEW n \in Name,
         FuseLink(i, q, n)
  PROVE  BookStep
<1>1. CASE LinkErrno(i, q, n) # "OK"
  BY <1>1, FailBooked DEF FuseLink
<1>2. CASE LinkErrno(i, q, n) = "OK"
  <2> DEFINE dir == AddChild(Inodes[q], n, i)
             T == EnterChild(Inodes, q, n, i)
             L == AddLinks(T, i, 1)
             x == Word(L[i].nlookup + 1)
             d == dir.blocks - Inodes[q].blocks
             u == UsedBlocks - Inodes[q].blocks + dir.blocks
  <2>1. Inodes' = [L EXCEPT ![i].nlookup = x] /\ f_bfree' = Word(f_bfree - d)
    BY <1>2 DEF FuseLink, ReplyEntry, EnterChild
  <2>2. /\ GetInode(i).nlink # 0 /\ ParentErrno(q) = "OK" /\ i \in Nat
        /\ Inodes[q].children[n] = INO_NOTFOUND
    BY <1>2, CapacityAssumption DEF LinkErrno, HasNoLinks, AddChildErrno, Ino
  <2>3. i \in 1..Len(Inodes) /\ q \in 1..Len(Inodes) /\ i # INO_NOTFOUND
    BY <2>2, InUse, ParentFacts, SlotFacts DEF INO_NOTFOUND
  <2>4. Booked(T, u) /\ Len(T) = Len(Inodes) /\ dir.blocks \in Int /\ Inodes[q].blocks \in Int
    <3>1. Inodes[q].children[n] = INO_NOTFOUND /\ i \in Nat
      BY <2>2
    <3>2. Entered(Inodes, UsedBlocks, q, n, i)
      BY <2>3, <3>1, BookedAddChild
    <3> QED
      BY <3>2 DEF Entered
  <2> HIDE DEF dir, T
  <2>5. Booked(L, u) /\ Len(L) = Len(Inodes)
    <3>1. 1 \in Int
      OBVIOUS
    <3>2. Booked(L, u) /\ Alike(T, L)
      BY <2>3, <2>4, <3>1, BookedLinks
    <3> QED
      BY <2>4, <3>2 DEF Alike
  <2> HIDE DEF L
  <2>6. x \in 0..(Modulus - 1)
    <3>1. L \in Seq(Inode) /\ i \in 1..Len(L)
      BY <2>3, <2>5 DEF Booked
    <3> QED
      BY <3>1, LookupWord
  <2> HIDE DEF x, u
  <2>7. Booked(Inodes', u)
    BY <2>1, <2>3, <2>5, <2>6, BookedLookup, Zenon
  <2>8. d \in Int /\ u = UsedBlocks + d
    BY <2>4 DEF Booked, u
  <2> QED
    BY <2>1, <2>7, <2>8, BookIt, Zenon
<1> QED
  BY <1>1, <1>2

\* The entry n of p is removed, and something Booked takes no notice of.
LEMMA RemovalBooked ==
  ASSUME TableInv, Booked(Inodes, UsedBlocks), NEW p \in 1..Len(Inodes), NEW n \in Name,
         Booked(Inodes', UsedBlocks - BlocksReturned(Inodes[p], n)),
         BlocksReturned(Inodes[p], n) \in Int,
         f_bfree' = Word(f_bfree + BlocksReturned(Inodes[p], n))
  PROVE  BookStep
<1> DEFINE b == BlocksReturned(Inodes[p], n)
<1> HIDE DEF b
<1>1. b \in Int /\ f_bfree' = Word(f_bfree + b) /\ Booked(Inodes', UsedBlocks - b)
  BY DEF b
<1>2. f_bfree \in Int /\ UsedBlocks \in Int
  BY FreeBlocks DEF Booked
<1>3. f_bfree + b = f_bfree - (-b) /\ UsedBlocks - b = UsedBlocks + (-b) /\ -b \in Int
  BY <1>1, <1>2
<1> QED
  BY <1>1, <1>3, BookIt

\* FuseUnlink gives back the blocks that the directory shrank by.
LEMMA UnlinkBooked ==
  ASSUME TableInv, Booked(Inodes, UsedBlocks), NEW p \in Ino, NEW n \in Name, FuseUnlink(p, n)
  PROVE  BookStep
<1> DEFINE c == ChildInodeNumberWithName(p, n)
           errno == IF ParentErrno(p) # "OK" THEN ParentErrno(p)
                    ELSE IF c = INO_NOTFOUND THEN "ENOENT" ELSE "OK"
           T == RemoveEntry(Inodes, p, n)
           u == UsedBlocks - BlocksReturned(Inodes[p], n)
<1>1. CASE errno # "OK"
  BY <1>1, FailBooked DEF FuseUnlink
<1>2. CASE errno = "OK"
  <2>1. /\ Inodes' = AddLinks(T, c, -1)
        /\ f_bfree' = Word(f_bfree + BlocksReturned(Inodes[p], n))
    BY <1>2 DEF FuseUnlink
  <2>2. ParentErrno(p) = "OK" /\ c # INO_NOTFOUND
    BY <1>2
  <2>3. p \in 1..Len(Inodes) /\ c \in 1..Len(Inodes) /\ Inodes[p].children[n] # INO_NOTFOUND
    BY <2>2, ParentFacts, ChildFacts, SlotFacts DEF INO_NOTFOUND
  <2>4. Booked(T, u) /\ Len(T) = Len(Inodes) /\ BlocksReturned(Inodes[p], n) \in Int
    <3>1. Removed(Inodes, UsedBlocks, p, n)
      BY <2>3, BookedRemoveEntry
    <3> QED
      BY <3>1 DEF Removed
  <2> HIDE DEF T, u
  <2>5. Booked(AddLinks(T, c, -1), u)
    <3>1. -1 \in Int
      OBVIOUS
    <3> QED
      BY <2>3, <2>4, <3>1, BookedLinks
  <2> QED
    BY <2>1, <2>3, <2>4, <2>5, RemovalBooked DEF u
<1> QED
  BY <1>1, <1>2

\* FuseRmdir gives back the blocks that the parent shrank by.
LEMMA RmdirBooked ==
  ASSUME TableInv, Booked(Inodes, UsedBlocks), NEW p \in Ino, NEW n \in Name, FuseRmdir(p, n)
  PROVE  BookStep
<1> DEFINE c == ChildInodeNumberWithName(p, n)
           T == RemoveEntry(Inodes, p, n)
           L == AddLinks(T, p, -1)
           u == UsedBlocks - BlocksReturned(Inodes[p], n)
<1>1. CASE RmdirErrno(p, n) # "OK"
  BY <1>1, FailBooked DEF FuseRmdir
<1>2. CASE RmdirErrno(p, n) = "OK"
  <2>1. /\ Inodes' = IF NumLinks(Inodes[c]) > 0 THEN [L EXCEPT ![c].nlink = 0] ELSE L
        /\ f_bfree' = Word(f_bfree + BlocksReturned(Inodes[p], n))
    BY <1>2 DEF FuseRmdir
  <2>2. ParentErrno(p) = "OK" /\ c # INO_NOTFOUND
    BY <1>2 DEF RmdirErrno
  <2>3. p \in 1..Len(Inodes) /\ c \in 1..Len(Inodes) /\ Inodes[p].children[n] # INO_NOTFOUND
    BY <2>2, ParentFacts, ChildFacts, SlotFacts DEF INO_NOTFOUND
  <2>4. Booked(T, u) /\ Len(T) = Len(Inodes) /\ BlocksReturned(Inodes[p], n) \in Int
    <3>1. Removed(Inodes, UsedBlocks, p, n)
      BY <2>3, BookedRemoveEntry
    <3> QED
      BY <3>1 DEF Removed
  <2> HIDE DEF T, u
  <2>5. Booked(L, u) /\ Len(L) = Len(Inodes)
    <3>1. -1 \in Int
      OBVIOUS
    <3>2. Booked(L, u) /\ Alike(T, L)
      BY <2>3, <2>4, <3>1, BookedLinks
    <3> QED
      BY <2>4, <3>2 DEF Alike
  <2> HIDE DEF L
  <2>6. Booked([L EXCEPT ![c].nlink = 0], u)
    <3>1. 0 \in 0..(Modulus - 1)
      BY CapacityAssumption
    <3> QED
      BY <2>3, <2>5, <3>1, BookedNlink
  <2>7. Booked(Inodes', u)
    BY <2>1, <2>5, <2>6
  <2> QED
    BY <2>1, <2>3, <2>4, <2>7, RemovalBooked, Zenon DEF u
<1> QED
  BY <1>1, <1>2

\* FuseRename onto an entry that exists gives back the old entry's blocks.
LEMMA ReplaceBooked ==
  ASSUME TableInv, Booked(Inodes, UsedBlocks), NEW p \in Ino, NEW n \in Name,
         NEW q \in Ino, NEW m \in Name, RenameAllowed(p, n, q, m), ReplaceEntry(p, n, q, m),
         ChildInodeNumberWithName(p, n) # INO_NOTFOUND,
         ChildInodeNumberWithName(q, m) # INO_NOTFOUND,
         ChildInodeNumberWithName(p, n) # ChildInodeNumberWithName(q, m)
  PROVE  BookStep
<1> DEFINE src == ChildInodeNumberWithName(p, n)
           existing == ChildInodeNumberWithName(q, m)
           isdir == GetInode(existing).kind = "dir"
           k == IF isdir THEN -3 ELSE -1
           L == AddLinks(Inodes, existing, k)
           T == GiveChild(L, q, m, src)
           R == RemoveEntry(T, p, n)
           b == BlocksReturned(Inodes[p], n)
<1>1. /\ Inodes' = IF isdir THEN AddLinks(R, p, -1) ELSE R
      /\ f_bfree' = Word(f_bfree + b)
  BY DEF ReplaceEntry, GiveChild
<1>2. /\ p \in 1..Len(Inodes) /\ q \in 1..Len(Inodes) /\ Inodes[p] \in Inode
      /\ src = Inodes[p].children[n] /\ existing = Inodes[q].children[m]
      /\ existing \in 1..Len(Inodes) /\ src \in Nat
      /\ src # INO_NOTFOUND /\ existing # INO_NOTFOUND /\ (p # q \/ n # m)
  BY ChildFacts, SlotFacts DEF RenameAllowed, INO_NOTFOUND
<1> HIDE DEF src, existing
<1>3. k \in Int /\ -1 \in Int
  OBVIOUS
<1> HIDE DEF k
<1>4. Booked(L, UsedBlocks) /\ Alike(Inodes, L)
  BY <1>2, <1>3, BookedLinks, Zenon
<1> HIDE DEF L
<1>5. /\ Len(L) = Len(Inodes) /\ L[q].children[m] # INO_NOTFOUND
      /\ L[p].size = Inodes[p].size /\ L[p].blocks = Inodes[p].blocks
      /\ L[p].children[n] # INO_NOTFOUND
  BY <1>2, <1>4 DEF Alike
<1>6. /\ Booked(T, UsedBlocks) /\ Len(T) = Len(Inodes) /\ T[p].size = L[p].size
      /\ T[p].blocks = L[p].blocks /\ T[p].children[n] = L[p].children[n]
  <2>1. q \in 1..Len(L) /\ p \in 1..Len(L)
    BY <1>2, <1>5
  <2>2. /\ Booked(T, UsedBlocks) /\ Len(T) = Len(L)
        /\ \A j \in 1..Len(L) :
             /\ T[j].size = L[j].size /\ T[j].blocks = L[j].blocks
             /\ \A x \in Name : j # q \/ x # m => T[j].children[x] = L[j].children[x]
    <3>1. Given(L, UsedBlocks, q, m, src)
      BY <1>2, <1>4, <1>5, <2>1, BookedUpdateChild, Zenon
    <3> QED
      BY <3>1, Zenon DEF Given
  <2> HIDE DEF T
  <2> QED
    BY <1>2, <1>5, <2>1, <2>2
<1> HIDE DEF T
<1>7. BlocksReturned(T[p], n) = b
  <2>1. T[p] \in Inode
    BY <1>2, <1>6, SeqLen DEF Booked
  <2> QED
    BY <1>2, <1>5, <1>6, <2>1, ReturnedAlike, Zenon
<1> HIDE DEF b
<1>8. Booked(R, UsedBlocks - b) /\ Len(R) = Len(Inodes) /\ b \in Int
  <2>1. p \in 1..Len(T) /\ T[p].children[n] # INO_NOTFOUND
    BY <1>2, <1>5, <1>6
  <2> QED
    <3>1. Removed(T, UsedBlocks, p, n)
      BY <1>6, <2>1, BookedRemoveEntry, Zenon
    <3> QED
      BY <1>6, <1>7, <3>1 DEF Removed
<1> HIDE DEF R
<1>9. Booked(AddLinks(R, p, -1), UsedBlocks - b)
  BY <1>2, <1>3, <1>8, BookedLinks
<1>10. Booked(Inodes', UsedBlocks - b)
  BY <1>1, <1>8, <1>9
<1> QED
  BY <1>1, <1>2, <1>8, <1>10, RemovalBooked, Zenon DEF b

\* FuseRename to a new entry books its blocks and gives back the old entry's.
LEMMA MoveBooked ==
  ASSUME TableInv, Booked(Inodes, UsedBlocks), NEW p \in Ino, NEW n \in Name,
         NEW q \in Ino, NEW m \in Name, RenameAllowed(p, n, q, m), MoveEntry(p, n, q, m),
         ChildInodeNumberWithName(p, n) # INO_NOTFOUND
  PROVE  BookStep
<1> DEFINE src == ChildInodeNumberWithName(p, n)
           isdir == GetInode(src).kind = "dir"
           ret == AddChildErrno(Inodes[q], m, f_bfree)
           dir == AddChild(Inodes[q], m, src)
           grown == EnterChild(Inodes, q, m, src)
           A == IF ret = "OK" THEN grown ELSE Inodes
           R == RemoveEntry(A, p, n)
           a == A[q].blocks - Inodes[q].blocks
           b == BlocksReturned(A[p], n)
<1>1. /\ Inodes' = IF isdir THEN AddLinks(AddLinks(R, p, -1), q, 1) ELSE R
      /\ f_bfree' = Word(f_bfree - a + b)
  BY DEF MoveEntry, EnterChild
<1>2. /\ p \in 1..Len(Inodes) /\ q \in 1..Len(Inodes) /\ src = Inodes[p].children[n]
      /\ src \in Nat /\ src # INO_NOTFOUND
  BY ChildFacts, SlotFacts DEF RenameAllowed, INO_NOTFOUND
<1>3. Inodes[q] \in Inode /\ Inodes[q].children \in [Name -> Nat] /\ Inodes[q].blocks \in Int
      /\ UsedBlocks \in Int
  BY <1>2, SlotFacts, InodeFields DEF Booked
<1>4. ret = "OK" => Inodes[q].children[m] = INO_NOTFOUND
  BY DEF AddChildErrno
<1> HIDE DEF src, ret
<1>5. /\ Booked(A, UsedBlocks + a) /\ a \in Int /\ Len(A) = Len(Inodes)
      /\ A[p].children[n] # INO_NOTFOUND
  <2>1. CASE ret = "OK"
    <3>1. /\ Booked(grown, UsedBlocks - Inodes[q].blocks + dir.blocks)
          /\ Len(grown) = Len(Inodes) /\ grown[q] = dir /\ dir.blocks \in Int
          /\ p # q => grown[p] = Inodes[p]
          /\ dir.children = [Inodes[q].children EXCEPT ![m] = src]
      <4>1. Inodes[q].children[m] = INO_NOTFOUND
        BY <1>4, <2>1
      <4>2. Entered(Inodes, UsedBlocks, q, m, src)
        BY <1>2, <4>1, BookedAddChild
      <4> QED
        BY <1>2, <4>2 DEF Entered
    <3> HIDE DEF dir, grown
    <3>2. A = grown
      BY <2>1
    <3>3. a = dir.blocks - Inodes[q].blocks
      BY <3>1, <3>2
    <3> HIDE DEF A, a
    <3>4. a \in Int /\ UsedBlocks - Inodes[q].blocks + dir.blocks = UsedBlocks + a
      <4>1. UsedBlocks \in Int /\ Inodes[q].blocks \in Int /\ dir.blocks \in Int
        BY <1>3, <3>1
      <4> QED
        BY <3>3, <4>1
    <3>5. grown[p].children[n] # INO_NOTFOUND
      <4>1. CASE p = q
        <5>1. dir.children[n] = IF n = m THEN src ELSE Inodes[q].children[n]
          BY <1>3, <3>1
        <5> QED
          BY <1>2, <3>1, <4>1, <5>1
      <4>2. CASE p # q
        BY <1>2, <3>1, <4>2
      <4> QED
        BY <4>1, <4>2
    <3> QED
      BY <3>1, <3>2, <3>4, <3>5, Zenon
  <2>2. CASE ret # "OK"
    <3>1. A = Inodes
      BY <2>2
    <3>2. a = Inodes[q].blocks - Inodes[q].blocks
      BY <3>1, Zenon
    <3>3. a \in Int /\ UsedBlocks + a = UsedBlocks
      BY <1>3, <3>2
    <3> QED
      BY <1>2, <3>1, <3>3
  <2> QED
    BY <2>1, <2>2, Zenon
<1> HIDE DEF A, a
<1>6. Booked(R, (UsedBlocks + a) - b) /\ Len(R) = Len(Inodes) /\ b \in Int
  <2>1. p \in 1..Len(A)
    BY <1>2, <1>5
  <2>2. Removed(A, UsedBlocks + a, p, n)
    BY <1>5, <2>1, BookedRemoveEntry
  <2>3. Booked(R, (UsedBlocks + a) - b) /\ Len(R) = Len(A) /\ b \in Int
    BY <2>2 DEF Removed
  <2> HIDE DEF R, b
  <2> QED
    BY <1>5, <2>3
<1> HIDE DEF R, b
<1>7. Booked(AddLinks(AddLinks(R, p, -1), q, 1), (UsedBlocks + a) - b)
  <2>1. -1 \in Int /\ 1 \in Int
    OBVIOUS
  <2>2. Booked(AddLinks(R, p, -1), (UsedBlocks + a) - b) /\ Alike(R, AddLinks(R, p, -1))
    BY <1>2, <1>6, <2>1, BookedLinks
  <2>3. Len(AddLinks(R, p, -1)) = Len(Inodes)
    BY <1>6, <2>2 DEF Alike
  <2> QED
    BY <1>2, <2>1, <2>2, <2>3, BookedLinks
<1>8. Booked(Inodes', (UsedBlocks + a) - b)
  BY <1>1, <1>6, <1>7
<1>9. f_bfree \in Int
  BY FreeBlocks
<1>10. /\ a - b \in Int /\ (UsedBlocks + a) - b = UsedBlocks + (a - b)
       /\ f_bfree - a + b = f_bfree - (a - b)
  <2>1. a \in Int /\ b \in Int /\ UsedBlocks \in Int
    BY <1>3, <1>5, <1>6, SMTT(30) DEF Booked
  <2> QED
    BY <1>9, <2>1
<1> QED
  BY <1>1, <1>8, <1>10, BookIt

\* FuseRename books what it changes, whichever of its ways it takes.
LEMMA RenameBooked ==
  ASSUME TableInv, Booked(Inodes, UsedBlocks), NEW p \in Ino, NEW n \in Name,
         NEW q \in Ino, NEW m \in Name, FuseRename(p, n, q, m)
  PROVE  BookStep
<1> DEFINE src == ChildInodeNumberWithName(p, n)
           existing == ChildInodeNumberWithName(q, m)
<1>1. CASE RenameErrno(p, n, q, m) # "OK"
  BY <1>1, FailBooked DEF FuseRename
<1>2. CASE RenameErrno(p, n, q, m) = "OK"
  <2>1. RenameAllowed(p, n, q, m)
    BY <1>2, RenameAllows
  <2>2. src # INO_NOTFOUND /\ (src = existing => src = INO_NOTFOUND)
    <3>1. GetInode(src).nlink # 0
      BY <1>2 DEF RenameErrno
    <3>2. GetInode(INO_NOTFOUND).nlink = 0
      BY SlotFacts DEF INO_NOTFOUND
    <3> QED
      BY <3>1, <3>2 DEF FuseRename, KernelRenames
  <2>3. CASE NumLinks(GetInode(existing)) > 0
    <3>1. ReplaceEntry(p, n, q, m)
      BY <1>2, <2>3 DEF FuseRename
    <3>2. existing # INO_NOTFOUND
      <4>1. GetInode(INO_NOTFOUND).nlink = 0
        BY SlotFacts DEF INO_NOTFOUND
      <4>2. ~(NumLinks(GetInode(INO_NOTFOUND)) > 0)
        BY <4>1, CapacityAssumption DEF NumLinks
      <4> QED
        BY <2>3, <4>2
    <3> QED
      BY <2>1, <2>2, <3>1, <3>2, ReplaceBooked
  <2>4. CASE ~(NumLinks(GetInode(existing)) > 0)
    <3>1. MoveEntry(p, n, q, m)
      BY <1>2, <2>4 DEF FuseRename
    <3> QED
      BY <2>1, <2>2, <3>1, MoveBooked
  <2> QED
    BY <2>3, <2>4
<1> QED
  BY <1>1, <1>2

\* A file that changes its size has its blocks booked.
LEMMA SetSizeBooked ==
  ASSUME TableInv, Booked(Inodes, UsedBlocks), NEW i \in 1..Len(Inodes),
         Inodes[i].kind # "dir", NEW size \in Int, NEW charge \in Int,
         SetSize(i, size, get_nblocks(size), charge),
         charge = get_nblocks(size) - Inodes[i].blocks
  PROVE  BookStep
<1> DEFINE blocks == get_nblocks(size)
           e == [Inodes[i] EXCEPT !.size = size, !.blocks = blocks]
<1>1. Inodes[i] \in Inode /\ blocks \in Int /\ Inodes[i].blocks \in Int
  BY SlotFacts, InodeFields, BlocksType
<1>2. [Inodes EXCEPT ![i].size = size, ![i].blocks = blocks] = [Inodes EXCEPT ![i] = e]
  BY SlotFacts
<1>3. Inodes' = [Inodes EXCEPT ![i] = e] /\ f_bfree' = Word(f_bfree - charge)
  BY <1>2 DEF SetSize
<1>4. e \in Inode /\ e.kind = Inodes[i].kind /\ e.size = size /\ e.blocks = blocks
  BY <1>1 DEF Inode
<1>5. Sized(e)
  BY <1>4 DEF Sized
<1> HIDE DEF e, blocks
<1>6. Booked(Inodes', UsedBlocks - Inodes[i].blocks + e.blocks)
  BY <1>3, <1>4, <1>5, BookedExcept
<1>7. UsedBlocks - Inodes[i].blocks + e.blocks = UsedBlocks + charge
  BY <1>1, <1>4 DEF Booked, blocks
<1> QED
  BY <1>3, <1>6, <1>7, BookIt, Zenon

\* A write that ends inside the buffer needs no more blocks: the buffer is
\* always as long as the blocks that are charged for it.
LEMMA WriteBooked ==
  ASSUME TableInv, Booked(Inodes, UsedBlocks), NEW i \in Ino,
         NEW off \in FileLen, NEW len \in FileLen, FuseWrite(i, off, len)
  PROVE  BookStep
<1> DEFINE node == GetInode(i)
           size == off + len
           blocks == get_nblocks(size)
           charge == IF Grows(node, size) THEN blocks - node.blocks ELSE 0
<1>1. CASE \E r : Fail(r)
  BY <1>1, FailBooked
<1>2. CASE /\ WriteErrno(i, size) = "OK" /\ size > node.size
           /\ SetSize(i, size, blocks, charge)
  <2>1. node.nlink # 0 /\ node.kind = "file" /\ i \in Nat /\ size \in Int
    BY <1>2, CapacityAssumption, BoundAssumption DEF WriteErrno, Ino
  <2>2. i \in 1..Len(Inodes) /\ node = Inodes[i] /\ Inodes[i] \in Inode
    BY <2>1, InUse
  <2>3. node.size \in Int /\ node.blocks \in Int /\ node.blocks = get_nblocks(node.size)
    BY <2>2, InodeFields DEF Booked, Sized
  <2> HIDE DEF node, size
  <2>4. charge = blocks - node.blocks /\ charge \in Int
    <3>1. blocks \in Int
      BY <2>1, BlocksType
    <3>2. CASE Grows(node, size)
      BY <2>3, <3>1, <3>2
    <3>3. CASE ~Grows(node, size)
      <4>1. size <= BufBlockSize * node.blocks /\ node.size < size
        BY <1>2, <2>1, <2>3, <3>3 DEF Grows, BufBlockSize
      <4>2. blocks = node.blocks
        BY <2>1, <2>3, <4>1 DEF get_nblocks, BufBlockSize
      <4> QED
        BY <2>3, <3>1, <3>3, <4>2
    <3> QED
      BY <3>2, <3>3
  <2>5. Inodes[i].kind # "dir"
    BY <2>1, <2>2
  <2> QED
    BY <1>2, <2>1, <2>2, <2>4, <2>5, SetSizeBooked, Zenon
<1> QED
  BY <1>1, <1>2 DEF FuseWrite

\* FuseSetAttr books the blocks of a file it truncates or extends.
LEMMA SetAttrBooked ==
  ASSUME TableInv, Booked(Inodes, UsedBlocks), NEW i \in Ino, NEW size \in FileLen,
         FuseSetAttr(i, size)
  PROVE  BookStep
<1> DEFINE blocks == get_nblocks(size)
<1>1. CASE \E r : Fail(r)
  BY <1>1, FailBooked
<1>2. CASE /\ TruncateErrno(i, size) = "OK"
           /\ SetSize(i, size, blocks, blocks - Inodes[i].blocks)
  <2>1. GetInode(i).nlink # 0 /\ GetInode(i).kind = "file" /\ i \in Nat /\ size \in Int
    BY <1>2, CapacityAssumption, BoundAssumption DEF TruncateErrno, Ino
  <2>2. i \in 1..Len(Inodes) /\ GetInode(i) = Inodes[i] /\ Inodes[i] \in Inode
    BY <2>1, InUse
  <2>3. Inodes[i].kind # "dir" /\ Inodes[i].blocks \in Int /\ blocks \in Int
    BY <2>1, <2>2, InodeFields, BlocksType
  <2> HIDE DEF blocks
  <2>4. blocks - Inodes[i].blocks \in Int
    BY <2>3
  <2> QED
    BY <1>2, <2>1, <2>2, <2>3, <2>4, SetSizeBooked, Zenon DEF blocks
<1> QED
  BY <1>1, <1>2 DEF FuseSetAttr

\* FuseForget gives back the blocks of an inode whose slot it empties.
LEMMA ForgetBooked ==
  ASSUME TableInv, Booked(Inodes, UsedBlocks), NEW i \in Ino, NEW count \in 1..MaxLookup,
         FuseForget(i, count)
  PROVE  BookStep
<1> DEFINE left == Word(GetInode(i).nlookup - count)
           b == Inodes[i].blocks
<1>1. CASE GetInode(i).kind = "null"
  <2>1. Inodes' = Inodes /\ f_bfree' = f_bfree
    BY <1>1 DEF FuseForget, stbuf
  <2> QED
    BY <2>1, BookNothing
<1>2. CASE GetInode(i).kind # "null"
  <2>1. i \in 1..Len(Inodes) /\ Inodes[i] \in Inode /\ b \in Int /\ Inodes[i].nlookup \in Int
        /\ GetInode(i) = Inodes[i]
    BY <1>2, SlotFacts, InodeFields, CapacityAssumption DEF GetInode, NullInode
  <2>2. CASE Forgotten(i, left)
    <3>1. Inodes' = [Inodes EXCEPT ![i] = NullInode] /\ f_bfree' = Word(f_bfree + b)
      BY <1>2, <2>2 DEF FuseForget, Reclaim
    <3>2. Booked(Inodes', UsedBlocks - b + NullInode.blocks)
      BY <2>1, <3>1, NullSized, NullInodeType, BookedExcept
    <3> HIDE DEF b
    <3>3. f_bfree \in Int /\ UsedBlocks \in Int /\ NullInode.blocks = 0
      BY CapacityAssumption DEF TableInv, TypeOK, Booked, NullInode
    <3>4. /\ f_bfree + b = f_bfree - (-b) /\ -b \in Int
          /\ UsedBlocks - b + NullInode.blocks = UsedBlocks + (-b)
      BY <2>1, <3>3
    <3> QED
      BY <3>1, <3>2, <3>4, BookIt, Zenon
  <2>3. CASE ~Forgotten(i, left)
    <3>1. Inodes' = [Inodes EXCEPT ![i].nlookup = left] /\ f_bfree' = f_bfree
      BY <1>2, <2>3 DEF FuseForget, stbuf
    <3>2. left \in 0..(Modulus - 1)
      <4>1. GetInode(i).nlookup - count \in Int
        BY <2>1, BoundAssumption
      <4> QED
        BY <4>1, WordType
    <3> HIDE DEF left
    <3>3. Booked([Inodes EXCEPT ![i].nlookup = left], UsedBlocks)
      BY <2>1, <3>2, BookedLookup
    <3> QED
      BY <3>1, <3>3, BookNothing
  <2> QED
    BY <2>2, <2>3
<1> QED
  BY <1>1, <1>2

\* RegisterInode adds the blocks of the new inode to those in use.
LEMMA RegisterBooked ==
  ASSUME TableInv, Booked(Inodes, UsedBlocks), f_ffree # 0, NEW node \in Inode, Sized(node)
  PROVE  Booked(RegisterInode(node), UsedBlocks + node.blocks)
<1>1. CASE DeletedInodes = <<>>
  <2>1. RegisterInode(node) = Append(Inodes, node)
    BY <1>1 DEF RegisterInode
  <2> QED
    BY <2>1, BookedAppend
<1>2. CASE DeletedInodes # <<>>
  <2>1. RegisterInode(node) = With(Inodes, NewIno, node) /\ NewLen = Len(Inodes)
    BY <1>2 DEF RegisterInode, NewIno, NewLen, With
  <2>2. NewIno \in 1..Len(Inodes) /\ NewIno \notin Live
    BY <2>1, NewSlotFacts
  <2>3. Inodes[NewIno] = NullInode
    BY <2>2, SlotFacts DEF Live
  <2>4. Inodes[NewIno].blocks = 0 /\ UsedBlocks \in Int /\ node.blocks \in Int
    BY <2>3, InodeFields DEF NullInode, Booked
  <2>5. Booked(RegisterInode(node), UsedBlocks - Inodes[NewIno].blocks + node.blocks)
    BY <2>1, <2>2, BookedWith, Zenon
  <2>6. UsedBlocks - Inodes[NewIno].blocks + node.blocks = UsedBlocks + node.blocks
    BY <2>4
  <2> QED
    BY <2>5, <2>6
<1> QED
  BY <1>1, <1>2

\* A creation that is undone leaves the inodes' blocks as they were; what it
\* does to f_bfree is excused by its reply.
LEMMA UndoBooked ==
  ASSUME TableInv, Booked(Inodes, UsedBlocks), f_ffree # 0, NEW node \in Inode, Sized(node),
         Inodes' = [RegisterInode(node) EXCEPT ![NewIno] = NullInode],
         NEW replies \in Seq(Reply), NEW ret \in {"ENOSPC", "EEXIST"},
         reply' = Append(replies, ret)
  PROVE  BookStep
<1> DEFINE R == RegisterInode(node)
           u == UsedBlocks + node.blocks
<1>1. Booked(R, u)
  BY RegisterBooked
<1>2. NewIno \in 1..Len(R)
  BY NewSlotFacts, RegisterFacts
<1>3. Inodes' = With(R, NewIno, NullInode)
  BY DEF With
<1> HIDE DEF R, u
<1>4. Booked(Inodes', u - R[NewIno].blocks + NullInode.blocks)
  <2>1. Booked(With(R, NewIno, NullInode), u - R[NewIno].blocks + NullInode.blocks)
    BY <1>1, <1>2, NullSized, NullInodeType, BookedWith
  <2> QED
    BY <1>3, <2>1, Zenon
<1>5. Booked(Inodes', UsedBlocks')
  BY <1>4 DEF Booked, UsedBlocks, Used
<1>6. reply' # <<>> /\ reply'[Len(reply')] = ret
  <2>1. ret \in Reply
    BY DEF Reply
  <2> QED
    BY <2>1
<1> QED
  BY <1>5, <1>6 DEF BookStep, ConservesBlocks

\* What do_create_node does once the new inode has a slot and its entry fits.
Enters(p, n, node) ==
  /\ ReplyEntry(IF node.kind = "dir"
                THEN AddLinks(EnterChild(RegisterInode(node), p, n, NewIno), p, 1)
                ELSE EnterChild(RegisterInode(node), p, n, NewIno), NewIno)
  /\ f_bfree' = Word(Word(f_bfree - RegisterCharge(node))
                        - (AddChild(Inodes[p], n, NewIno).blocks - Inodes[p].blocks))

\* A node is entered: only a directory is charged more than its blocks.
LEMMA EnterBooked ==
  ASSUME TableInv, Booked(Inodes, UsedBlocks), f_ffree # 0, NEW node \in Inode, Sized(node),
         NEW p \in 1..Len(Inodes), Inodes[p].kind = "dir", NEW n \in Name,
         Inodes[p].children[n] = INO_NOTFOUND, Enters(p, n, node)
  PROVE  BookStep
<1> DEFINE ino == NewIno
           parent == AddChild(Inodes[p], n, ino)
           R == RegisterInode(node)
           E == EnterChild(R, p, n, ino)
           T == IF node.kind = "dir" THEN AddLinks(E, p, 1) ELSE E
           x == Word(T[ino].nlookup + 1)
           more == parent.blocks - Inodes[p].blocks
           d == node.blocks + more
           u == (UsedBlocks + node.blocks) - R[p].blocks + AddChild(R[p], n, ino).blocks
<1>1. /\ Inodes' = [T EXCEPT ![ino].nlookup = x]
      /\ f_bfree' = Word(Word(f_bfree - RegisterCharge(node)) - more)
  BY DEF Enters, ReplyEntry
<1>2. /\ ino \in 1..NewLen /\ ino \in Ino /\ ino \notin Live
      /\ 1..NewLen = (1..Len(Inodes)) \cup {ino} /\ NewLen \in Nat
  BY NewSlotFacts, Zenon
<1>3. /\ R \in Seq(Inode) /\ Len(R) = NewLen
      /\ \A j \in 1..NewLen : R[j] = IF j = ino THEN node ELSE Inodes[j]
  BY RegisterFacts, Zenon
<1>4. p # ino /\ ino \in Nat /\ ino # INO_NOTFOUND
  BY <1>2, SlotFacts, CapacityAssumption DEF Live, Ino, INO_NOTFOUND
<1>5. Booked(R, UsedBlocks + node.blocks)
  BY RegisterBooked, Zenon
<1> HIDE DEF ino, R
<1>6. p \in 1..Len(R) /\ ino \in 1..Len(R) /\ R[p] = Inodes[p] /\ R[ino] = node
  BY <1>2, <1>3, <1>4
<1>7. Entered(R, UsedBlocks + node.blocks, p, n, ino)
  BY <1>4, <1>5, <1>6, BookedAddChild, Zenon
<1>8. /\ Booked(E, u) /\ Len(E) = Len(R) /\ E[ino] = node
      /\ parent.blocks \in Int /\ Inodes[p].blocks \in Int
  BY <1>4, <1>6, <1>7 DEF Entered
<1>9. u = UsedBlocks + d /\ d \in Int /\ more \in Int /\ node.blocks \in Int
  <2>1. UsedBlocks \in Int /\ node.blocks \in Int
    BY InodeFields DEF Booked
  <2>2. u = (UsedBlocks + node.blocks) - Inodes[p].blocks + parent.blocks
    BY <1>6
  <2>3. parent.blocks \in Int /\ Inodes[p].blocks \in Int
    BY <1>8, Zenon
  <2> HIDE DEF parent, u
  <2> QED
    BY <2>1, <2>2, <2>3, SMTT(30)
<1> HIDE DEF E, u, more
<1>10. Booked(T, u) /\ Len(T) = Len(R) /\ T[ino].kind = node.kind
  <2>1. 1 \in Int
    OBVIOUS
  <2>2. Booked(AddLinks(E, p, 1), u) /\ Alike(E, AddLinks(E, p, 1))
    BY <1>6, <1>8, <2>1, BookedLinks
  <2> QED
    BY <1>6, <1>8, <2>2 DEF Alike
<1> HIDE DEF T
<1>11. x \in 0..(Modulus - 1)
  <2>1. T \in Seq(Inode) /\ ino \in 1..Len(T)
    BY <1>6, <1>10 DEF Booked
  <2> QED
    BY <2>1, LookupWord, Zenon
<1> HIDE DEF x
<1>12. Booked(Inodes', u) /\ Alike(T, Inodes')
  BY <1>1, <1>6, <1>10, <1>11, BookedLookup, Zenon
<1>13. CASE node.kind = "dir"
  <2>1. Inodes'[ino].kind = "dir" /\ ino \in DOMAIN Inodes'
    BY <1>6, <1>10, <1>12, <1>13, SeqLen DEF Alike, Booked
  <2>2. PICK k \in Ino : k = ino
    BY <1>2
  <2>3. GetInode(k).kind = "null"
    <3>1. k \in DOMAIN Inodes => Inodes[k].kind = "null"
      BY <1>2, <2>2, Zenon DEF Live
    <3> QED
      BY <3>1 DEF GetInode, NullInode
  <2>4. GetInode(k)'.kind = "dir"
    BY <2>1, <2>2, Zenon DEF GetInode
  <2>5. Booked(Inodes', UsedBlocks')
    BY <1>12 DEF Booked, UsedBlocks, Used
  <2> QED
    BY <2>3, <2>4, <2>5, Zenon DEF BookStep, ConservesBlocks
<1>14. CASE node.kind # "dir"
  <2>1. RegisterCharge(node) = node.blocks
    BY <1>14 DEF RegisterCharge
  <2>2. f_bfree \in Int
    BY FreeBlocks, Zenon
  <2>3. Word(Word(f_bfree - node.blocks) - more) = Word(f_bfree - (node.blocks + more))
    BY <1>9, <2>2, WordCharges, Zenon
  <2>4. f_bfree' = Word(f_bfree - d)
    BY <1>1, <2>1, <2>3
  <2> QED
    BY <1>9, <1>12, <2>4, BookIt, Zenon
<1> QED
  BY <1>13, <1>14

\* do_create_node books what it leaves, whether the entry fits or not.
LEMMA CreateBooked ==
  ASSUME TableInv, Booked(Inodes, UsedBlocks), NEW p \in Ino, NEW n \in Name,
         NEW node \in Inode, Sized(node), NEW replies \in Seq(Reply), ParentErrno(p) = "OK",
         do_create_node(p, n, node, replies)
  PROVE  BookStep
<1> DEFINE free == Word(f_bfree - RegisterCharge(node))
           ret == AddChildErrno(Inodes[p], n, free)
           parent == AddChild(Inodes[p], n, NewIno)
           entered == [RegisterInode(node) EXCEPT ![p] = parent]
<1>1. CASE Fail(Append(replies, "ENOSPC"))
  BY <1>1, FailBooked
<1>2. CASE /\ f_ffree # 0 /\ ret # "OK" /\ UndoRegister(node, free)
           /\ reply' = Append(replies, ret)
  <2>1. ret \in {"ENOSPC", "EEXIST"}
    BY <1>2 DEF AddChildErrno
  <2> QED
    BY <1>2, <2>1, UndoBooked, Zenon DEF UndoRegister
<1>3. CASE /\ f_ffree # 0 /\ ret = "OK"
           /\ ReplyEntry(IF node.kind = "dir" THEN AddLinks(entered, p, 1) ELSE entered, NewIno)
           /\ f_bfree' = Word(free - (parent.blocks - Inodes[p].blocks))
  <2>1. p \in 1..Len(Inodes) /\ Inodes[p].kind = "dir"
    BY ParentFacts, Zenon
  <2>2. Inodes[p].children[n] = INO_NOTFOUND
    BY <1>3 DEF AddChildErrno
  <2>3. entered = EnterChild(RegisterInode(node), p, n, NewIno)
    <3>1. RegisterInode(node)[p] = Inodes[p]
      <4>1. NewIno \notin Live /\ 1..NewLen = (1..Len(Inodes)) \cup {NewIno}
        BY <1>3, NewSlotFacts, Zenon
      <4>2. p # NewIno /\ p \in 1..NewLen
        BY <2>1, <4>1, SlotFacts, Zenon DEF Live
      <4>3. \A j \in 1..NewLen : RegisterInode(node)[j] = IF j = NewIno THEN node ELSE Inodes[j]
        BY <1>3, RegisterFacts, Zenon
      <4> QED
        BY <4>2, <4>3, Zenon
    <3> QED
      BY <3>1, Zenon DEF EnterChild
  <2>4. Enters(p, n, node)
    BY <1>3, <2>3, Zenon DEF Enters
  <2> QED
    BY <1>3, <2>1, <2>2, <2>4, EnterBooked, Zenon
<1> QED
  BY <1>1, <1>2, <1>3, Zenon DEF do_create_node

\* The new file system has its sizes right.
LEMMA InitBooked == Init => Booked(Inodes, UsedBlocks)
<1> SUFFICES ASSUME Init PROVE Booked(Inodes, UsedBlocks)
  OBVIOUS
<1> DEFINE d == NewDirectory(Root)
<1>1. d \in Inode /\ Sized(d)
  BY NewDirectoryType, NewNodesSized DEF Root
<1>2. Inodes = <<d>>
  BY DEF Init
<1> HIDE DEF d
<1>3. Inodes \in Seq(Inode) /\ \A i \in 1..Len(Inodes) : Sized(Inodes[i])
  BY <1>1, <1>2
<1> QED
  BY <1>3, UsedIsSum, Zenon DEF Booked, UsedBlocks, Used

\* Every handler keeps the sizes right and conserves blocks.
LEMMA NextBooked ==
  TableInv /\ Booked(Inodes, UsedBlocks) /\ [Next]_vars => BookStep
<1> SUFFICES ASSUME TableInv, Booked(Inodes, UsedBlocks), [Next]_vars PROVE BookStep
  OBVIOUS
<1>1. CASE UNCHANGED vars
  <2>1. Inodes' = Inodes /\ f_bfree' = f_bfree
    BY <1>1 DEF vars, stbuf
  <2> QED
    BY <2>1, BookNothing
<1>2. ASSUME NEW i \in Ino, NEW count \in 1..MaxLookup, FuseForget(i, count)
      PROVE  BookStep
  BY <1>2, ForgetBooked
<1>3. ASSUME NEW p \in Ino, NEW n \in Name, FuseLookup(p, n)
      PROVE  BookStep
  BY <1>3, LookupBooked
<1>4. ASSUME NEW p \in Ino, NEW n \in Name, NEW node \in Inode, Sized(node),
             MakeErrno(p, n) # "OK" => Fail(<<MakeErrno(p, n)>>),
             MakeErrno(p, n) = "OK" => do_create_node(p, n, node, <<>>)
      PROVE  BookStep
  <2>1. CASE MakeErrno(p, n) # "OK"
    BY <1>4, <2>1, FailBooked
  <2>2. CASE MakeErrno(p, n) = "OK"
    <3>1. ParentErrno(p) = "OK"
      BY <2>2 DEF MakeErrno
    <3>2. <<>> \in Seq(Reply)
      OBVIOUS
    <3> QED
      BY <1>4, <2>2, <3>1, <3>2, CreateBooked, Zenon
  <2> QED
    BY <2>1, <2>2
<1>5. ASSUME NEW p \in Ino, NEW n \in Name, NEW kind \in MknodKind, FuseMknod(p, n, kind)
      PROVE  BookStep
  <2>1. kind \in Kind \ {"dir"} /\ kind \in Kind /\ 0 \in Int
    BY BoundAssumption DEF Kind
  <2>2. NewNode(kind, 0) \in Inode /\ Sized(NewNode(kind, 0))
    BY <2>1, NewNodeType, NewNodesSized
  <2> QED
    BY <1>4, <1>5, <2>2 DEF FuseMknod
<1>6. ASSUME NEW p \in Ino, NEW n \in Name, FuseMkdir(p, n)
      PROVE  BookStep
  <2>1. p \in Nat
    BY CapacityAssumption DEF Ino
  <2>2. NewDirectory(p) \in Inode /\ Sized(NewDirectory(p))
    BY <2>1, NewDirectoryType, NewNodesSized
  <2> QED
    BY <1>4, <1>6, <2>2 DEF FuseMkdir
<1>7. ASSUME NEW p \in Ino, NEW n \in Name, FuseCreate(p, n)
      PROVE  BookStep
  <2>1. "file" \in Kind \ {"dir"} /\ "file" \in Kind /\ 0 \in Int /\ <<>> \in Seq(Reply)
    BY DEF Kind
  <2>2. NewFile \in Inode /\ Sized(NewFile)
    BY <2>1, NewNodeType, NewNodesSized DEF NewFile
  <2>3. CASE ParentErrno(p) # "OK"
    BY <1>7, <2>3, FailBooked, Zenon DEF FuseCreate
  <2>4. CASE ParentErrno(p) = "OK"
    BY <1>7, <2>1, <2>2, <2>4, CreateBooked, Zenon DEF FuseCreate
  <2> QED
    BY <2>3, <2>4
<1>8. ASSUME NEW p \in Ino, NEW n \in Name, NEW len \in LinkLen, FuseSymlink(p, n, len)
      PROVE  BookStep
  <2>1. "symlink" \in Kind \ {"dir"} /\ "symlink" \in Kind /\ len \in Int
    BY BoundAssumption DEF Kind
  <2>2. NewSymLink(len) \in Inode /\ Sized(NewSymLink(len))
    BY <2>1, NewNodeType, NewNodesSized DEF NewSymLink
  <2>3. CASE \E r : Fail(r)
    BY <2>3, FailBooked
  <2>4. CASE /\ ParentErrno(p) = "OK"
             /\ do_create_node(p, n, NewSymLink(len), SymlinkWarnings(n))
    BY <2>2, <2>4, WarningsType, CreateBooked
  <2> QED
    BY <1>8, <2>3, <2>4 DEF FuseSymlink
<1>9. ASSUME NEW p \in Ino, NEW n \in Name, NEW i \in Ino, FuseLink(i, p, n)
      PROVE  BookStep
  BY <1>9, LinkBooked
<1>10. ASSUME NEW p \in Ino, NEW n \in Name, FuseUnlink(p, n)
       PROVE  BookStep
  BY <1>10, UnlinkBooked
<1>11. ASSUME NEW p \in Ino, NEW n \in Name, FuseRmdir(p, n)
       PROVE  BookStep
  BY <1>11, RmdirBooked
<1>12. ASSUME NEW p \in Ino, NEW n \in Name, NEW q \in Ino, NEW m \in Name,
              FuseRename(p, n, q, m)
       PROVE  BookStep
  BY <1>12, RenameBooked
<1>13. ASSUME NEW i \in Ino, NEW size \in FileLen, NEW off \in FileLen,
              FuseWrite(i, off, size)
       PROVE  BookStep
  BY <1>13, WriteBooked
<1>14. ASSUME NEW i \in Ino, NEW size \in FileLen, FuseSetAttr(i, size)
       PROVE  BookStep
  BY <1>14, SetAttrBooked
<1> QED
  BY <1>1, <1>2, <1>3, <1>5, <1>6, <1>7, <1>8, <1>9, <1>10, <1>11, <1>12, <1>13, <1>14, Zenon
     DEF Next

-----------------------------------------------------------------------------
(* Errors *)

\* A request that is refused changes no entry.
LEMMA FailKeeps ==
  ASSUME NEW r, Fail(r)
  PROVE  KeepsNamespaceOnError
  BY Zenon DEF Fail, stbuf, KeepsNamespaceOnError, Namespace, Live

\* A request that is answered with success.
LEMMA OkKeeps ==
  ASSUME reply' = <<"OK">>
  PROVE  KeepsNamespaceOnError
  BY DEF KeepsNamespaceOnError

\* A creation that is undone has changed nothing but an empty slot.
LEMMA UndoneKeeps ==
  ASSUME TableInv, f_ffree # 0, NEW node \in Inode,
         Inodes' = [RegisterInode(node) EXCEPT ![NewIno] = NullInode], f_ffree' = f_ffree
  PROVE  KeepsNamespaceOnError
<1> DEFINE R == RegisterInode(node)
<1>1. /\ R \in Seq(Inode) /\ Len(R) = NewLen
      /\ \A j \in 1..NewLen : R[j] = IF j = NewIno THEN node ELSE Inodes[j]
  BY RegisterFacts
<1>2. Inodes' = [R EXCEPT ![NewIno] = NullInode]
  OBVIOUS
<1> HIDE DEF R
<1>3. /\ NewIno \in 1..NewLen /\ NewIno \notin Live
      /\ 1..NewLen = (1..Len(Inodes)) \cup {NewIno}
  BY NewSlotFacts
<1>4. /\ DOMAIN Inodes' = 1..NewLen
      /\ \A j \in 1..NewLen : Inodes'[j] = IF j = NewIno THEN NullInode ELSE Inodes[j]
  <2>1. R \in Seq(Inode) /\ NewIno \in 1..Len(R) /\ NullInode \in Inode
    BY <1>1, <1>3, NullInodeType
  <2> QED
    BY <1>1, <1>2, <2>1, SeqExcept, SeqLen
<1>5. Live' = Live
  BY <1>3, <1>4, SlotFacts DEF Live
<1>6. \A j \in Live : Inodes'[j] = Inodes[j]
  BY <1>3, <1>4, SlotFacts DEF Live
<1>7. Namespace' = Namespace
  BY <1>5, <1>6 DEF Namespace
<1> QED
  BY <1>7 DEF KeepsNamespaceOnError

\* do_create_node that fails changes no entry, and leaves no inode behind.
LEMMA CreateKeeps ==
  ASSUME TableInv, NEW p \in Ino, NEW n \in Name, NEW node \in Inode,
         NEW replies \in Seq(Reply), do_create_node(p, n, node, replies)
  PROVE  KeepsNamespaceOnError
<1>1. CASE \E r : Fail(r)
  BY <1>1, FailKeeps
<1>2. CASE f_ffree # 0 /\ \E free : UndoRegister(node, free)
  BY <1>2, UndoneKeeps, Zenon DEF UndoRegister
<1>3. CASE reply' = Append(replies, "OK")
  <2>1. Len(reply') = 1 => reply'[1] = "OK"
    BY <1>3
  <2> QED
    BY <2>1 DEF KeepsNamespaceOnError
<1> QED
  BY <1>1, <1>2, <1>3, Zenon DEF do_create_node

\* Every handler that answers with one error has left the namespace alone.
LEMMA NextKeeps == TableInv /\ [Next]_vars => KeepsNamespaceOnError \/ UNCHANGED vars
<1> SUFFICES ASSUME TableInv, Next PROVE KeepsNamespaceOnError
  OBVIOUS
<1>1. <<>> \in Seq(Reply)
  OBVIOUS
<1>2. ASSUME NEW i \in Ino, NEW count \in 1..MaxLookup, FuseForget(i, count)
      PROVE  KeepsNamespaceOnError
  <2>1. reply' = <<>>
    BY <1>2 DEF FuseForget
  <2> QED
    BY <2>1 DEF KeepsNamespaceOnError
<1>3. ASSUME NEW p \in Ino, NEW n \in Name, NEW kind \in MknodKind, FuseMknod(p, n, kind)
      PROVE  KeepsNamespaceOnError
  <2>1. NewNode(kind, 0) \in Inode
    BY NewNodesType DEF NewNodes
  <2> QED
    BY <1>1, <1>3, <2>1, FailKeeps, CreateKeeps, Zenon DEF FuseMknod
<1>4. ASSUME NEW p \in Ino, NEW n \in Name, FuseMkdir(p, n)
      PROVE  KeepsNamespaceOnError
  <2>1. NewDirectory(p) \in Inode
    BY NewNodesType, CapacityAssumption DEF NewNodes, Ino
  <2> QED
    BY <1>1, <1>4, <2>1, FailKeeps, CreateKeeps, Zenon DEF FuseMkdir
<1>5. ASSUME NEW p \in Ino, NEW n \in Name, FuseCreate(p, n)
      PROVE  KeepsNamespaceOnError
  <2>1. NewFile \in Inode
    BY NewNodesType DEF NewNodes
  <2> QED
    BY <1>1, <1>5, <2>1, FailKeeps, CreateKeeps, Zenon DEF FuseCreate
<1>6. ASSUME NEW p \in Ino, NEW n \in Name, NEW len \in LinkLen, FuseSymlink(p, n, len)
      PROVE  KeepsNamespaceOnError
  <2>1. NewSymLink(len) \in Inode
    BY NewNodesType DEF NewNodes
  <2> QED
    BY <1>6, <2>1, WarningsType, FailKeeps, CreateKeeps DEF FuseSymlink
<1>7. ASSUME NEW p \in Ino, NEW n \in Name,
             \/ FuseLookup(p, n) \/ FuseUnlink(p, n) \/ FuseRmdir(p, n)
             \/ \E i \in Ino : FuseLink(i, p, n)
             \/ \E q \in Ino, m \in Name : FuseRename(p, n, q, m)
      PROVE  KeepsNamespaceOnError
  <2>1. CASE \E r : Fail(r)
    BY <2>1, FailKeeps
  <2>2. CASE reply' = <<"OK">>
    BY <2>2, OkKeeps
  <2> QED
    BY <1>7, <2>1, <2>2, Zenon DEF FuseLookup, FuseUnlink, FuseRmdir, FuseLink, FuseRename
<1>8. ASSUME NEW i \in Ino, NEW size \in FileLen,
             FuseSetAttr(i, size) \/ \E off \in FileLen : FuseWrite(i, off, size)
      PROVE  KeepsNamespaceOnError
  <2>1. CASE \E r : Fail(r)
    BY <2>1, FailKeeps
  <2>2. CASE reply' = <<"OK">>
    BY <2>2, OkKeeps
  <2> QED
    BY <1>8, <2>1, <2>2, Zenon DEF FuseSetAttr, FuseWrite, SetSize
<1> QED
  BY <1>2, <1>3, <1>4, <1>5, <1>6, <1>7, <1>8 DEF Next

-----------------------------------------------------------------------------
(* The theorems *)

\* The state FuseInit leaves: one inode, the root, in a table of one slot.
LEMMA InitInv == Init => TableInv
<1> SUFFICES ASSUME Init PROVE TableInv
  OBVIOUS
<1> DEFINE d == NewDirectory(Root)
<1>1. Root \in Nat /\ Root = 1
  BY DEF Root
<1>2. /\ d \in Inode /\ d.kind = "dir" /\ d.nlink = 2 /\ d.nlookup = 0
      /\ d.children = NoChildren /\ d.blocks \in Int
  BY <1>1, NewDirectoryType
<1>3. Inodes = <<d>> /\ DeletedInodes = <<>> /\ f_ffree = Files - 2
      /\ f_bfree = Word(Blocks - RegisterCharge(d)) /\ kref = [i \in Ino |-> 0]
      /\ kdead = {} /\ reply = <<>>
  BY DEF Init
<1> HIDE DEF d
<1>4. /\ Inodes \in Seq(Inode) /\ Len(Inodes) = 1 /\ DOMAIN Inodes = 1..1
      /\ Inodes[1] = d
  BY <1>2, <1>3
<1>5. Live = {1} /\ Cardinality(Live) = 1
  <2>1. Live = {1}
    BY <1>2, <1>4 DEF Live
  <2> QED BY <2>1, FS_Singleton
<1>6. f_bfree \in 0..(Modulus - 1)
  <2>1. get_nblocks(BaseDirSize) \in Int
    BY DEF get_nblocks, BufBlockSize, BaseDirSize
  <2>2. RegisterCharge(d) \in Int
    BY <1>2, <2>1 DEF RegisterCharge
  <2>3. Blocks - RegisterCharge(d) \in Int
    BY <2>2, CapacityAssumption
  <2> QED BY <1>3, <2>3, WordType
<1>7. TypeOK
  <2>1. Len(Inodes) \in Ino /\ f_ffree \in 0..Files
    BY <1>3, <1>4, CapacityAssumption DEF Ino
  <2>2. kref \in [Ino -> 0..MaxLookup]
    BY <1>3, BoundAssumption
  <2>3. DeletedInodes \in Seq(Ino) /\ reply \in Seq(Reply) /\ kdead \subseteq Ino
    BY <1>3
  <2> QED BY <1>4, <1>6, <2>1, <2>2, <2>3 DEF TypeOK
<1>8. TableShape
  BY <1>1, <1>2, <1>3, <1>4, CapacityAssumption
     DEF TableShape, NoChildren, INO_NOTFOUND, Ino
<1>9. QueueHoldsEmptySlots
  BY <1>3, <1>4, <1>5 DEF QueueHoldsEmptySlots, IsInjective, Range
<1>10. FreeInodesAccounted
  BY <1>3, <1>5, CapacityAssumption DEF FreeInodesAccounted
<1>11. LookupsAgree
  BY <1>2, <1>3, <1>4 DEF LookupsAgree, GetInode, NullInode
<1>12. UnlinkedIsHeld
  BY <1>1, <1>5 DEF UnlinkedIsHeld
<1> QED
  BY <1>7, <1>8, <1>9, <1>10, <1>11, <1>12 DEF TableInv

\* Every handler keeps the invariant.
LEMMA NextInv == TableInv /\ [Next]_vars => TableStep
<1> SUFFICES ASSUME TableInv, [Next]_vars PROVE TableStep
  OBVIOUS
<1>1. CASE UNCHANGED vars
  <2>1. TableInv'
    BY <1>1, Zenon DEF vars, stbuf, kernel, TableInv, TypeOK, TableShape, QueueHoldsEmptySlots,
       FreeInodesAccounted, LookupsAgree, UnlinkedIsHeld, Live, GetInode
  <2>2. KnownKeepInode
    BY <1>1 DEF vars, KnownKeepInode, GetInode
  <2> QED BY <2>1, <2>2 DEF TableStep
<1>2. ASSUME NEW i \in Ino, NEW count \in 1..MaxLookup, FuseForget(i, count)
      PROVE  TableStep
  BY <1>2, ForgetInv
<1>3. ASSUME NEW p \in Ino, NEW n \in Name, FuseLookup(p, n)
      PROVE  TableStep
  BY <1>3, LookupInv
<1>4. ASSUME NEW p \in Ino, NEW n \in Name, NEW kind \in MknodKind, FuseMknod(p, n, kind)
      PROVE  TableStep
  BY <1>4, NewNodesType, MakeInv DEF FuseMknod
<1>5. ASSUME NEW p \in Ino, NEW n \in Name, FuseMkdir(p, n)
      PROVE  TableStep
  <2>1. NewDirectory(p) \in NewNodes
    BY NewNodesType, CapacityAssumption DEF Ino
  <2> QED BY <1>5, <2>1, MakeInv DEF FuseMkdir
<1>6. ASSUME NEW p \in Ino, NEW n \in Name, FuseCreate(p, n)
      PROVE  TableStep
  BY <1>6, CreateFileInv
<1>7. ASSUME NEW p \in Ino, NEW n \in Name, NEW len \in LinkLen, FuseSymlink(p, n, len)
      PROVE  TableStep
  BY <1>7, SymlinkInv
<1>8. ASSUME NEW p \in Ino, NEW n \in Name, NEW i \in Ino, FuseLink(i, p, n)
      PROVE  TableStep
  BY <1>8, LinkInv
<1>9. ASSUME NEW p \in Ino, NEW n \in Name, FuseUnlink(p, n)
      PROVE  TableStep
  BY <1>9, UnlinkInv
<1>10. ASSUME NEW p \in Ino, NEW n \in Name, FuseRmdir(p, n)
       PROVE  TableStep
  BY <1>10, RmdirInv
<1>11. ASSUME NEW p \in Ino, NEW n \in Name, NEW q \in Ino, NEW m \in Name,
              FuseRename(p, n, q, m)
       PROVE  TableStep
  BY <1>11, RenameInv
<1>12. ASSUME NEW i \in Ino, NEW size \in FileLen, NEW off \in FileLen,
              FuseWrite(i, off, size)
       PROVE  TableStep
  BY <1>12, WriteInv
<1>13. ASSUME NEW i \in Ino, NEW size \in FileLen, FuseSetAttr(i, size)
       PROVE  TableStep
  BY <1>13, SetAttrInv
<1> QED
  BY <1>1, <1>2, <1>3, <1>4, <1>5, <1>6, <1>7, <1>8, <1>9, <1>10, <1>11, <1>12, <1>13, Zenon
     DEF Next

\* In every run of the daemon the table, the queue of free slots, the free
\* inode count and the lookup counts agree, whatever the capacity, the names,
\* the sizes and the order of the kernel's requests.
THEOREM TableInvariant == Spec => []TableInv
<1>1. Init => TableInv
  BY InitInv
<1>2. TableInv /\ [Next]_vars => TableInv'
  BY NextInv DEF TableStep
<1> QED BY <1>1, <1>2, PTL DEF Spec

\* Every variable keeps its type: no handler makes the table longer than
\* f_files allows or takes a counter out of its range.
THEOREM TypeCorrect == Spec => []TypeOK
<1>1. TableInv => TypeOK
  BY DEF TableInv
<1> QED BY <1>1, TableInvariant, PTL

\* DeleteInode and PopOneDeletedInode never hand out a slot in use.
THEOREM QueueCorrect == Spec => []QueueHoldsEmptySlots
<1>1. TableInv => QueueHoldsEmptySlots
  BY DEF TableInv
<1> QED BY <1>1, TableInvariant, PTL

\* f_ffree is always what the inodes in use leave of f_files.
THEOREM FreeInodesCorrect == Spec => []FreeInodesAccounted
<1>1. TableInv => FreeInodesAccounted
  BY DEF TableInv
<1> QED BY <1>1, TableInvariant, PTL

\* m_nlookup is always the number of lookups the kernel has yet to forget.
THEOREM LookupsCorrect == Spec => []LookupsAgree
<1>1. TableInv => LookupsAgree
  BY DEF TableInv
<1> QED BY <1>1, TableInvariant, PTL

\* Whatever handler takes its last link, an inode without links is one that
\* the kernel has yet to forget.
THEOREM UnlinkedStaysHeld == Spec => []UnlinkedIsHeld
<1>1. TableInv => UnlinkedIsHeld
  BY DEF TableInv
<1> QED BY <1>1, TableInvariant, PTL

\* No number the kernel still uses is given to another inode.
THEOREM NumbersAreStable == Spec => NumberKeepsInode
<1>1. TableInv /\ [Next]_vars => [KnownKeepInode]_vars
  BY NextInv DEF TableStep
<1> QED BY <1>1, TableInvariant, PTL DEF Spec, NumberKeepsInode

\* The sizes and the block counts of all inodes stay right: a directory's
\* size is its entries', whatever is created, linked, removed and renamed.
THEOREM SizesCorrect == Spec => []SizesAccounted
<1>1. Init => Booked(Inodes, UsedBlocks)
  BY InitBooked
<1>2. TableInv /\ Booked(Inodes, UsedBlocks) /\ [Next]_vars => Booked(Inodes, UsedBlocks)'
  BY NextBooked DEF BookStep
<1>3. Booked(Inodes, UsedBlocks) => SizesAccounted
  BY SeqLen DEF Booked, Sized, SizesAccounted, Live
<1> QED BY <1>1, <1>2, <1>3, TableInvariant, PTL DEF Spec

\* Apart from the blocks that mkdir and an undone creation charge without an
\* inode to charge them for, no handler loses or invents a block.
THEOREM BlocksAreConserved == Spec => BlocksConserved
<1>1. Init => Booked(Inodes, UsedBlocks)
  BY InitBooked
<1>2. TableInv /\ Booked(Inodes, UsedBlocks) /\ [Next]_vars => Booked(Inodes, UsedBlocks)'
  BY NextBooked DEF BookStep
<1>3. TableInv /\ Booked(Inodes, UsedBlocks) /\ [Next]_vars => [ConservesBlocks]_vars
  BY NextBooked DEF BookStep
<1> QED BY <1>1, <1>2, <1>3, TableInvariant, PTL DEF Spec, BlocksConserved

\* A request answered with one error leaves the entries, the link counts and
\* the free inodes as they were, also when a registered inode is given back.
THEOREM ErrorsLeaveNoTrace == Spec => ErrorLeavesNoTrace
<1>1. TableInv /\ [Next]_vars => [KeepsNamespaceOnError]_vars
  BY NextKeeps
<1> QED BY <1>1, TableInvariant, PTL DEF Spec, ErrorLeavesNoTrace

=============================================================================
