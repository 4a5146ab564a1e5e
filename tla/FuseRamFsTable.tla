--------------------------- MODULE FuseRamFsTable ---------------------------
(***************************************************************************)
(* The handlers of FuseRamFs keep TableInv: the inode table, the queue of  *)
(* free slots, the free inode count and the lookup counts stay consistent  *)
(* with each other and with the kernel.                                    *)
(***************************************************************************)
EXTENDS FuseRamFsFacts

-----------------------------------------------------------------------------
(* Steps that fill and empty no slot *)

\* What every step is shown to do.
TableStep == TableInv' /\ KnownKeepInode

\* Such a step changes links, sizes, entries and lookup counts of inodes in
\* use; what loses its last link is known to the kernel.
KeepsSlots ==
  /\ Inodes' \in Seq(Inode) /\ Len(Inodes') = Len(Inodes)
  /\ \A i \in 1..Len(Inodes) :
       /\ Inodes'[i].kind = Inodes[i].kind
       /\ Inodes[i].kind = "null" => Inodes'[i] = Inodes[i]
       /\ Inodes'[i].nlookup = kref'[i]
       /\ Inodes[i].kind # "null" /\ i # Root /\ Inodes'[i].nlink = 0 => kref'[i] > 0
       /\ \A n \in Name : Inodes'[i].children[n] \in (0..Len(Inodes)) \ {Root}
  /\ \A i \in Ino : i \notin 1..Len(Inodes) => kref'[i] = kref[i]
  /\ kref'[Root] = kref[Root]
  /\ DeletedInodes' = DeletedInodes
  /\ f_ffree' = f_ffree

\* The variables the invariant says no more about than their type.
RestTyped ==
  /\ f_bfree' \in 0..(Modulus - 1)
  /\ kref' \in [Ino -> 0..MaxLookup]
  /\ kdead' \subseteq Ino
  /\ reply' \in Seq(Reply)

\* A step that fills and empties no slot, and keeps the lookup counts in
\* agreement, keeps the invariant.
LEMMA KeepsSlotsInv ==
  ASSUME TableInv, KeepsSlots, RestTyped
  PROVE  TableStep
<1> USE DEF TableInv, TypeOK, KeepsSlots, RestTyped
<1>1. DOMAIN Inodes = 1..Len(Inodes) /\ DOMAIN Inodes' = 1..Len(Inodes) /\ Len(Inodes) \in Nat
  BY SeqLen
<1>2. Root \in 1..Len(Inodes) /\ Root \in Ino
  BY CapacityAssumption DEF Root, Ino
<1>3. TypeOK'
  BY <1>1
<1>4. TableShape'
  BY <1>1, <1>2, Zenon DEF TableShape
<1>5. Live' = Live
  BY <1>1, Zenon DEF Live
<1>6. QueueHoldsEmptySlots'
  BY <1>1, <1>5, Zenon DEF QueueHoldsEmptySlots
<1>7. FreeInodesAccounted'
  BY <1>5 DEF FreeInodesAccounted
<1>8. LookupsAgree'
  <2> SUFFICES ASSUME NEW i \in Ino
               PROVE  GetInode(i)'.nlookup = kref'[i]
    BY DEF LookupsAgree
  <2>1. CASE i \in 1..Len(Inodes)
    BY <2>1, <1>1, Zenon DEF GetInode
  <2>2. CASE i \notin 1..Len(Inodes)
    BY <2>2, <1>1, Zenon DEF GetInode, LookupsAgree
  <2> QED BY <2>1, <2>2
<1>9. UnlinkedIsHeld'
  <2> SUFFICES ASSUME NEW i \in Live, i # Root, Inodes'[i].nlink = 0
               PROVE  Inodes'[i].nlookup > 0
    BY <1>5 DEF UnlinkedIsHeld
  <2>1. i \in 1..Len(Inodes) /\ Inodes[i].kind # "null"
    BY <1>1 DEF Live
  <2> QED BY <2>1, Zenon
<1>10. KnownKeepInode
  BY <1>1, Zenon DEF KnownKeepInode, GetInode
<1> QED BY <1>3, <1>4, <1>6, <1>7, <1>8, <1>9, <1>10 DEF TableStep

-----------------------------------------------------------------------------
(* Tables that differ from Inodes in the ways KeepsSlots allows *)

\* The entries of T name slots of the table, and never the root.
Children(T) == \A i \in 1..Len(Inodes) : \A n \in Name :
                 T[i].children[n] \in (0..Len(Inodes)) \ {Root}

\* A table that a step which fills and empties no slot may leave.
Fits(T) ==
  /\ T \in Seq(Inode) /\ Len(T) = Len(Inodes)
  /\ \A i \in 1..Len(Inodes) :
       /\ T[i].kind = Inodes[i].kind
       /\ Inodes[i].kind = "null" => T[i] = Inodes[i]
       /\ T[i].nlookup = Inodes[i].nlookup
       /\ Inodes[i].kind # "null" /\ i # Root /\ T[i].nlink = 0 => kref[i] > 0
  /\ Children(T)

\* The table itself fits.
LEMMA InodesFit ==
  ASSUME TableInv
  PROVE  Fits(Inodes)
<1>1. Inodes \in Seq(Inode) /\ Children(Inodes)
  BY SlotFacts DEF Children, TableInv, TypeOK, TableShape
<1>2. \A i \in 1..Len(Inodes) :
        Inodes[i].kind # "null" /\ i # Root /\ Inodes[i].nlink = 0 => kref[i] > 0
  BY SlotFacts DEF TableInv, UnlinkedIsHeld, Live
<1> QED BY <1>1, <1>2 DEF Fits

\* A change to one inode in use keeps a table fitting.
LEMMA FitsExcept ==
  ASSUME TableInv, NEW T, Fits(T), NEW i \in 1..Len(Inodes), NEW e \in Inode,
         e.kind = T[i].kind, e.kind # "null", e.nlookup = T[i].nlookup,
         e.nlink # 0 \/ e.nlink = T[i].nlink \/ i = Root \/ kref[i] > 0,
         \A n \in Name : e.children[n] \in (0..Len(Inodes)) \ {Root}
  PROVE  /\ Fits([T EXCEPT ![i] = e])
         /\ \A j \in 1..Len(Inodes) :
              [T EXCEPT ![i] = e][j] = IF j = i THEN e ELSE T[j]
<1>1. T \in Seq(Inode) /\ Len(T) = Len(Inodes)
  BY DEF Fits
<1> DEFINE U == [T EXCEPT ![i] = e]
<1>2. /\ U \in Seq(Inode) /\ Len(U) = Len(Inodes)
      /\ \A j \in 1..Len(Inodes) : U[j] = IF j = i THEN e ELSE T[j]
  BY <1>1, SeqExcept
<1> HIDE DEF U
<1>3. Fits(U)
  BY <1>2 DEF Fits, Children
<1> QED
  BY <1>2, <1>3 DEF U

\* A slot of a table that fits.
LEMMA FitsSlot ==
  ASSUME TableInv, NEW T, Fits(T), NEW i \in 1..Len(Inodes)
  PROVE  /\ T[i] \in Inode /\ T[i].kind = Inodes[i].kind
         /\ T[i].nlookup = Inodes[i].nlookup
         /\ \A n \in Name : T[i].children[n] \in (0..Len(Inodes)) \ {Root}
  BY SlotFacts, SeqLen DEF Fits, Children

\* The table fits after the link count of a known inode has changed...
LEMMA FitsNlink ==
  ASSUME TableInv, NEW T, Fits(T), NEW i \in 1..Len(Inodes), Inodes[i].kind # "null",
         NEW x \in 0..(Modulus - 1), i = Root \/ kref[i] > 0
  PROVE  /\ Fits([T EXCEPT ![i].nlink = x])
         /\ \A j \in 1..Len(Inodes) :
              /\ j # i => [T EXCEPT ![i].nlink = x][j] = T[j]
              /\ [T EXCEPT ![i].nlink = x][j].blocks = T[j].blocks
<1> DEFINE e == [T[i] EXCEPT !.nlink = x]
<1>1. T[i] \in Inode /\ T[i].kind # "null"
      /\ \A n \in Name : T[i].children[n] \in (0..Len(Inodes)) \ {Root}
  BY FitsSlot
<1>2. e \in Inode /\ e.kind = T[i].kind /\ e.nlookup = T[i].nlookup
      /\ e.children = T[i].children /\ e.blocks = T[i].blocks
  BY <1>1, Zenon DEF Inode
<1>3. [T EXCEPT ![i].nlink = x] = [T EXCEPT ![i] = e]
  OBVIOUS
<1> HIDE DEF e
<1>4. /\ Fits([T EXCEPT ![i] = e])
      /\ \A j \in 1..Len(Inodes) : [T EXCEPT ![i] = e][j] = IF j = i THEN e ELSE T[j]
  BY <1>1, <1>2, FitsExcept
<1> QED
  BY <1>2, <1>3, <1>4

\* IncrementLinkCount and DecrementLinkCount keep a table fit, on an inode that
\* the kernel holds or on the root.
LEMMA FitsAddLinks ==
  ASSUME TableInv, NEW T, Fits(T), NEW i \in 1..Len(Inodes), Inodes[i].kind # "null",
         NEW k \in Int, i = Root \/ kref[i] > 0
  PROVE  Fits(AddLinks(T, i, k))
<1>1. T[i].nlink \in Int
  BY FitsSlot, InodeFields
<1> DEFINE x == Word(T[i].nlink + k)
<1>2. x \in 0..(Modulus - 1)
  <2>1. T[i].nlink + k \in Int
    BY <1>1
  <2> QED
    BY <2>1, WordType, Zenon
<1>3. AddLinks(T, i, k) = [T EXCEPT ![i].nlink = x]
  BY DEF AddLinks
<1> HIDE DEF x
<1>4. Fits([T EXCEPT ![i].nlink = x])
  BY <1>2, FitsNlink, Zenon
<1> QED BY <1>3, <1>4

\* ... after a directory has got an entry ...
LEMMA FitsAddChild ==
  ASSUME TableInv, NEW T, Fits(T), NEW p \in 1..Len(Inodes), Inodes[p].kind # "null",
         NEW n \in Name, NEW c \in (0..Len(Inodes)) \ {Root}
  PROVE  /\ Fits([T EXCEPT ![p] = AddChild(T[p], n, c)])
         /\ AddChild(T[p], n, c).blocks \in Int
         /\ \A j \in 1..Len(Inodes) : j # p =>
              [T EXCEPT ![p] = AddChild(T[p], n, c)][j] = T[j]
         /\ [T EXCEPT ![p] = AddChild(T[p], n, c)][p] = AddChild(T[p], n, c)
<1> DEFINE e == AddChild(T[p], n, c)
<1>1. T[p] \in Inode /\ T[p].kind # "null"
      /\ \A m \in Name : T[p].children[m] \in (0..Len(Inodes)) \ {Root}
  BY FitsSlot
<1>2. e \in Inode /\ e.kind = T[p].kind /\ e.nlookup = T[p].nlookup /\ e.nlink = T[p].nlink
      /\ e.children = [T[p].children EXCEPT ![n] = c] /\ e.blocks \in Int
  BY <1>1, SlotFacts, AddChildType
<1> HIDE DEF e
<1>3. \A m \in Name : e.children[m] \in (0..Len(Inodes)) \ {Root}
  <2>1. T[p].children \in [Name -> Nat]
    BY <1>1, InodeFields
  <2> QED BY <1>1, <1>2, <2>1
<1>4. /\ Fits([T EXCEPT ![p] = e])
      /\ \A j \in 1..Len(Inodes) : [T EXCEPT ![p] = e][j] = IF j = p THEN e ELSE T[j]
  <2>1. /\ e \in Inode /\ e.kind = T[p].kind /\ e.kind # "null"
        /\ e.nlookup = T[p].nlookup /\ e.nlink = T[p].nlink
    BY <1>1, <1>2
  <2> QED BY <2>1, <1>3, FitsExcept
<1> QED
  BY <1>2, <1>4 DEF e

\* ... and after it has lost one.
LEMMA FitsRemoveChild ==
  ASSUME TableInv, NEW T, Fits(T), NEW p \in 1..Len(Inodes), Inodes[p].kind # "null",
         NEW n \in Name
  PROVE  /\ Fits([T EXCEPT ![p] = RemoveChild(T[p], n)])
         /\ BlocksReturned(T[p], n) \in Int
         /\ \A j \in 1..Len(Inodes) : j # p =>
              [T EXCEPT ![p] = RemoveChild(T[p], n)][j] = T[j]
<1> DEFINE e == RemoveChild(T[p], n)
<1>1. T[p] \in Inode /\ T[p].kind # "null"
      /\ \A m \in Name : T[p].children[m] \in (0..Len(Inodes)) \ {Root}
  BY FitsSlot
<1>2. e \in Inode /\ e.kind = T[p].kind /\ e.nlookup = T[p].nlookup /\ e.nlink = T[p].nlink
      /\ e.children = [T[p].children EXCEPT ![n] = INO_NOTFOUND]
      /\ BlocksReturned(T[p], n) \in Int
  BY <1>1, RemoveChildType, Zenon
<1> HIDE DEF e
<1>3. \A m \in Name : e.children[m] \in (0..Len(Inodes)) \ {Root}
  <2>1. T[p].children \in [Name -> Nat]
    BY <1>1, InodeFields
  <2>2. INO_NOTFOUND \in (0..Len(Inodes)) \ {Root}
    BY SlotFacts DEF INO_NOTFOUND, Root
  <2> QED BY <1>1, <1>2, <2>1, <2>2
<1>4. /\ Fits([T EXCEPT ![p] = e])
      /\ \A j \in 1..Len(Inodes) : [T EXCEPT ![p] = e][j] = IF j = p THEN e ELSE T[j]
  <2>1. /\ e \in Inode /\ e.kind = T[p].kind /\ e.kind # "null"
        /\ e.nlookup = T[p].nlookup /\ e.nlink = T[p].nlink
    BY <1>1, <1>2
  <2> QED BY <2>1, <1>3, FitsExcept
<1> QED
  BY <1>2, <1>4 DEF e

\* _RemoveChild on a directory of the table keeps the table fit.
LEMMA FitsRemoveEntry ==
  ASSUME TableInv, NEW T, Fits(T), NEW p \in 1..Len(Inodes), Inodes[p].kind # "null",
         NEW n \in Name
  PROVE  Fits(RemoveEntry(T, p, n)) /\ BlocksReturned(T[p], n) \in Int
  BY FitsRemoveChild DEF RemoveEntry

\* A step to a table that fits keeps the invariant.
LEMMA FitsInv ==
  ASSUME TableInv, Fits(Inodes'), UNCHANGED <<DeletedInodes, f_ffree, kref>>,
         f_bfree' \in 0..(Modulus - 1), kdead' \subseteq Ino, reply' \in Seq(Reply)
  PROVE  TableStep
<1>1. kref \in [Ino -> 0..MaxLookup]
  BY DEF TableInv, TypeOK
<1>2. KeepsSlots
  BY <1>1, SlotFacts, BoundAssumption DEF KeepsSlots, Fits, Children
<1>3. RestTyped
  BY <1>1 DEF RestTyped
<1> QED
  BY <1>2, <1>3, KeepsSlotsInv

\* So does an error, which changes nothing.
LEMMA FailInv ==
  ASSUME TableInv, NEW r \in Seq(Reply), Fail(r)
  PROVE  TableStep
<1>1. Inodes' = Inodes /\ reply' = r /\ UNCHANGED <<DeletedInodes, f_ffree, kref>>
  BY DEF Fail, stbuf, kernel
<1>2. f_bfree' \in 0..(Modulus - 1) /\ kdead' \subseteq Ino
  BY DEF Fail, stbuf, kernel, TableInv, TypeOK
<1>3. Fits(Inodes')
  BY <1>1, InodesFit
<1> QED
  BY <1>1, <1>2, <1>3, FitsInv

\* Handing an inode in use to the kernel keeps both counts of its lookups equal.
LEMMA ReplyEntryInv ==
  ASSUME TableInv, NEW T, Fits(T), NEW i \in 1..Len(Inodes), i # Root,
         Inodes[i].kind # "null", ReplyEntry(T, i),
         UNCHANGED <<DeletedInodes, f_ffree>>,
         f_bfree' \in 0..(Modulus - 1), reply' \in Seq(Reply)
  PROVE  TableStep
<1>1. /\ kref \in [Ino -> 0..MaxLookup] /\ kdead \subseteq Ino
      /\ i \in Ino /\ Inodes[i].nlookup = kref[i]
  BY SlotFacts, Zenon DEF TableInv, TypeOK
<1>2. T \in Seq(Inode) /\ Len(T) = Len(Inodes) /\ T[i] \in Inode /\ T[i].nlookup = kref[i]
  BY <1>1, SlotFacts, SeqLen DEF Fits
<1> DEFINE e == [T[i] EXCEPT !.nlookup = Word(T[i].nlookup + 1)]
<1>3. /\ kref[i] < MaxLookup /\ Inodes' = [T EXCEPT ![i] = e]
      /\ kref' = [kref EXCEPT ![i] = @ + 1] /\ kdead' = kdead
  BY DEF ReplyEntry
<1>4. Word(T[i].nlookup + 1) = kref[i] + 1 /\ kref[i] + 1 \in 0..(Modulus - 1)
  BY <1>1, <1>2, <1>3, WordId, BoundAssumption, CapacityAssumption
<1>5. e \in Inode /\ e.nlookup = kref[i] + 1 /\ e.kind = T[i].kind
      /\ e.nlink = T[i].nlink /\ e.children = T[i].children
  BY <1>2, <1>4, Zenon DEF Inode
<1> HIDE DEF e
<1>6. /\ Inodes' \in Seq(Inode) /\ Len(Inodes') = Len(Inodes)
      /\ \A j \in 1..Len(Inodes) : Inodes'[j] = IF j = i THEN e ELSE T[j]
  BY <1>2, <1>3, <1>5, SeqExcept
<1>7. kref' \in [Ino -> 0..MaxLookup]
      /\ \A j \in Ino : kref'[j] = IF j = i THEN kref[i] + 1 ELSE kref[j]
  BY <1>1, <1>3, BoundAssumption
<1>8. \A j \in 1..Len(Inodes) : Inodes'[j].nlookup = kref'[j]
  <2> SUFFICES ASSUME NEW j \in 1..Len(Inodes)
               PROVE  Inodes'[j].nlookup = kref'[j]
    OBVIOUS
  <2>1. j \in Ino
    BY SlotFacts
  <2>2. T[j].nlookup = kref[j]
    <3>1. T[j].nlookup = Inodes[j].nlookup
      BY DEF Fits
    <3> QED BY <3>1, SlotFacts
  <2>3. CASE j = i
    BY <1>5, <1>6, <1>7, <2>1, <2>3, Zenon
  <2>4. CASE j # i
    BY <1>6, <1>7, <2>1, <2>2, <2>4, Zenon
  <2> QED BY <2>3, <2>4
<1>9. KeepsSlots
  <2>1. \A j \in 1..Len(Inodes) :
          /\ Inodes'[j].kind = Inodes[j].kind
          /\ Inodes[j].kind = "null" => Inodes'[j] = Inodes[j]
          /\ Inodes[j].kind # "null" /\ j # Root /\ Inodes'[j].nlink = 0 => kref[j] > 0
    BY <1>5, <1>6 DEF Fits
  <2>2. \A j \in 1..Len(Inodes) : Inodes'[j].children = T[j].children
    BY <1>5, <1>6
  <2>3. \A j \in 1..Len(Inodes) : \A n \in Name :
          Inodes'[j].children[n] \in (0..Len(Inodes)) \ {Root}
    BY <2>2 DEF Fits, Children
  <2>4. \A j \in Ino : j \notin 1..Len(Inodes) => kref'[j] = kref[j]
    BY <1>1, <1>7
  <2>5. kref'[Root] = kref[Root]
    BY <1>7, SlotFacts
  <2>6. \A j \in 1..Len(Inodes) : kref[j] > 0 => kref'[j] > 0
    BY <1>1, <1>7, SlotFacts
  <2> QED
    BY <1>6, <1>8, <2>1, <2>3, <2>4, <2>5, <2>6, Zenon DEF KeepsSlots
<1>10. RestTyped
  BY <1>1, <1>3, <1>7 DEF RestTyped
<1> QED
  BY <1>9, <1>10, KeepsSlotsInv, Zenon

-----------------------------------------------------------------------------
(* One lemma for each handler that fills and empties no slot *)

\* FuseLookup keeps the invariant: it counts one lookup on both sides.
LEMMA LookupInv ==
  ASSUME TableInv, NEW p \in Ino, NEW n \in Name, FuseLookup(p, n)
  PROVE  TableStep
<1> DEFINE c == ChildInodeNumberWithName(p, n)
<1>1. p \in Nat /\ c \in (0..Len(Inodes)) \ {Root} /\ c \in Nat
  BY ChildFacts, CapacityAssumption DEF Ino
<1>2. LookupErrno(p, n) \in Reply
  BY <1>1, ParentErrnoType DEF LookupErrno, Reply
<1>3. CASE LookupErrno(p, n) # "OK"
  <2>1. Fail(<<LookupErrno(p, n)>>)
    BY <1>3 DEF FuseLookup
  <2>2. <<LookupErrno(p, n)>> \in Seq(Reply)
    BY <1>2
  <2> QED BY <2>1, <2>2, FailInv, Zenon
<1>4. CASE LookupErrno(p, n) = "OK"
  <2>1. ReplyEntry(Inodes, c) /\ reply' = <<"OK">> /\ UNCHANGED <<DeletedInodes, f_bfree, f_ffree>>
    BY <1>4 DEF FuseLookup, stbuf
  <2>2. GetInode(c).nlink # 0
    BY <1>4 DEF LookupErrno, HasNoLinks
  <2>3. reply' \in Seq(Reply) /\ f_bfree' \in 0..(Modulus - 1)
    BY <2>1, OkType DEF TableInv, TypeOK
  <2> HIDE DEF c
  <2>4. c \in 1..Len(Inodes) /\ Inodes[c].kind # "null" /\ c # Root
    BY <1>1, <2>2, InUse
  <2> QED BY <2>1, <2>3, <2>4, InodesFit, ReplyEntryInv, Zenon
<1> QED BY <1>3, <1>4

\* FuseLink keeps the invariant: the inode it links has links already.
LEMMA LinkInv ==
  ASSUME TableInv, NEW i \in Ino, NEW q \in Ino, NEW n \in Name, FuseLink(i, q, n)
  PROVE  TableStep
<1>1. i \in Nat /\ q \in Nat
  BY CapacityAssumption DEF Ino
<1>2. LinkErrno(i, q, n) \in Reply
  BY <1>1, ParentErrnoType, AddChildErrnoType DEF LinkErrno, Reply
<1>3. CASE LinkErrno(i, q, n) # "OK"
  <2>1. Fail(<<LinkErrno(i, q, n)>>)
    BY <1>3 DEF FuseLink
  <2>2. <<LinkErrno(i, q, n)>> \in Seq(Reply)
    BY <1>2
  <2> QED BY <2>1, <2>2, FailInv, Zenon
<1>4. CASE LinkErrno(i, q, n) = "OK"
  <2> DEFINE dir == AddChild(Inodes[q], n, i)
             T == [Inodes EXCEPT ![q] = dir]
  <2>1. /\ ReplyEntry(AddLinks(T, i, 1), i)
        /\ f_bfree' = Word(f_bfree - (dir.blocks - Inodes[q].blocks))
        /\ reply' = <<"OK">> /\ UNCHANGED <<DeletedInodes, f_ffree>>
    BY <1>4 DEF FuseLink
  <2>2. /\ GetInode(i).nlink # 0 /\ ParentErrno(q) = "OK"
        /\ GetInode(i).kind # "dir" /\ Knows(i)
    BY <1>4 DEF LinkErrno, HasNoLinks, FuseLink
  <2>3. /\ i \in 1..Len(Inodes) /\ Inodes[i].kind # "null" /\ Inodes[i] \in Inode
        /\ Inodes[i].kind # "dir"
    BY <1>1, <2>2, InUse, Zenon
  <2>4. q \in 1..Len(Inodes) /\ Inodes[q].kind = "dir" /\ Inodes[q] \in Inode
    BY <2>2, ParentFacts, Zenon
  <2>5. i # Root /\ kref[i] > 0
    BY <2>2, <2>3, <2>4, Zenon DEF TableInv, TableShape, Knows
  <2>6. i \in (0..Len(Inodes)) \ {Root} /\ Inodes[q].kind # "null"
    BY <2>3, <2>4, <2>5, SlotFacts
  <2>7. Fits(T) /\ dir.blocks \in Int
    BY <2>4, <2>6, InodesFit, FitsAddChild, Zenon
  <2> HIDE DEF dir
  <2>8. f_bfree' \in 0..(Modulus - 1) /\ reply' \in Seq(Reply)
    <3>1. Inodes[q].blocks \in Int /\ f_bfree \in Int
      BY <2>4, InodeFields, CapacityAssumption DEF TableInv, TypeOK
    <3> QED BY <3>1, <2>1, <2>7, WordType, OkType
  <2> HIDE DEF T
  <2>9. Fits(AddLinks(T, i, 1))
    BY <2>3, <2>5, <2>7, FitsAddLinks
  <2> QED BY <2>1, <2>3, <2>5, <2>8, <2>9, ReplyEntryInv
<1> QED BY <1>3, <1>4

\* FuseUnlink keeps the invariant: what loses its last link is held by the
\* kernel, which looked it up to remove it.
LEMMA UnlinkInv ==
  ASSUME TableInv, NEW p \in Ino, NEW n \in Name, FuseUnlink(p, n)
  PROVE  TableStep
<1> DEFINE c == ChildInodeNumberWithName(p, n)
           errno == IF ParentErrno(p) # "OK" THEN ParentErrno(p)
                    ELSE IF c = INO_NOTFOUND THEN "ENOENT" ELSE "OK"
<1>1. p \in Nat /\ c \in (0..Len(Inodes)) \ {Root} /\ c \in Nat
  BY ChildFacts, CapacityAssumption DEF Ino
<1>2. errno \in Reply
  BY <1>1, ParentErrnoType DEF Reply
<1>3. CASE errno # "OK"
  <2>1. Fail(<<errno>>)
    BY <1>3 DEF FuseUnlink
  <2> HIDE DEF errno
  <2>2. <<errno>> \in Seq(Reply)
    BY <1>2
  <2> QED BY <2>1, <2>2, FailInv, Zenon
<1>4. CASE errno = "OK"
  <2>1. /\ Inodes' = AddLinks(RemoveEntry(Inodes, p, n), c, -1)
        /\ f_bfree' = Word(f_bfree + BlocksReturned(Inodes[p], n))
        /\ reply' = <<"OK">> /\ UNCHANGED <<DeletedInodes, f_ffree, kref, kdead>>
    BY <1>4 DEF FuseUnlink, kernel
  <2>2. ParentErrno(p) = "OK" /\ c # INO_NOTFOUND
    BY <1>4
  <2>3. KernelHolds(c)
    BY DEF FuseUnlink, KernelUnlinks
  <2> HIDE DEF c, errno
  <2>4. p \in 1..Len(Inodes) /\ Inodes[p].kind = "dir" /\ Inodes[p].kind # "null"
    BY <2>2, ParentFacts, Zenon
  <2>5. c \in 1..Len(Inodes) /\ c \in Ino /\ kref[c] > 0 /\ Inodes[c].kind # "null"
    BY <1>1, <2>2, <2>3, SlotFacts DEF KernelHolds, INO_NOTFOUND
  <2>6. Fits(RemoveEntry(Inodes, p, n)) /\ BlocksReturned(Inodes[p], n) \in Int
    BY <2>4, InodesFit, FitsRemoveEntry, Zenon
  <2>7. Fits(Inodes')
    BY <2>1, <2>5, <2>6, FitsAddLinks
  <2>8. /\ f_bfree' \in 0..(Modulus - 1) /\ reply' \in Seq(Reply)
        /\ kdead' \subseteq Ino
    <3>1. f_bfree \in Int /\ kdead \subseteq Ino
      BY CapacityAssumption DEF TableInv, TypeOK
    <3> QED BY <3>1, <2>1, <2>6, WordType, OkType
  <2> QED BY <2>1, <2>7, <2>8, FitsInv, Zenon
<1> QED BY <1>3, <1>4, Zenon

\* FuseRmdir keeps the invariant: the kernel holds the directory it removes.
LEMMA RmdirInv ==
  ASSUME TableInv, NEW p \in Ino, NEW n \in Name, FuseRmdir(p, n)
  PROVE  TableStep
<1> DEFINE c == ChildInodeNumberWithName(p, n)
<1>1. p \in Nat /\ c \in (0..Len(Inodes)) \ {Root} /\ c \in Nat
  BY ChildFacts, CapacityAssumption DEF Ino
<1>2. RmdirErrno(p, n) \in Reply
  <2>1. ParentErrno(p) \in Reply /\ ParentErrno(c) \in Reply
    BY <1>1, ParentErrnoType, Zenon
  <2> QED BY <2>1 DEF RmdirErrno, Reply
<1>3. CASE RmdirErrno(p, n) # "OK"
  <2>1. Fail(<<RmdirErrno(p, n)>>)
    BY <1>3 DEF FuseRmdir
  <2>2. <<RmdirErrno(p, n)>> \in Seq(Reply)
    BY <1>2
  <2> QED BY <2>1, <2>2, FailInv, Zenon
<1>4. CASE RmdirErrno(p, n) = "OK"
  <2> DEFINE removed == AddLinks(RemoveEntry(Inodes, p, n), p, -1)
  <2>1. /\ Inodes' = IF NumLinks(Inodes[c]) > 0
                     THEN [removed EXCEPT ![c].nlink = 0] ELSE removed
        /\ f_bfree' = Word(f_bfree + BlocksReturned(Inodes[p], n))
        /\ kdead' = kdead \cup {c}
        /\ reply' = <<"OK">> /\ UNCHANGED <<DeletedInodes, f_ffree, kref>>
    BY <1>4 DEF FuseRmdir
  <2>2. ParentErrno(p) = "OK" /\ c # INO_NOTFOUND
    BY <1>4 DEF RmdirErrno
  <2>3. KernelHolds(c) /\ Knows(p)
    BY Zenon DEF FuseRmdir, KernelWalks
  <2> HIDE DEF c
  <2>4. p \in 1..Len(Inodes) /\ Inodes[p].kind = "dir" /\ Inodes[p].kind # "null"
    BY <2>2, ParentFacts
  <2>5. c \in 1..Len(Inodes) /\ c \in Ino /\ kref[c] > 0 /\ Inodes[c].kind # "null"
    BY <1>1, <2>2, <2>3, SlotFacts DEF KernelHolds, INO_NOTFOUND
  <2>6. Fits(RemoveEntry(Inodes, p, n)) /\ BlocksReturned(Inodes[p], n) \in Int
    BY <2>4, InodesFit, FitsRemoveEntry
  <2>7. Fits(removed)
    BY <2>3, <2>4, <2>6, FitsAddLinks DEF Knows
  <2> HIDE DEF removed
  <2>8. /\ f_bfree' \in 0..(Modulus - 1) /\ reply' \in Seq(Reply)
        /\ kdead' \subseteq Ino
    <3>1. f_bfree \in Int /\ kdead \subseteq Ino
      BY CapacityAssumption DEF TableInv, TypeOK
    <3> QED BY <3>1, <2>1, <2>5, <2>6, WordType, OkType
  <2>9. 0 \in 0..(Modulus - 1)
    BY CapacityAssumption
  <2>10. Fits([removed EXCEPT ![c].nlink = 0])
    BY <2>5, <2>7, <2>9, FitsNlink, Zenon
  <2>11. Fits(Inodes')
    BY <2>1, <2>7, <2>10
  <2> QED BY <2>1, <2>8, <2>11, FitsInv, Zenon
<1> QED BY <1>3, <1>4

\* The table fits after an entry has been pointed at another inode.
LEMMA FitsUpdateChild ==
  ASSUME TableInv, NEW T, Fits(T), NEW q \in 1..Len(Inodes), Inodes[q].kind # "null",
         NEW m \in Name, NEW c \in (0..Len(Inodes)) \ {Root}
  PROVE  Fits([T EXCEPT ![q].children[m] = c])
<1>1. T[q] \in Inode /\ T[q].kind # "null" /\ T[q].children \in [Name -> Nat]
      /\ \A k \in Name : T[q].children[k] \in (0..Len(Inodes)) \ {Root}
  BY FitsSlot, InodeFields
<1> DEFINE kids == [T[q].children EXCEPT ![m] = c]
           e == [T[q] EXCEPT !.children = kids]
<1>2. c \in Nat
  BY SlotFacts
<1>3. kids \in [Name -> Nat] /\ \A k \in Name : kids[k] \in (0..Len(Inodes)) \ {Root}
  BY <1>1, <1>2
<1>4. [T EXCEPT ![q].children[m] = c] = [T EXCEPT ![q] = e]
  OBVIOUS
<1> HIDE DEF kids
<1>5. e \in Inode /\ e.kind = T[q].kind /\ e.nlookup = T[q].nlookup /\ e.nlink = T[q].nlink
      /\ e.children = kids
  BY <1>1, <1>3, Zenon DEF Inode
<1> HIDE DEF e
<1>6. Fits([T EXCEPT ![q] = e])
  BY <1>1, <1>3, <1>5, FitsExcept, Zenon
<1> QED
  BY <1>4, <1>6, Zenon

\* Replacing an entry leads to a table that fits.
LEMMA ReplaceEntryFits ==
  ASSUME TableInv, NEW p \in Ino, NEW n \in Name, NEW q \in Ino, NEW m \in Name,
         RenameAllowed(p, n, q, m), ReplaceEntry(p, n, q, m),
         KernelHolds(ChildInodeNumberWithName(q, m)),
         NumLinks(GetInode(ChildInodeNumberWithName(q, m))) > 0
  PROVE  Fits(Inodes') /\ f_bfree' \in 0..(Modulus - 1) /\ kdead' \subseteq Ino
<1> DEFINE src == ChildInodeNumberWithName(p, n)
           existing == ChildInodeNumberWithName(q, m)
           isdir == GetInode(existing).kind = "dir"
           k == IF isdir THEN -3 ELSE -1
           unlinked == AddLinks(Inodes, existing, k)
           updated == [unlinked EXCEPT ![q].children[m] = src]
           removed == RemoveEntry(updated, p, n)
<1>1. /\ Inodes' = IF isdir THEN AddLinks(removed, p, -1) ELSE removed
      /\ f_bfree' = Word(f_bfree + BlocksReturned(Inodes[p], n))
      /\ kdead' = IF isdir THEN kdead \cup {existing} ELSE kdead
  BY DEF ReplaceEntry
<1>2. existing \in (0..Len(Inodes)) \ {Root} /\ existing \in Nat
  BY ChildFacts
<1>3. existing # INO_NOTFOUND
  <2>1. GetInode(INO_NOTFOUND) = NullInode
    BY SlotFacts DEF INO_NOTFOUND
  <2>2. ~(NumLinks(NullInode) > 0)
    BY SlotFacts, CapacityAssumption DEF NumLinks
  <2> QED BY <2>1, <2>2, Zenon
<1>4. KernelHolds(existing)
  OBVIOUS
<1> HIDE DEF existing
<1>5. /\ existing \in 1..Len(Inodes) /\ existing \in Ino /\ kref[existing] > 0
      /\ Inodes[existing].kind # "null"
  BY <1>2, <1>3, <1>4, SlotFacts DEF KernelHolds, INO_NOTFOUND
<1>6. k \in Int
  OBVIOUS
<1> HIDE DEF k
<1>7. Fits(unlinked)
  BY <1>5, <1>6, InodesFit, FitsAddLinks, Zenon
<1> HIDE DEF unlinked
<1>8. Fits(updated)
  BY <1>7, FitsUpdateChild, Zenon DEF RenameAllowed
<1> HIDE DEF updated
<1>9. Fits(removed)
  BY <1>8, FitsRemoveEntry DEF RenameAllowed
<1> HIDE DEF removed
<1>10. Fits(AddLinks(removed, p, -1))
  BY <1>9, FitsAddLinks DEF RenameAllowed, Knows
<1>11. BlocksReturned(Inodes[p], n) \in Int /\ f_bfree \in Int /\ kdead \subseteq Ino
  <2>1. BlocksReturned(Inodes[p], n) \in Int
    BY RemoveChildType, Zenon DEF RenameAllowed
  <2> QED BY <2>1, CapacityAssumption DEF TableInv, TypeOK
<1>12. f_bfree' \in 0..(Modulus - 1)
  BY <1>1, <1>11, WordType
<1> QED
  BY <1>1, <1>5, <1>9, <1>10, <1>11, <1>12

\* So does moving one, whether or not there is space for the new entry.
LEMMA MoveEntryFits ==
  ASSUME TableInv, NEW p \in Ino, NEW n \in Name, NEW q \in Ino, NEW m \in Name,
         RenameAllowed(p, n, q, m), MoveEntry(p, n, q, m)
  PROVE  Fits(Inodes') /\ f_bfree' \in 0..(Modulus - 1) /\ kdead' \subseteq Ino
<1> DEFINE src == ChildInodeNumberWithName(p, n)
           isdir == GetInode(src).kind = "dir"
           ret == AddChildErrno(Inodes[q], m, f_bfree)
           grown == [Inodes EXCEPT ![q] = AddChild(Inodes[q], m, src)]
           added == IF ret = "OK" THEN grown ELSE Inodes
           removed == RemoveEntry(added, p, n)
<1>1. /\ Inodes' = IF isdir THEN AddLinks(AddLinks(removed, p, -1), q, 1) ELSE removed
      /\ f_bfree' = Word(f_bfree - (added[q].blocks - Inodes[q].blocks)
                                 + BlocksReturned(added[p], n))
      /\ kdead' = kdead
  BY DEF MoveEntry
<1> HIDE DEF src, isdir, ret
<1>2. Fits(grown)
  BY InodesFit, FitsAddChild DEF RenameAllowed, src
<1> HIDE DEF grown
<1>3. Fits(added)
  BY <1>2, InodesFit, Zenon
<1> HIDE DEF added
<1>4. Fits(removed) /\ BlocksReturned(added[p], n) \in Int
  BY <1>3, FitsRemoveEntry, Zenon DEF RenameAllowed
<1> HIDE DEF removed
<1>5. Fits(AddLinks(removed, p, -1))
  BY <1>4, FitsAddLinks DEF RenameAllowed, Knows
<1>6. Fits(AddLinks(AddLinks(removed, p, -1), q, 1))
  BY <1>5, FitsAddLinks DEF RenameAllowed, Knows
<1>7. added[q].blocks \in Int /\ Inodes[q].blocks \in Int
  BY <1>3, FitsSlot, InodeFields, Zenon DEF RenameAllowed
<1>8. f_bfree \in Int /\ kdead \subseteq Ino
  BY CapacityAssumption DEF TableInv, TypeOK
<1>9. f_bfree' \in 0..(Modulus - 1)
  BY <1>1, <1>4, <1>7, <1>8, CapacityAssumption DEF Word
<1> QED
  BY <1>1, <1>4, <1>6, <1>8, <1>9

\* FuseRename keeps the invariant, whether it replaces an entry or makes one.
LEMMA RenameInv ==
  ASSUME TableInv, NEW p \in Ino, NEW n \in Name, NEW q \in Ino, NEW m \in Name,
         FuseRename(p, n, q, m)
  PROVE  TableStep
<1>1. CASE RenameErrno(p, n, q, m) # "OK"
  <2>1. Fail(<<RenameErrno(p, n, q, m)>>)
    BY <1>1 DEF FuseRename
  <2>2. RenameErrno(p, n, q, m) \in Reply
    BY DEF RenameErrno, Reply
  <2>3. <<RenameErrno(p, n, q, m)>> \in Seq(Reply)
    BY <2>2
  <2> QED BY <2>1, <2>3, FailInv, Zenon
<1>2. CASE RenameErrno(p, n, q, m) = "OK"
  <2>1. RenameAllowed(p, n, q, m)
    BY <1>2, RenameAllows
  <2>2. reply' = <<"OK">> /\ UNCHANGED <<DeletedInodes, f_ffree, kref>>
    BY <1>2 DEF FuseRename
  <2>3. Fits(Inodes') /\ f_bfree' \in 0..(Modulus - 1) /\ kdead' \subseteq Ino
    <3>1. CASE NumLinks(GetInode(ChildInodeNumberWithName(q, m))) > 0
      <4>1. ReplaceEntry(p, n, q, m) /\ KernelHolds(ChildInodeNumberWithName(q, m))
        BY <1>2, <3>1 DEF FuseRename, KernelRenames
      <4> QED BY <3>1, <4>1, <2>1, ReplaceEntryFits, Zenon
    <3>2. CASE ~(NumLinks(GetInode(ChildInodeNumberWithName(q, m))) > 0)
      <4>1. MoveEntry(p, n, q, m)
        BY <1>2, <3>2 DEF FuseRename
      <4> QED BY <4>1, <2>1, MoveEntryFits, Zenon
    <3> QED BY <3>1, <3>2, Zenon
  <2> QED BY <2>2, <2>3, OkType, FitsInv
<1> QED BY <1>1, <1>2

\* Resizing a file of the table.
LEMMA SetSizeInv ==
  ASSUME TableInv, NEW i \in 1..Len(Inodes), Inodes[i].kind # "null",
         NEW size \in Int, NEW blocks \in Int, NEW charge \in Int,
         SetSize(i, size, blocks, charge)
  PROVE  TableStep
<1> DEFINE e == [Inodes[i] EXCEPT !.size = size, !.blocks = blocks]
<1>1. Inodes[i] \in Inode
  BY SlotFacts
<1>2. e \in Inode /\ e.kind = Inodes[i].kind /\ e.nlookup = Inodes[i].nlookup
      /\ e.nlink = Inodes[i].nlink /\ e.children = Inodes[i].children
  BY <1>1, Zenon DEF Inode
<1>3. Inodes' = [Inodes EXCEPT ![i] = e]
  BY SlotFacts, Zenon DEF SetSize
<1> HIDE DEF e
<1>4. Fits([Inodes EXCEPT ![i] = e])
  <2>1. \A n \in Name : e.children[n] \in (0..Len(Inodes)) \ {Root}
    BY <1>2, InodesFit, FitsSlot
  <2> QED BY <1>2, <2>1, InodesFit, FitsExcept, Zenon
<1>5. f_bfree' \in 0..(Modulus - 1) /\ kdead' \subseteq Ino
  <2>1. f_bfree' = Word(f_bfree - charge) /\ kdead' = kdead
    BY DEF SetSize, kernel
  <2>2. f_bfree \in Int /\ kdead \subseteq Ino
    BY CapacityAssumption DEF TableInv, TypeOK
  <2> QED BY <2>1, <2>2, CapacityAssumption DEF Word
<1>6. reply' = <<"OK">> /\ UNCHANGED <<DeletedInodes, f_ffree, kref>>
  BY DEF SetSize, kernel
<1> QED BY <1>3, <1>4, <1>5, <1>6, OkType, FitsInv

\* FuseWrite keeps the invariant: it changes only a size and its blocks.
LEMMA WriteInv ==
  ASSUME TableInv, NEW i \in Ino, NEW off \in FileLen, NEW len \in FileLen,
         FuseWrite(i, off, len)
  PROVE  TableStep
<1> DEFINE size == off + len
           blocks == get_nblocks(size)
           node == GetInode(i)
           charge == IF Grows(node, size) THEN blocks - node.blocks ELSE 0
<1>1. size \in Int /\ blocks \in Int /\ i \in Nat
  BY BoundAssumption, CapacityAssumption DEF get_nblocks, BufBlockSize, Ino
<1>2. WriteErrno(i, size) \in Reply
  BY DEF WriteErrno, Reply
<1>3. /\ <<WriteErrno(i, size)>> \in Seq(Reply) /\ <<"OK">> \in Seq(Reply)
      /\ <<"NoBytes">> \in Seq(Reply)
  <2>1. "NoBytes" \in Reply
    BY DEF Reply
  <2>2. <<"NoBytes">> \in Seq(Reply)
    BY <2>1
  <2> HIDE DEF size
  <2>3. <<WriteErrno(i, size)>> \in Seq(Reply)
    BY <1>2
  <2> QED BY <2>2, <2>3, OkType
<1>4. \/ Fail(<<WriteErrno(i, size)>>) \/ Fail(<<"NoBytes">>) \/ Fail(<<"OK">>)
      \/ WriteErrno(i, size) = "OK" /\ SetSize(i, size, blocks, charge)
  BY DEF FuseWrite
<1>5. CASE WriteErrno(i, size) = "OK" /\ SetSize(i, size, blocks, charge)
  <2>1. node.nlink # 0
    BY <1>5 DEF WriteErrno
  <2>2. i \in 1..Len(Inodes) /\ Inodes[i].kind # "null" /\ node = Inodes[i]
        /\ node \in Inode
    BY <1>1, <2>1, InUse
  <2> HIDE DEF node
  <2>3. node.blocks \in Int
    BY <2>2, InodeFields
  <2> HIDE DEF blocks, size
  <2>4. charge \in Int
    BY <1>1, <2>3
  <2> HIDE DEF charge
  <2> QED BY <1>1, <1>5, <2>2, <2>4, SetSizeInv, Zenon
<1> QED BY <1>3, <1>4, <1>5, FailInv, Zenon

\* FuseSetAttr (truncate) keeps the invariant, as FuseWrite does.
LEMMA SetAttrInv ==
  ASSUME TableInv, NEW i \in Ino, NEW size \in FileLen, FuseSetAttr(i, size)
  PROVE  TableStep
<1> DEFINE blocks == get_nblocks(size)
<1>1. size \in Int /\ blocks \in Int /\ i \in Nat
  BY BoundAssumption, CapacityAssumption DEF get_nblocks, BufBlockSize, Ino
<1>2. TruncateErrno(i, size) \in Reply
  BY DEF TruncateErrno, Reply
<1>3. <<TruncateErrno(i, size)>> \in Seq(Reply) /\ <<"EINVAL">> \in Seq(Reply)
  <2>1. "EINVAL" \in Reply
    BY DEF Reply
  <2> QED BY <1>2, <2>1
<1>4. \/ Fail(<<TruncateErrno(i, size)>>) \/ Fail(<<"EINVAL">>)
      \/ /\ TruncateErrno(i, size) = "OK"
         /\ SetSize(i, size, blocks, blocks - Inodes[i].blocks)
  BY DEF FuseSetAttr
<1>5. CASE /\ TruncateErrno(i, size) = "OK"
           /\ SetSize(i, size, blocks, blocks - Inodes[i].blocks)
  <2>1. GetInode(i).nlink # 0
    BY <1>5 DEF TruncateErrno
  <2>2. i \in 1..Len(Inodes) /\ Inodes[i].kind # "null" /\ Inodes[i] \in Inode
    BY <1>1, <2>1, InUse, Zenon
  <2> HIDE DEF blocks
  <2>3. blocks - Inodes[i].blocks \in Int
    BY <1>1, <2>2, InodeFields
  <2> QED BY <1>1, <1>5, <2>2, <2>3, SetSizeInv, Zenon
<1> QED BY <1>3, <1>4, <1>5, FailInv, Zenon

-----------------------------------------------------------------------------
(* Emptying a slot *)

\* Inode i leaves the table: its slot is blank and at the end of the queue.
LEMMA EmptySlotInv ==
  ASSUME TableInv, NEW i \in 1..Len(Inodes), i # Root, Inodes[i].kind # "null",
         Inodes' = [Inodes EXCEPT ![i] = NullInode],
         DeletedInodes' = Append(DeletedInodes, i),
         f_ffree' = Word(f_ffree + 1),
         kref' = [kref EXCEPT ![i] = 0],
         RestTyped
  PROVE  TableStep
<1>1. /\ Inodes' \in Seq(Inode) /\ Len(Inodes') = Len(Inodes)
      /\ DOMAIN Inodes = 1..Len(Inodes) /\ DOMAIN Inodes' = 1..Len(Inodes)
      /\ \A j \in 1..Len(Inodes) : Inodes'[j] = IF j = i THEN NullInode ELSE Inodes[j]
  <2>1. Inodes \in Seq(Inode)
    BY DEF TableInv, TypeOK
  <2>2. Inodes' \in Seq(Inode) /\ Len(Inodes') = Len(Inodes)
    BY <2>1, NullInodeType, SeqExcept
  <2> QED BY <2>1, <2>2, NullInodeType, SeqExcept, SeqLen, Zenon
<1>2. Live' = Live \ {i} /\ i \in Live
  BY <1>1, SlotFacts DEF Live
<1>3. IsFiniteSet(Live) /\ Cardinality(Live') = Cardinality(Live) - 1
      /\ Cardinality(Live) \in Nat
  <2>1. IsFiniteSet(Live)
    <3>1. IsFiniteSet(1..Len(Inodes))
      BY SlotFacts, FS_Interval
    <3> QED BY <3>1, SlotFacts, FS_Subset, Zenon DEF Live
  <2> QED BY <1>2, <2>1, FS_RemoveElement, FS_CardinalityType, Zenon
<1>4. f_ffree + 1 \in 0..(Modulus - 1) /\ f_ffree' = f_ffree + 1 /\ f_ffree' \in 0..Files
  <2>1. f_ffree + Cardinality(Live) + 1 = Files /\ f_ffree \in 0..Files
    BY DEF TableInv, FreeInodesAccounted, TypeOK
  <2>2. Cardinality(Live) > 0
    BY <1>2, <1>3, FS_EmptySet
  <2>3. f_ffree + 1 \in 0..(Modulus - 1) /\ f_ffree + 1 \in 0..Files
    BY <2>1, <2>2, <1>3, CapacityAssumption
  <2> QED BY <2>3, WordId, Zenon
<1>5. /\ i \in Ino /\ DeletedInodes \in Seq(Ino) /\ kref \in [Ino -> 0..MaxLookup]
      /\ IsInjective(DeletedInodes) /\ Range(DeletedInodes) = DOMAIN Inodes \ Live
      /\ i \notin Range(DeletedInodes)
  BY <1>2, SlotFacts, Zenon DEF TableInv, TypeOK, QueueHoldsEmptySlots
<1>6. /\ DeletedInodes' \in Seq(Ino)
      /\ IsInjective(DeletedInodes') /\ Range(DeletedInodes') = Range(DeletedInodes) \cup {i}
  BY <1>5, AppendQueue
<1>7. TypeOK'
  BY <1>1, <1>4, <1>6, Zenon DEF TableInv, TypeOK, RestTyped
<1>8. TableShape'
  <2>1. kref'[Root] = kref[Root] /\ Inodes'[Root] = Inodes[Root]
    BY <1>1, <1>5, SlotFacts, Zenon
  <2>2. \A j \in 1..Len(Inodes) : Inodes'[j].kind = "null" => Inodes'[j] = NullInode
    BY <1>1, SlotFacts, Zenon
  <2>3. \A n \in Name : NullInode.children[n] \in (0..Len(Inodes)) \ {Root}
    BY SlotFacts DEF NullInode, NoChildren, INO_NOTFOUND, Root
  <2>4. \A j \in 1..Len(Inodes) : \A n \in Name :
          Inodes'[j].children[n] \in (0..Len(Inodes)) \ {Root}
    BY <1>1, <2>3, Zenon DEF TableInv, TableShape
  <2> QED BY <1>1, <2>1, <2>2, <2>4 DEF TableInv, TableShape
<1>9. QueueHoldsEmptySlots'
  BY <1>1, <1>2, <1>5, <1>6, Zenon DEF QueueHoldsEmptySlots
<1>10. FreeInodesAccounted'
  <2>1. f_ffree + Cardinality(Live) + 1 = Files /\ f_ffree \in 0..Files
    BY DEF TableInv, FreeInodesAccounted, TypeOK
  <2> QED BY <2>1, <1>3, <1>4, CapacityAssumption DEF FreeInodesAccounted
<1>11. LookupsAgree'
  <2> SUFFICES ASSUME NEW j \in Ino
               PROVE  GetInode(j)'.nlookup = kref'[j]
    BY Zenon DEF LookupsAgree
  <2>1. CASE j = i
    BY <2>1, <1>1, <1>5, SlotFacts, Zenon DEF GetInode
  <2>2. CASE j # i
    <3>1. GetInode(j)' = GetInode(j) /\ kref'[j] = kref[j]
      BY <2>2, <1>1, <1>5, Zenon DEF GetInode
    <3> QED BY <3>1, Zenon DEF TableInv, LookupsAgree
  <2> QED BY <2>1, <2>2
<1>12. UnlinkedIsHeld'
  <2> SUFFICES ASSUME NEW j \in Live, j # i, j # Root, Inodes'[j].nlink = 0
               PROVE  Inodes'[j].nlookup > 0
    BY <1>2 DEF UnlinkedIsHeld
  <2>1. Inodes'[j] = Inodes[j]
    BY <1>1 DEF Live
  <2> QED BY <2>1 DEF TableInv, UnlinkedIsHeld
<1>13. KnownKeepInode
  BY <1>1, <1>5 DEF KnownKeepInode, GetInode
<1> QED
  BY <1>7, <1>8, <1>9, <1>10, <1>11, <1>12, <1>13 DEF TableInv, TableStep

\* FuseForget keeps the invariant, whether it only lowers m_nlookup or empties
\* the slot and queues it for reuse.
LEMMA ForgetInv ==
  ASSUME TableInv, NEW i \in Ino, NEW count \in 1..MaxLookup, FuseForget(i, count)
  PROVE  TableStep
<1> DEFINE left == Word(GetInode(i).nlookup - count)
<1>1. /\ count \in 1..kref[i] /\ kref' = [kref EXCEPT ![i] = @ - count]
      /\ kdead' \in {kdead, kdead \ {i}} /\ reply' = <<>>
  BY DEF FuseForget
<1>2. /\ kref \in [Ino -> 0..MaxLookup] /\ kdead \subseteq Ino /\ i \in Nat
      /\ f_bfree \in 0..(Modulus - 1)
  BY CapacityAssumption DEF TableInv, TypeOK, Ino
<1>3. kref[i] > 0 /\ kref[i] \in Nat /\ kref[i] \in 0..MaxLookup
  BY <1>1, <1>2, BoundAssumption
<1>4. /\ i \in 1..Len(Inodes) /\ Inodes[i] \in Inode /\ Inodes[i].kind # "null"
      /\ GetInode(i) = Inodes[i]
  BY <1>2, <1>3, InUse, Zenon
<1>5. i # Root /\ Inodes[i].nlookup = kref[i]
  BY <1>3, <1>4, SlotFacts DEF TableInv, TableShape
<1>6. left = kref[i] - count /\ left \in 0..MaxLookup /\ left \in 0..(Modulus - 1)
  <2>1. kref[i] - count \in 0..MaxLookup /\ kref[i] - count \in 0..(Modulus - 1)
    BY <1>1, <1>3, BoundAssumption, CapacityAssumption
  <2>2. GetInode(i).nlookup = kref[i]
    BY <1>4, <1>5
  <2> QED BY <2>1, <2>2, WordId, Zenon
<1>7. kref' = [kref EXCEPT ![i] = left]
  BY <1>1, <1>6, Zenon
<1>8. CASE left = 0 /\ HasNoLinks(i)
  <2>1. /\ Inodes' = [Inodes EXCEPT ![i] = NullInode]
        /\ DeletedInodes' = Append(DeletedInodes, i)
        /\ f_ffree' = Word(f_ffree + 1)
        /\ f_bfree' = Word(f_bfree + Inodes[i].blocks)
    BY <1>8, <1>4 DEF FuseForget, Forgotten, Reclaim
  <2>2. f_bfree' \in 0..(Modulus - 1)
    <3>1. Inodes[i].blocks \in Int /\ f_bfree \in Int
      BY <1>2, <1>4, InodeFields, CapacityAssumption
    <3>2. f_bfree + Inodes[i].blocks \in Int
      BY <3>1
    <3> QED BY <2>1, <3>2, WordType, Zenon
  <2>3. kref' = [kref EXCEPT ![i] = 0]
    BY <1>7, <1>8, Zenon
  <2> HIDE DEF left
  <2>4. RestTyped
    BY <1>1, <1>2, <1>6, <1>7, <2>2 DEF RestTyped
  <2> QED BY <1>4, <1>5, <2>1, <2>3, <2>4, EmptySlotInv, Zenon
<1>9. CASE ~(left = 0 /\ HasNoLinks(i))
  <2> DEFINE e == [Inodes[i] EXCEPT !.nlookup = left]
  <2>1. /\ Inodes' = [Inodes EXCEPT ![i] = e]
        /\ UNCHANGED <<DeletedInodes, f_bfree, f_ffree>>
    BY <1>9, <1>4, Zenon DEF FuseForget, Forgotten, stbuf
  <2>2. Inodes[i].nlink # 0 \/ left # 0
    BY <1>9, <1>4 DEF HasNoLinks
  <2> HIDE DEF left
  <2>3. e \in Inode /\ e.kind = Inodes[i].kind /\ e.nlookup = left
        /\ e.nlink = Inodes[i].nlink /\ e.children = Inodes[i].children
    BY <1>4, <1>6, Zenon DEF Inode
  <2> HIDE DEF e
  <2>4. /\ Inodes' \in Seq(Inode) /\ Len(Inodes') = Len(Inodes)
        /\ \A j \in 1..Len(Inodes) : Inodes'[j] = IF j = i THEN e ELSE Inodes[j]
    <3>1. Inodes \in Seq(Inode) /\ e \in Inode
      BY <2>3 DEF TableInv, TypeOK
    <3> QED BY <2>1, <3>1, <1>4, SeqExcept
  <2>5. /\ kref' \in [Ino -> 0..MaxLookup]
        /\ \A j \in Ino : kref'[j] = IF j = i THEN left ELSE kref[j]
    BY <1>2, <1>6, <1>7, Zenon
  <2>6. \A j \in 1..Len(Inodes) :
          /\ Inodes'[j].nlookup = kref'[j]
          /\ Inodes'[j].kind = Inodes[j].kind
          /\ Inodes[j].kind = "null" => Inodes'[j] = Inodes[j]
          /\ Inodes'[j].children = Inodes[j].children
    BY <1>4, <2>3, <2>4, <2>5, SlotFacts, Zenon
  <2>7. \A j \in 1..Len(Inodes) :
          Inodes[j].kind # "null" /\ j # Root /\ Inodes'[j].nlink = 0 => kref'[j] > 0
    BY <1>6, <2>2, <2>3, <2>4, <2>5, SlotFacts, InodesFit DEF Fits
  <2>8. \A j \in 1..Len(Inodes) : \A n \in Name :
          Inodes'[j].children[n] \in (0..Len(Inodes)) \ {Root}
    BY <2>6, InodesFit, Zenon DEF Fits, Children
  <2>9. kref'[Root] = kref[Root]
    BY <1>5, <2>5, SlotFacts, Zenon
  <2>10. KeepsSlots
    BY <1>4, <2>1, <2>4, <2>5, <2>6, <2>7, <2>8, <2>9, Zenon DEF KeepsSlots
  <2>11. RestTyped
    BY <1>1, <1>2, <2>1, <2>5 DEF RestTyped
  <2> QED BY <2>10, <2>11, KeepsSlotsInv
<1> QED BY <1>8, <1>9

-----------------------------------------------------------------------------
(* Filling a slot *)

\* The inodes in use are finitely many.
LEMMA LiveFinite ==
  ASSUME TableInv
  PROVE  IsFiniteSet(Live) /\ Cardinality(Live) \in Nat
<1>1. IsFiniteSet(1..Len(Inodes))
  BY SlotFacts, FS_Interval
<1> QED BY <1>1, SlotFacts, FS_Subset, FS_CardinalityType DEF Live

\* Entries stay within the table when it grows by the slot of a creation.
LEMMA ChildrenFit ==
  ASSUME TableInv
  PROVE  \A j \in 1..Len(Inodes) : \A n \in Name :
           Inodes[j].children[n] \in (0..NewLen) \ {Root}
<1>1. Len(Inodes) \in Nat /\ DOMAIN Inodes = 1..Len(Inodes)
  BY SlotFacts
<1>2. NewLen \in Nat /\ NewLen >= Len(Inodes)
  BY <1>1 DEF NewLen
<1>3. \A j \in 1..Len(Inodes) : \A n \in Name :
        Inodes[j].children[n] \in (0..Len(Inodes)) \ {Root}
  BY <1>1, Zenon DEF TableInv, TableShape
<1>4. 0..Len(Inodes) \subseteq 0..NewLen
  BY <1>1, <1>2
<1> QED BY <1>3, <1>4

\* A creation that is undone leaves its slot blank and at the end of the queue.
LEMMA UndoneInv ==
  ASSUME TableInv, f_ffree # 0, NEW node \in Inode,
         Inodes' = [RegisterInode(node) EXCEPT ![NewIno] = NullInode],
         DeletedInodes' = Append(DeletedInodesLeft, NewIno),
         f_bfree' \in 0..(Modulus - 1), reply' \in Seq(Reply),
         UNCHANGED <<f_ffree, kref, kdead>>
  PROVE  TableStep
<1> DEFINE R == RegisterInode(node)
<1>1. /\ R \in Seq(Inode) /\ Len(R) = NewLen
      /\ \A j \in 1..NewLen : R[j] = IF j = NewIno THEN node ELSE Inodes[j]
  BY RegisterFacts
<1>2. Inodes' = [R EXCEPT ![NewIno] = NullInode]
  OBVIOUS
<1> HIDE DEF R
<1>3. /\ NewIno \in 1..NewLen /\ NewLen \in Ino /\ NewLen \in Nat /\ NewIno \in Ino
      /\ NewIno \notin Live /\ NewIno # Root /\ kref[NewIno] = 0
      /\ 1..NewLen = (1..Len(Inodes)) \cup {NewIno}
  BY NewSlotFacts
<1>4. /\ Inodes' \in Seq(Inode) /\ Len(Inodes') = NewLen /\ DOMAIN Inodes' = 1..NewLen
      /\ \A j \in 1..NewLen : Inodes'[j] = IF j = NewIno THEN NullInode ELSE Inodes[j]
  <2>1. R \in Seq(Inode) /\ NewIno \in 1..Len(R) /\ NullInode \in Inode
    BY <1>1, <1>3, NullInodeType
  <2> DEFINE U == [R EXCEPT ![NewIno] = NullInode]
  <2>2. /\ U \in Seq(Inode) /\ Len(U) = Len(R)
        /\ \A j \in 1..Len(R) : U[j] = IF j = NewIno THEN NullInode ELSE R[j]
    BY <2>1, SeqExcept
  <2>3. Inodes' = U
    BY <1>2, Zenon
  <2> HIDE DEF U
  <2> QED BY <1>1, <2>2, <2>3, SeqLen, Zenon
<1>5. Live' = Live
  BY <1>3, <1>4, SlotFacts DEF Live
<1>6. /\ DeletedInodes' \in Seq(Ino) /\ IsInjective(DeletedInodes')
      /\ Range(DeletedInodes') = (1..NewLen) \ Live
  <2>1. /\ DeletedInodesLeft \in Seq(Ino) /\ IsInjective(DeletedInodesLeft)
        /\ Range(DeletedInodesLeft) = ((1..Len(Inodes)) \ Live) \ {NewIno}
    BY NewSlotFacts
  <2>2. /\ DeletedInodes' \in Seq(Ino) /\ IsInjective(DeletedInodes')
        /\ Range(DeletedInodes') = Range(DeletedInodesLeft) \cup {NewIno}
    BY <1>3, <2>1, AppendQueue
  <2> QED BY <1>3, <2>1, <2>2, Zenon
<1>7. TypeOK'
  BY <1>3, <1>4, <1>6, Zenon DEF TableInv, TypeOK
<1>8. TableShape'
  <2>1. Inodes'[Root] = Inodes[Root] /\ kref'[Root] = kref[Root]
    <3>1. Root \in 1..Len(Inodes)
      BY SlotFacts
    <3>2. Root \in 1..NewLen /\ Root # NewIno
      BY <1>3, <3>1
    <3> QED BY <1>2, <1>4, <3>2
  <2>2. ASSUME NEW j \in 1..NewLen, Inodes'[j].kind = "null"
        PROVE  Inodes'[j] = NullInode
    <3>1. CASE j = NewIno
      BY <1>4, <3>1
    <3>2. CASE j # NewIno
      <4>1. j \in 1..Len(Inodes) /\ Inodes'[j] = Inodes[j]
        BY <1>3, <1>4, <3>2
      <4> QED BY <2>2, <4>1, SlotFacts
    <3> QED BY <3>1, <3>2
  <2>3. \A n \in Name : NullInode.children[n] \in (0..NewLen) \ {Root}
    BY <1>3 DEF NullInode, NoChildren, INO_NOTFOUND, Root
  <2>4. \A j \in 1..Len(Inodes) : \A n \in Name :
          Inodes[j].children[n] \in (0..NewLen) \ {Root}
    BY ChildrenFit
  <2>5. \A j \in 1..NewLen : \A n \in Name :
          Inodes'[j].children[n] \in (0..NewLen) \ {Root}
    BY <1>3, <1>4, <2>3, <2>4
  <2> QED BY <1>4, <2>1, <2>2, <2>5 DEF TableInv, TableShape
<1>9. QueueHoldsEmptySlots'
  BY <1>4, <1>5, <1>6 DEF QueueHoldsEmptySlots
<1>10. FreeInodesAccounted'
  BY <1>5 DEF TableInv, FreeInodesAccounted
<1>11. LookupsAgree'
  <2> SUFFICES ASSUME NEW j \in Ino
               PROVE  GetInode(j)'.nlookup = kref[j]
    BY Zenon DEF LookupsAgree
  <2>1. CASE j = NewIno
    <3>1. GetInode(j)' = NullInode
      BY <2>1, <1>3, <1>4, Zenon DEF GetInode
    <3>2. NullInode.nlookup = 0 /\ kref[j] = 0
      BY <2>1, <1>3, SlotFacts, Zenon
    <3> QED BY <3>1, <3>2
  <2>2. CASE j # NewIno
    <3>1. GetInode(j)' = GetInode(j)
      BY <2>2, <1>3, <1>4, SlotFacts, Zenon DEF GetInode
    <3> QED BY <3>1 DEF TableInv, LookupsAgree
  <2> QED BY <2>1, <2>2, Zenon
<1>12. UnlinkedIsHeld'
  <2> SUFFICES ASSUME NEW j \in Live, j # Root, Inodes'[j].nlink = 0
               PROVE  Inodes'[j].nlookup > 0
    BY <1>5 DEF UnlinkedIsHeld
  <2>1. Inodes'[j] = Inodes[j]
    BY <1>3, <1>4, SlotFacts DEF Live
  <2> QED BY <2>1 DEF TableInv, UnlinkedIsHeld
<1>13. KnownKeepInode
  <2> SUFFICES ASSUME NEW j \in Ino, j # NewIno
               PROVE  GetInode(j)' = GetInode(j)
    BY <1>3 DEF KnownKeepInode
  <2> QED BY <1>3, <1>4, SlotFacts, Zenon DEF GetInode
<1> QED
  BY <1>7, <1>8, <1>9, <1>10, <1>11, <1>12, <1>13 DEF TableInv, TableStep

\* The table after a creation in directory p: the new inode in its slot, the
\* entry in p, the other slots as they were.
FillsSlot(p) ==
  /\ Inodes' \in Seq(Inode) /\ Len(Inodes') = NewLen
  /\ Inodes'[NewIno].kind # "null" /\ Inodes'[NewIno].nlookup = 1
  /\ Inodes'[NewIno].nlink # 0
  /\ Inodes'[p].kind = Inodes[p].kind /\ Inodes'[p].nlookup = Inodes[p].nlookup
  /\ \A n \in Name : /\ Inodes'[NewIno].children[n] \in (0..NewLen) \ {Root}
                     /\ Inodes'[p].children[n] \in (0..NewLen) \ {Root}
  /\ \A j \in (1..NewLen) \ {NewIno, p} : Inodes'[j] = Inodes[j]

\* What else a creation does: it takes the number from the queue and from the
\* free inodes, and the kernel knows it once.
TakesNumber ==
  /\ DeletedInodes' = DeletedInodesLeft
  /\ f_ffree' = Word(f_ffree - 1)
  /\ kref' = [kref EXCEPT ![NewIno] = 1]
  /\ f_bfree' \in 0..(Modulus - 1) /\ reply' \in Seq(Reply) /\ kdead' = kdead

\* A creation that succeeds fills its slot, changes its parent, and hands the
\* number to the kernel.
LEMMA FillSlotInv ==
  ASSUME TableInv, f_ffree # 0, NEW p \in Live, p = Root \/ kref[p] > 0,
         FillsSlot(p), TakesNumber
  PROVE  TableStep
<1>1. /\ NewIno \in 1..NewLen /\ NewLen \in Ino /\ NewLen \in Nat /\ NewIno \in Ino
      /\ NewIno \notin Live /\ NewIno # Root /\ kref[NewIno] = 0
      /\ 1..NewLen = (1..Len(Inodes)) \cup {NewIno}
      /\ DeletedInodesLeft \in Seq(Ino) /\ IsInjective(DeletedInodesLeft)
      /\ Range(DeletedInodesLeft) = ((1..Len(Inodes)) \ Live) \ {NewIno}
  BY NewSlotFacts
<1>2. /\ DOMAIN Inodes' = 1..NewLen /\ DOMAIN Inodes = 1..Len(Inodes)
      /\ p \in 1..Len(Inodes) /\ p # NewIno /\ Inodes[p].kind # "null"
  <2>1. DOMAIN Inodes' = 1..NewLen
    BY SeqLen DEF FillsSlot
  <2>2. DOMAIN Inodes = 1..Len(Inodes)
    BY SlotFacts
  <2>3. p \in 1..Len(Inodes) /\ Inodes[p].kind # "null"
    BY <2>2 DEF Live
  <2>4. p # NewIno
    BY <1>1, Zenon
  <2> QED BY <2>1, <2>2, <2>3, <2>4
<1>3. Live' = Live \cup {NewIno}
  BY <1>1, <1>2, ZenonT(40) DEF Live, FillsSlot
<1>4. Cardinality(Live') = Cardinality(Live) + 1 /\ Cardinality(Live) \in Nat
  BY <1>1, <1>3, LiveFinite, FS_AddElement, Zenon
<1>5. f_ffree' = f_ffree - 1 /\ f_ffree \in 1..Files /\ f_ffree' \in 0..Files
  <2>1. f_ffree \in 1..Files
    BY CapacityAssumption DEF TableInv, TypeOK
  <2>2. f_ffree - 1 \in 0..(Modulus - 1) /\ f_ffree - 1 \in 0..Files
    BY <2>1, CapacityAssumption
  <2> QED BY <2>1, <2>2, WordId DEF TakesNumber
<1>6. /\ kref' \in [Ino -> 0..MaxLookup]
      /\ \A j \in Ino : kref'[j] = IF j = NewIno THEN 1 ELSE kref[j]
  BY <1>1, BoundAssumption DEF TableInv, TypeOK, TakesNumber
<1>7. TypeOK'
  BY <1>1, <1>5, <1>6, Zenon DEF TableInv, TypeOK, FillsSlot, TakesNumber
<1>8. TableShape'
  <2>1. Inodes'[Root].kind = Inodes[Root].kind /\ kref'[Root] = kref[Root]
    BY <1>1, <1>6, SlotFacts, ZenonT(40) DEF FillsSlot
  <2>2. \A j \in 1..NewLen : Inodes'[j].kind = "null" => Inodes'[j] = NullInode
    BY <1>1, <1>2, SlotFacts, ZenonT(40) DEF FillsSlot
  <2>3. \A j \in 1..Len(Inodes) : \A n \in Name :
          Inodes[j].children[n] \in (0..NewLen) \ {Root}
    BY ChildrenFit
  <2>4. \A j \in 1..NewLen : \A n \in Name :
          Inodes'[j].children[n] \in (0..NewLen) \ {Root}
    BY <1>1, <2>3, ZenonT(40) DEF FillsSlot
  <2> QED BY <1>2, <2>1, <2>2, <2>4 DEF TableInv, TableShape, FillsSlot
<1>9. QueueHoldsEmptySlots'
  BY <1>1, <1>2, <1>3 DEF QueueHoldsEmptySlots, TakesNumber
<1>10. FreeInodesAccounted'
  <2>1. f_ffree + Cardinality(Live) + 1 = Files
    BY DEF TableInv, FreeInodesAccounted
  <2> QED BY <2>1, <1>4, <1>5, CapacityAssumption DEF FreeInodesAccounted
<1>11. LookupsAgree'
  <2> SUFFICES ASSUME NEW j \in Ino
               PROVE  GetInode(j)'.nlookup = kref'[j]
    BY DEF LookupsAgree
  <2>1. CASE j = NewIno
    BY <2>1, <1>1, <1>2, <1>6, Zenon DEF GetInode, FillsSlot
  <2>2. CASE j = p
    <3>1. GetInode(p)' = Inodes'[p]
      <4>1. p \in DOMAIN Inodes'
        BY <1>1, <1>2, Zenon
      <4> QED BY <4>1, Zenon DEF GetInode
    <3>2. Inodes'[p].nlookup = Inodes[p].nlookup
      BY DEF FillsSlot
    <3>3. Inodes[p].nlookup = kref[p]
      BY <1>2, SlotFacts
    <3>4. kref'[p] = kref[p]
      BY <1>2, <1>6, <2>2
    <3> QED BY <2>2, <3>1, <3>2, <3>3, <3>4
  <2>3. CASE j \notin {NewIno, p}
    <3>1. GetInode(j)' = GetInode(j)
      BY <2>3, <1>1, <1>2, Zenon DEF GetInode, FillsSlot
    <3> QED BY <2>3, <3>1, <1>6 DEF TableInv, LookupsAgree
  <2> QED BY <2>1, <2>2, <2>3
<1>12. UnlinkedIsHeld'
  <2> SUFFICES ASSUME NEW j \in Live \cup {NewIno}, j # Root, Inodes'[j].nlink = 0
               PROVE  Inodes'[j].nlookup > 0
    BY <1>3 DEF UnlinkedIsHeld
  <2>1. j # NewIno
    BY DEF FillsSlot
  <2>2. CASE j = p
    BY <2>2, <1>2, SlotFacts DEF FillsSlot
  <2>3. CASE j # p
    <3>1. Inodes'[j] = Inodes[j]
      BY <2>1, <2>3, <1>1, <1>2 DEF Live, FillsSlot
    <3> QED BY <2>1, <3>1, Zenon DEF TableInv, UnlinkedIsHeld
  <2> QED BY <2>2, <2>3
<1>13. KnownKeepInode
  <2> SUFFICES ASSUME NEW j \in Ino, j # NewIno
               PROVE  GetInode(j)'.kind = GetInode(j).kind
    BY <1>1 DEF KnownKeepInode, TakesNumber
  <2> QED BY <1>1, <1>2, Zenon DEF GetInode, FillsSlot
<1> QED
  BY <1>7, <1>8, <1>9, <1>10, <1>11, <1>12, <1>13 DEF TableInv, TableStep

\* do_create_node keeps the invariant on each of its ways out: nothing done,
\* the registration undone, the node entered.
LEMMA CreateInv ==
  ASSUME TableInv, NEW p \in Ino, NEW n \in Name, NEW node \in NewNodes,
         NEW replies \in Seq(Reply), ParentErrno(p) = "OK", Knows(p),
         do_create_node(p, n, node, replies)
  PROVE  TableStep
<1> DEFINE ino == NewIno
           free == Word(f_bfree - RegisterCharge(node))
           ret == AddChildErrno(Inodes[p], n, free)
           parent == AddChild(Inodes[p], n, ino)
           R == RegisterInode(node)
           entered == [R EXCEPT ![p] = parent]
           T == IF node.kind = "dir" THEN AddLinks(entered, p, 1) ELSE entered
<1>1. /\ p \in 1..Len(Inodes) /\ Inodes[p].kind = "dir" /\ Inodes[p] \in Inode
      /\ node \in Inode
  BY ParentFacts DEF NewNodes
<1>2. node.blocks \in Int /\ f_bfree \in Int /\ Inodes[p].blocks \in Int
  BY <1>1, InodeFields, CapacityAssumption DEF TableInv, TypeOK
<1>3. RegisterCharge(node) \in Int
  <2>1. get_nblocks(BaseDirSize) \in Int
    BY DEF get_nblocks, BufBlockSize, BaseDirSize
  <2> QED BY <1>2, <2>1 DEF RegisterCharge
<1>4. free \in 0..(Modulus - 1) /\ free \in Int
  BY <1>2, <1>3, CapacityAssumption DEF Word
<1>5. ret \in Reply
  BY AddChildErrnoType
<1>6. \A r \in Reply : Append(replies, r) \in Seq(Reply)
  BY SeqAppend
<1> HIDE DEF free, ret
<1>7. "OK" \in Reply /\ "ENOSPC" \in Reply
  BY DEF Reply
<1>8. CASE Fail(Append(replies, "ENOSPC"))
  BY <1>6, <1>7, <1>8, FailInv, Zenon
<1>9. CASE /\ f_ffree # 0 /\ ret # "OK"
           /\ Inodes' = [R EXCEPT ![ino] = NullInode]
           /\ DeletedInodes' = Append(DeletedInodesLeft, ino)
           /\ f_bfree' = Word(free - node.blocks)
           /\ reply' = Append(replies, ret)
           /\ UNCHANGED <<f_ffree, kref, kdead>>
  <2>1. f_bfree' \in 0..(Modulus - 1)
    <3>1. free - node.blocks \in Int
      BY <1>2, <1>4
    <3> QED BY <1>9, <3>1, WordType, Zenon
  <2>2. reply' \in Seq(Reply)
    BY <1>5, <1>6, <1>9, Zenon
  <2> QED BY <1>1, <1>9, <2>1, <2>2, UndoneInv, Zenon
<1>10. CASE /\ f_ffree # 0 /\ ret = "OK"
            /\ ReplyEntry(T, ino)
            /\ DeletedInodes' = DeletedInodesLeft
            /\ f_bfree' = Word(free - (parent.blocks - Inodes[p].blocks))
            /\ f_ffree' = Word(f_ffree - 1)
            /\ reply' = Append(replies, "OK")
  <2>1. /\ ino \in 1..NewLen /\ ino \in Ino /\ ino \notin Live /\ ino # Root
        /\ kref[ino] = 0 /\ 1..NewLen = (1..Len(Inodes)) \cup {ino} /\ NewLen \in Nat
    BY <1>10, NewSlotFacts, Zenon
  <2>2. /\ R \in Seq(Inode) /\ Len(R) = NewLen
        /\ \A j \in 1..NewLen : R[j] = IF j = ino THEN node ELSE Inodes[j]
    BY <1>1, <1>10, RegisterFacts, Zenon
  <2>3. ino \in Nat /\ p # ino /\ p \in Live
    BY <1>1, <2>1, SlotFacts DEF Live
  <2>4. /\ parent \in Inode /\ parent.kind = Inodes[p].kind
        /\ parent.nlookup = Inodes[p].nlookup /\ parent.blocks \in Int
        /\ parent.children = [Inodes[p].children EXCEPT ![n] = ino]
    BY <1>1, <2>3, AddChildType
  <2> HIDE DEF parent
  <2>5. \A m \in Name : parent.children[m] \in (0..NewLen) \ {Root}
    <3>1. Inodes[p].children \in [Name -> Nat]
      BY <1>1, InodeFields
    <3>2. \A m \in Name : Inodes[p].children[m] \in (0..NewLen) \ {Root}
      BY <1>1, ChildrenFit
    <3>3. ino \in (0..NewLen) \ {Root}
      BY <2>1
    <3> QED BY <2>4, <3>1, <3>2, <3>3
  <2>6. f_bfree' \in 0..(Modulus - 1) /\ reply' \in Seq(Reply)
    <3>1. free - (parent.blocks - Inodes[p].blocks) \in Int
      BY <1>2, <1>4, <2>4
    <3>2. reply' \in Seq(Reply)
      BY <1>6, <1>7, <1>10, Zenon
    <3> QED BY <1>10, <3>1, <3>2, WordType, Zenon
  <2> HIDE DEF R, ino
  <2>7. /\ entered \in Seq(Inode) /\ Len(entered) = NewLen
        /\ \A j \in 1..NewLen : entered[j] = IF j = p THEN parent ELSE R[j]
    <3>1. p \in 1..Len(R)
      BY <1>1, <2>1, <2>2, Zenon
    <3>2. /\ entered \in Seq(Inode) /\ Len(entered) = Len(R)
          /\ \A j \in 1..Len(R) : entered[j] = IF j = p THEN parent ELSE R[j]
      BY <2>2, <2>4, <3>1, SeqExcept
    <3> QED BY <2>2, <3>2, Zenon
  <2> DEFINE x == Word(parent.nlink + 1)
             dir == [parent EXCEPT !.nlink = x]
  <2>8. /\ T \in Seq(Inode) /\ Len(T) = NewLen
        /\ \A j \in (1..NewLen) \ {p} : T[j] = R[j]
        /\ T[p].kind = parent.kind /\ T[p].nlookup = parent.nlookup
        /\ T[p].children = parent.children
    <3>1. CASE node.kind # "dir"
      <4>1. T = entered
        BY <3>1
      <4> HIDE DEF T, entered
      <4> QED BY <4>1, <1>1, <2>1, <2>7, Zenon
    <3>2. CASE node.kind = "dir"
      <4>1. p \in 1..Len(entered) /\ entered[p] = parent
        BY <1>1, <2>1, <2>7
      <4>2. T = AddLinks(entered, p, 1)
        BY <3>2
      <4> HIDE DEF T, entered
      <4>3. T = [entered EXCEPT ![p] = dir]
        BY <4>1, <4>2 DEF AddLinks
      <4>4. x \in 0..(Modulus - 1)
        <5>1. parent.nlink \in Int
          BY <2>4, InodeFields
        <5> QED BY <5>1, CapacityAssumption DEF Word
      <4> HIDE DEF x
      <4>5. /\ dir \in Inode /\ dir.kind = parent.kind /\ dir.nlookup = parent.nlookup
            /\ dir.children = parent.children
        BY <2>4, <4>4, Zenon DEF Inode
      <4> HIDE DEF dir
      <4>6. /\ T \in Seq(Inode) /\ Len(T) = Len(entered)
            /\ \A j \in 1..Len(entered) : T[j] = IF j = p THEN dir ELSE entered[j]
        BY <4>1, <4>3, <4>5, <2>7, SeqExcept
      <4> QED BY <4>1, <4>5, <4>6, <2>7, Zenon
    <3> QED BY <3>1, <3>2, Zenon
  <2> HIDE DEF T
  <2>9. T[ino] = node /\ node.nlookup = 0 /\ node.kind # "null" /\ node.nlink # 0
        /\ node.children = NoChildren
    BY <2>1, <2>2, <2>3, <2>8, Zenon DEF NewNodes
  <2> DEFINE e == [node EXCEPT !.nlookup = Word(node.nlookup + 1)]
  <2>10. /\ Inodes' = [T EXCEPT ![ino] = e] /\ kref' = [kref EXCEPT ![ino] = 1]
         /\ kdead' = kdead
    <3>1. Inodes' = [T EXCEPT ![ino] = e]
      BY <1>10, <2>9 DEF ReplyEntry
    <3> QED BY <3>1, <1>10, <2>1 DEF ReplyEntry
  <2>11. e \in Inode /\ e.nlookup = 1 /\ e.kind # "null" /\ e.nlink # 0
         /\ e.children = NoChildren
    <3>1. Word(node.nlookup + 1) = 1 /\ 1 \in 0..(Modulus - 1)
      BY <2>9, WordId, CapacityAssumption
    <3> QED BY <1>1, <2>9, <3>1, ZenonT(40) DEF Inode
  <2> HIDE DEF e
  <2>12. /\ Inodes' \in Seq(Inode) /\ Len(Inodes') = NewLen
         /\ \A j \in 1..NewLen : Inodes'[j] = IF j = ino THEN e ELSE T[j]
    <3>1. T \in Seq(Inode) /\ ino \in 1..Len(T)
      BY <2>1, <2>8
    <3>2. /\ Inodes' \in Seq(Inode) /\ Len(Inodes') = Len(T)
          /\ \A j \in 1..Len(T) : Inodes'[j] = IF j = ino THEN e ELSE T[j]
      BY <3>1, <2>10, <2>11, SeqExcept
    <3> QED BY <2>8, <3>2
  <2>13. Inodes'[p] = T[p] /\ Inodes'[ino] = e
    BY <1>1, <2>1, <2>3, <2>12, Zenon
  <2>14. \A j \in (1..NewLen) \ {ino, p} : Inodes'[j] = Inodes[j]
    BY <2>2, <2>8, <2>12, Zenon
  <2>15. \A m \in Name : /\ Inodes'[ino].children[m] \in (0..NewLen) \ {Root}
                         /\ Inodes'[p].children[m] \in (0..NewLen) \ {Root}
    <3>1. \A m \in Name : NoChildren[m] \in (0..NewLen) \ {Root}
      BY <2>1 DEF NoChildren, INO_NOTFOUND, Root
    <3> QED BY <3>1, <2>5, <2>8, <2>11, <2>13, Zenon
  <2>16. /\ Inodes'[ino].kind # "null" /\ Inodes'[ino].nlookup = 1
         /\ Inodes'[ino].nlink # 0
         /\ Inodes'[p].kind = Inodes[p].kind /\ Inodes'[p].nlookup = Inodes[p].nlookup
    BY <2>4, <2>8, <2>11, <2>13, Zenon
  <2>17. FillsSlot(p)
    BY <2>12, <2>14, <2>15, <2>16, Zenon DEF FillsSlot, ino
  <2>18. TakesNumber
    BY <1>10, <2>6, <2>10, Zenon DEF TakesNumber, ino
  <2> QED BY <1>10, <2>3, <2>17, <2>18, FillSlotInv DEF Knows
<1> QED
  BY <1>8, <1>9, <1>10, Zenon DEF do_create_node, UndoRegister, kernel, free, ret

\* What mknod and mkdir do once the kernel has sent them.
LEMMA MakeInv ==
  ASSUME TableInv, NEW p \in Ino, NEW n \in Name, NEW node \in NewNodes, KernelWalks(p),
         IF MakeErrno(p, n) # "OK" THEN Fail(<<MakeErrno(p, n)>>)
         ELSE do_create_node(p, n, node, <<>>)
  PROVE  TableStep
<1>1. p \in Nat
  BY CapacityAssumption DEF Ino
<1>2. MakeErrno(p, n) \in Reply
  BY <1>1, ParentErrnoType DEF MakeErrno, Reply
<1>3. <<MakeErrno(p, n)>> \in Seq(Reply) /\ <<>> \in Seq(Reply)
  BY <1>2
<1>4. CASE MakeErrno(p, n) # "OK"
  BY <1>3, <1>4, FailInv, Zenon
<1>5. CASE MakeErrno(p, n) = "OK"
  <2>1. ParentErrno(p) = "OK"
    BY <1>5 DEF MakeErrno
  <2>2. Knows(p) /\ do_create_node(p, n, node, <<>>)
    BY <1>5 DEF KernelWalks
  <2> QED BY <1>3, <2>1, <2>2, CreateInv, Zenon
<1> QED BY <1>4, <1>5

\* FuseCreate keeps the invariant, though it does not look for the name.
LEMMA CreateFileInv ==
  ASSUME TableInv, NEW p \in Ino, NEW n \in Name, FuseCreate(p, n)
  PROVE  TableStep
<1>1. p \in Nat /\ Knows(p) /\ <<>> \in Seq(Reply) /\ NewFile \in NewNodes
  BY CapacityAssumption, NewNodesType DEF Ino, FuseCreate, KernelWalks
<1>2. <<ParentErrno(p)>> \in Seq(Reply)
  BY <1>1, ParentErrnoType
<1>3. CASE ParentErrno(p) # "OK"
  <2>1. Fail(<<ParentErrno(p)>>)
    BY <1>3 DEF FuseCreate
  <2> QED BY <1>2, <2>1, FailInv, Zenon
<1>4. CASE ParentErrno(p) = "OK"
  <2>1. do_create_node(p, n, NewFile, <<>>)
    BY <1>4 DEF FuseCreate
  <2> QED BY <1>1, <1>4, <2>1, CreateInv, Zenon
<1> QED BY <1>3, <1>4

\* FuseSymlink keeps the invariant, though it goes on after it has replied.
LEMMA SymlinkInv ==
  ASSUME TableInv, NEW p \in Ino, NEW n \in Name, NEW len \in LinkLen,
         FuseSymlink(p, n, len)
  PROVE  TableStep
<1>1. p \in Nat /\ Knows(p) /\ NewSymLink(len) \in NewNodes
  BY CapacityAssumption, NewNodesType DEF Ino, FuseSymlink, KernelWalks
<1>2. SymlinkWarnings(n) \in Seq(Reply)
  BY WarningsType
<1>3. Append(SymlinkWarnings(n), "EEXIST") \in Seq(Reply)
  <2>1. "EEXIST" \in Reply
    BY DEF Reply
  <2> QED BY <1>2, <2>1, SeqAppend
<1>4. <<ParentErrno(p)>> \in Seq(Reply)
  BY <1>1, ParentErrnoType
<1>5. CASE ParentErrno(p) # "OK"
  <2>1. Fail(<<ParentErrno(p)>>)
    BY <1>5 DEF FuseSymlink
  <2> QED BY <1>4, <2>1, FailInv, Zenon
<1>6. CASE ParentErrno(p) = "OK" /\ ChildInodeNumberWithName(p, n) # INO_NOTFOUND
  <2>1. Fail(Append(SymlinkWarnings(n), "EEXIST"))
    BY <1>6 DEF FuseSymlink
  <2> QED BY <1>3, <2>1, FailInv, Zenon
<1>7. CASE ParentErrno(p) = "OK" /\ ChildInodeNumberWithName(p, n) = INO_NOTFOUND
  <2>1. do_create_node(p, n, NewSymLink(len), SymlinkWarnings(n))
    BY <1>7 DEF FuseSymlink
  <2> QED BY <1>1, <1>2, <1>7, <2>1, CreateInv
<1> QED BY <1>5, <1>6, <1>7

=============================================================================
