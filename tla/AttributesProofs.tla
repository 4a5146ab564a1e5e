-------------------------- MODULE AttributesProofs --------------------------
(***************************************************************************)
(* Proof that changes of the attributes of an inode are stamped with the   *)
(* clock, for all modes, owners, sizes, times and orders of requests.      *)
(***************************************************************************)
EXTENDS Attributes, TLAPS

\* The fields of the attributes.
Fields == {"mode", "uid", "gid", "nlink", "size", "atime", "mtime", "ctime"}

\* The inductive invariant.  The change time is never ahead of the clock, or a
\* stamp could turn it back.
AttrInv ==
  /\ DOMAIN attr = Fields
  /\ attr.size \in Nat /\ attr.ctime \in Nat
  /\ clock \in Nat /\ attr.ctime <= clock

\* Sizes are naturals.
LEMMA SizesAreNat == Size \subseteq Nat
  BY AttributesAssumption, Zenon

\* Also those that setattr requests bring.
LEMMA IncomingType == ASSUME NEW new \in Incoming PROVE new.size \in Nat
  BY SizesAreNat, Zenon DEF Incoming

\* A new inode satisfies the invariant.
LEMMA InitAttr == Init => AttrInv
<1> SUFFICES ASSUME Init PROVE AttrInv
  OBVIOUS
<1>1. PICK m \in Mode, u \in Id, g \in Id :
        attr = [mode |-> m, uid |-> u, gid |-> g, nlink |-> 1, size |-> 0,
                atime |-> clock, mtime |-> clock, ctime |-> clock]
  BY Zenon DEF Init
<1>2. clock = 0
  BY Zenon DEF Init
<1> QED
  BY <1>1, <1>2 DEF AttrInv, Fields

\* The effect of a request on the attributes, of which all that follows is a
\* consequence.
Effect ==
  /\ DOMAIN attr' = Fields
  /\ attr'.size \in Nat
  /\ attr'.ctime \in {attr.ctime, clock}
  /\ (\/ attr'.mode # attr.mode
      \/ attr'.uid # attr.uid
      \/ attr'.gid # attr.gid
      \/ attr'.mtime # attr.mtime
      \/ kind = "file" /\ attr'.size # attr.size) => attr'.ctime = clock

\* The attributes are left alone.
LEMMA SameEffect == ASSUME AttrInv, UNCHANGED attr PROVE Effect
  BY DEF AttrInv, Effect

\* An action that stamps what it changes has the effect stated.
LEMMA StampedEffect ==
  ASSUME AttrInv, NEW size \in Nat, attr' = Stamped([attr EXCEPT !.size = size])
  PROVE  Effect
  BY DEF AttrInv, Effect, Stamped, Fields

\* FuseRead changes the access time only.
LEMMA ReadEffect == ASSUME AttrInv, NEW off \in Size, FuseRead(off) PROVE Effect
<1>1. CASE UNCHANGED attr
  BY <1>1, SameEffect
<1>2. CASE attr' = [attr EXCEPT !.atime = clock]
  BY <1>2 DEF AttrInv, Effect, Fields
<1> QED
  BY <1>1, <1>2 DEF FuseRead, Answer

\* ReplySetAttr stamps what it sets.
LEMMA ReplySetAttrEffect ==
  ASSUME AttrInv, NEW new \in Incoming, NEW to_set, "size" \notin to_set,
         attr' = ReplySetAttr(new, to_set)
  PROVE  Effect
<1>1. DOMAIN attr' = Fields /\ attr'.ctime = clock /\ attr'.size = attr.size
  BY DEF AttrInv, ReplySetAttr, Fields
<1> QED
  BY <1>1 DEF AttrInv, Effect

\* FuseSetAttr stamps what it sets, or changes nothing.
LEMMA SetAttrEffect ==
  ASSUME AttrInv, NEW new \in Incoming, NEW to_set \in ToSet, FuseSetAttr(new, to_set)
  PROVE  Effect
<1>1. CASE UNCHANGED attr
  BY <1>1, SameEffect
<1>2. CASE FileTruncate(new["size"])
  <2>1. CASE attr' = Stamped([attr EXCEPT !.size = new["size"]])
    BY <2>1, IncomingType, StampedEffect
  <2> QED
    BY <1>1, <1>2, <2>1 DEF FileTruncate
<1>3. CASE "size" \notin to_set /\ attr' = ReplySetAttr(new, to_set)
  BY <1>3, ReplySetAttrEffect
<1> QED
  BY <1>1, <1>2, <1>3 DEF FuseSetAttr

\* FuseWrite stamps the change time with the size.
LEMMA WriteEffect == ASSUME AttrInv, NEW end \in Size, FuseWrite(end) PROVE Effect
<1>1. CASE UNCHANGED attr
  BY <1>1, SameEffect
<1>2. CASE attr' = Stamped(IF end > attr.size THEN [attr EXCEPT !.size = end] ELSE attr)
  BY <1>2, SizesAreNat DEF AttrInv, Effect, Stamped, Fields
<1> QED
  BY <1>1, <1>2 DEF FuseWrite, Answer

\* An entry made, given away or removed: only the size of a file asks for a stamp.
LEMMA DirectoryEffect == ASSUME AttrInv, NEW size \in Size, DirectoryChange(size) PROVE Effect
<1>1. kind = "dir" /\ size \in Nat
  BY SizesAreNat DEF DirectoryChange
<1>2. CASE attr' = [attr EXCEPT !.size = size]
  BY <1>1, <1>2 DEF AttrInv, Effect, Fields
<1>3. CASE attr' = Stamped([attr EXCEPT !.size = size])
  BY <1>1, <1>3, StampedEffect
<1> QED
  BY <1>2, <1>3 DEF DirectoryChange

\* A link more or less changes nothing that asks for a stamp.
LEMMA LinkEffect == ASSUME AttrInv, AddLink \/ RemoveLink PROVE Effect
  BY DEF AttrInv, Effect, AddLink, RemoveLink, Fields

\* Every step but that of the clock has such an effect and leaves the clock.
LEMMA StepEffect ==
  ASSUME AttrInv, [Next]_vars
  PROVE  Effect /\ (clock' = clock \/ Tick)
<1>1. CASE Tick \/ UNCHANGED vars
  BY <1>1, SameEffect DEF Tick, vars
<1>2. CASE FuseGetAttr \/ FuseOpen \/ FuseRelease \/ FuseFsync \/ FuseFsyncDir \/ FuseFlush
             \/ FuseReadLink
  BY <1>2, SameEffect DEF FuseGetAttr, FuseOpen, FuseRelease, FuseFsync, FuseFsyncDir, FuseFlush,
       FuseReadLink, Answer
<1>3. CASE \E off \in Size : FuseRead(off)
  BY <1>3, ReadEffect DEF FuseRead, Answer
<1>4. CASE \E mask \in 0..7, gid \in Id, uid \in Id : FuseAccess(mask, gid, uid)
  BY <1>4, SameEffect DEF FuseAccess, Answer
<1>5. CASE \E new \in Incoming, to_set \in ToSet : FuseSetAttr(new, to_set)
  BY <1>5, SetAttrEffect DEF FuseSetAttr
<1>6. CASE \E end \in Size : FuseWrite(end)
  BY <1>6, WriteEffect DEF FuseWrite, Answer
<1>7. CASE \E size \in Size : DirectoryChange(size)
  BY <1>7, DirectoryEffect DEF DirectoryChange
<1>8. CASE AddLink \/ RemoveLink
  BY <1>8, LinkEffect DEF AddLink, RemoveLink
<1> QED
  BY <1>1, <1>2, <1>3, <1>4, <1>5, <1>6, <1>7, <1>8 DEF Next

\* Every step keeps the invariant.
LEMMA NextAttr == AttrInv /\ [Next]_vars => AttrInv'
<1> SUFFICES ASSUME AttrInv, [Next]_vars PROVE AttrInv'
  OBVIOUS
<1>1. Effect /\ (clock' = clock \/ clock' = clock + 1)
  BY StepEffect DEF Tick
<1> QED
  BY <1>1 DEF AttrInv, Effect

\* No request turns the change time back or sets it to anything but the clock,
\* and no request changes mode, owner, group or modification time of an inode,
\* or the size of a file, without setting it, whatever times setattr brings.
THEOREM StampsCorrect == Spec => ChangesAreStamped
<1>1. AttrInv /\ [Next]_vars =>
        [/\ attr'.ctime \in {attr.ctime, clock} /\ attr'.ctime >= attr.ctime
         /\ (\/ attr'.mode # attr.mode
             \/ attr'.uid # attr.uid
             \/ attr'.gid # attr.gid
             \/ attr'.mtime # attr.mtime
             \/ kind = "file" /\ attr'.size # attr.size)
            => attr'.ctime = clock]_vars
  BY StepEffect DEF AttrInv, Effect
<1> QED
  BY <1>1, InitAttr, NextAttr, PTL DEF Spec, ChangesAreStamped

=============================================================================
