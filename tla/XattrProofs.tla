---------------------------- MODULE XattrProofs ----------------------------
(***************************************************************************)
(* Proofs about extended attributes: clients get back what they have set,  *)
(* and a checkpoint keeps the values that were not set since, for all      *)
(* names, values and addresses.  The argument is one of separation: until  *)
(* a restore that follows a setxattr, no two names have the same buffer,   *)
(* and the buffer a checkpoint shares with the inode is touched only under *)
(* the same name.                                                          *)
(***************************************************************************)
EXTENDS Xattr, SequenceTheorems, TLAPS

-----------------------------------------------------------------------------
(* The inductive invariant *)

\* A map from attribute names to slots.
IsMap(map) == DOMAIN map \subseteq Attr /\ map \in [DOMAIN map -> Slots]

\* The types of the variables.
TypeInv ==
  /\ IsMap(m_xattr) /\ (stored = NoCopy \/ IsMap(stored))
  /\ DOMAIN heap \subseteq Addr /\ \A a \in DOMAIN heap : heap[a] \in Seq(Byte)
  /\ DOMAIN expect = {"live", "saved", "since", "known"}

\* The value expected under a name: an entry that a failed setxattr left is
\* empty.
ValueOf(live, n) == IF n \in DOMAIN live THEN live[n].value ELSE <<>>

\* size is the one recorded for what was set under n.
SizeAt(live, n, size) ==
  IF n \in DOMAIN live
  THEN live[n].value \in Seq(Byte) /\ live[n].longest = size /\ Len(live[n].value) <= size
  ELSE size = 0

\* live is of names of the map, and the map has the sizes.
SizesOf(map, live) ==
  /\ DOMAIN live \subseteq DOMAIN map
  /\ \A n \in DOMAIN map : SizeAt(live, n, map[n].second)

\* size bytes that begin with the value.
Fits(bytes, size, value) == Len(bytes) = size /\ \A i \in DOMAIN value : bytes[i] = value[i]

\* The state file has the sizes and, if they were known, the values expected.
ImageInv ==
  image # NoCopy =>
    /\ DOMAIN image.live \subseteq DOMAIN image.bytes /\ DOMAIN image.bytes \subseteq Attr
    /\ \A n \in DOMAIN image.bytes :
         /\ image.bytes[n] \in Seq(Byte) /\ SizeAt(image.live, n, Len(image.bytes[n]))
         /\ image.known => Fits(image.bytes[n], Len(image.bytes[n]), ValueOf(image.live, n))

\* The size recorded for a name is that of the longest value set.
SizesInv ==
  /\ SizesOf(m_xattr, expect.live)
  /\ stored # NoCopy => SizesOf(stored, expect.saved.live)
  /\ ImageInv

\* The entry has no buffer and no size, or a buffer of its size that begins
\* with the value.
Holds(h, entry, value) ==
  \/ entry.first = Null /\ entry.second = 0
  \/ entry.first \in DOMAIN h /\ Fits(h[entry.first], entry.second, value)

\* The buffers of two entries are not the same.
Apart(e, f) == e.first = Null \/ e.first # f.first

\* What was read under n when the checkpoint was made.
Word(saved, n) == CHOOSE w : saved.read[n] = {w}

\* The checkpoint was made of slots that share no memory, and read as expected.
IsSaved(copy, saved) ==
  /\ \A n, k \in DOMAIN copy : n # k => Apart(copy[n], copy[k])
  /\ \A n \in DOMAIN copy :
       /\ saved.read[n] = {Word(saved, n)} /\ Word(saved, n) \in Seq(Byte)
       /\ Fits(Word(saved, n), copy[n].second, ValueOf(saved.live, n))

\* While the bytes are known, each slot holds the value expected, and no two
\* share memory but those of one name in the inode and in the checkpoint.
HeapInv ==
  expect.known =>
    /\ \A n \in DOMAIN m_xattr : Holds(heap, m_xattr[n], ValueOf(expect.live, n))
    /\ \A n, k \in DOMAIN m_xattr : n # k => Apart(m_xattr[n], m_xattr[k])
    /\ stored # NoCopy =>
         /\ IsSaved(stored, expect.saved)
         /\ \A n \in DOMAIN stored \ expect.since :
              /\ Holds(heap, stored[n], Word(expect.saved, n))
              /\ \A k \in DOMAIN m_xattr \ {n} : Apart(stored[n], m_xattr[k])

\* The inductive invariant.
ValuesInv == TypeInv /\ SizesInv /\ HeapInv

-----------------------------------------------------------------------------
(* Maps, buffers and values *)

\* new is the map with entry under name.
IsWith(new, map, name, entry) ==
  /\ DOMAIN new = DOMAIN map \cup {name} /\ new[name] = entry
  /\ \A n \in DOMAIN map \ {name} : new[n] = map[n]

\* What With gives for each name.
LEMMA WithAt ==
  ASSUME NEW map, NEW name, NEW entry
  PROVE  IsWith(With(map, name, entry), map, name, entry)
  BY Zenon DEF With, IsWith

\* What Without gives for each name.
LEMMA WithoutAt ==
  ASSUME NEW map, NEW name
  PROVE  /\ DOMAIN Without(map, name) = DOMAIN map \ {name}
         /\ \A n \in DOMAIN map \ {name} : Without(map, name)[n] = map[n]
  BY Zenon DEF Without, Restrict

\* A map with one more entry is a map.
LEMMA MapWith ==
  ASSUME NEW map, IsMap(map), NEW name \in Attr, NEW entry \in Slots
  PROVE  IsMap(With(map, name, entry))
  BY DEF With, IsMap

\* A map without an entry is a map.
LEMMA MapWithout ==
  ASSUME NEW map, IsMap(map), NEW name
  PROVE  IsMap(Without(map, name))
  BY DEF Without, Restrict, IsMap

\* A map is not NoCopy.
LEMMA MapIsCopy == ASSUME NEW map, IsMap(map) PROVE map # NoCopy
  BY XattrAssumption, Zenon DEF IsMap

\* The slot of a name is a slot, whether the name is set or not.
LEMMA SlotType == ASSUME TypeInv, NEW name PROVE Slot(name) \in Slots
<1>1. [first |-> Null, second |-> 0] \in Slots
  BY DEF Slots
<1> QED
  BY <1>1, Zenon DEF TypeInv, IsMap, Slot

\* What is left of the heap: every buffer that an entry of the maps points to.
Covers(r, h, map, copy) ==
  /\ DOMAIN r \subseteq DOMAIN h /\ \A a \in DOMAIN r : r[a] = h[a]
  /\ \A n \in DOMAIN map : map[n].first \in DOMAIN h => map[n].first \in DOMAIN r
  /\ copy # NoCopy =>
       \A n \in DOMAIN copy : copy[n].first \in DOMAIN h => copy[n].first \in DOMAIN r

\* What is reachable covers the slots of both maps.
LEMMA ReachableCovers ==
  ASSUME NEW h, NEW map, IsMap(map), NEW copy
  PROVE  Covers(Reachable(h, map, copy), h, map, copy)
<1>1. map # NoCopy
  BY MapIsCopy, Zenon
<1> QED
  BY <1>1, Zenon DEF Reachable, Restrict, Pointers, Covers

\* A slot holds the same value in the part of the heap that is kept.
LEMMA CoversHolds ==
  ASSUME NEW r, NEW h, NEW map, NEW copy, Covers(r, h, map, copy)
  PROVE  /\ \A n \in DOMAIN map : \A v : Holds(h, map[n], v) => Holds(r, map[n], v)
         /\ copy # NoCopy =>
              \A n \in DOMAIN copy : \A v : Holds(h, copy[n], v) => Holds(r, copy[n], v)
  BY Zenon DEF Covers, Holds

\* value over the start of a buffer is as long as the buffer.
LEMMA OverType ==
  ASSUME NEW buf \in Seq(Byte), NEW value \in Seq(Byte)
  PROVE  Over(buf, value) \in Seq(Byte) /\ Len(Over(buf, value)) = Len(buf)
<1>1. Len(buf) \in Nat /\ DOMAIN buf = 1..Len(buf)
  OBVIOUS
<1>2. Over(buf, value) \in [1..Len(buf) -> Byte]
  BY <1>1 DEF Over
<1> DEFINE o == Over(buf, value)
<1> HIDE DEF o
<1> QED
  BY <1>1, <1>2 DEF o

\* And it begins with the value.
LEMMA OverFits ==
  ASSUME NEW buf \in Seq(Byte), NEW value \in Seq(Byte), Len(value) <= Len(buf)
  PROVE  Fits(Over(buf, value), Len(buf), value)
<1>1. \A i \in DOMAIN value : i \in DOMAIN buf
  OBVIOUS
<1>2. \A i \in DOMAIN value : Over(buf, value)[i] = value[i]
  BY <1>1, Zenon DEF Over
<1> QED
  BY <1>2, OverType, Zenon DEF Fits

\* The value expected under a name is not longer than the size recorded.
LEMMA ValueOfType ==
  ASSUME NEW live, NEW n, NEW size \in Nat, SizeAt(live, n, size)
  PROVE  ValueOf(live, n) \in Seq(Byte) /\ Len(ValueOf(live, n)) <= size
<1>1. CASE n \in DOMAIN live
  BY <1>1, Zenon DEF SizeAt, ValueOf
<1>2. CASE n \notin DOMAIN live
  <2>1. ValueOf(live, n) = <<>>
    BY <1>2, Zenon DEF ValueOf
  <2> QED
    BY <2>1
<1> QED
  BY <1>1, <1>2

\* A value is a sequence of bytes.
LEMMA ValuesAreBytes == ASSUME NEW value \in Value PROVE value \in Seq(Byte)
  BY XattrAssumption, Zenon

\* What clients know after setting a value, by whether the buffer is large
\* enough: the sizes they know are those of the slots.
LEMMA KnownSize ==
  ASSUME TypeInv, SizesInv, NEW name, NEW value \in Seq(Byte)
  PROVE  Known(expect.live, name, value) =
           [value |-> value,
            longest |-> IF Slot(name).second < Len(value) THEN Len(value) ELSE Slot(name).second]
<1> DEFINE size == Slot(name).second
           live == expect.live
<1>1. size \in Nat /\ Len(value) \in Nat
  BY SlotType DEF Slots
<1>2. CASE name \in DOMAIN live
  <2>1. live[name].longest = size
    BY <1>2, Zenon DEF SizesInv, SizesOf, SizeAt, Slot
  <2> HIDE DEF size, live
  <2>2. (IF name \in DOMAIN live /\ live[name].longest > Len(value)
         THEN live[name].longest ELSE Len(value))
          = IF size < Len(value) THEN Len(value) ELSE size
    BY <1>1, <1>2, <2>1
  <2> QED
    BY <2>2, Zenon DEF Known, size, live
<1>3. CASE name \notin DOMAIN live
  <2>1. size = 0
    <3>1. CASE name \in DOMAIN m_xattr
      BY <1>3, <3>1, Zenon DEF SizesInv, SizesOf, SizeAt, Slot
    <3>2. CASE name \notin DOMAIN m_xattr
      BY <3>2 DEF Slot
    <3> QED
      BY <3>1, <3>2
  <2> HIDE DEF size, live
  <2>2. (IF name \in DOMAIN live /\ live[name].longest > Len(value)
         THEN live[name].longest ELSE Len(value))
          = IF size < Len(value) THEN Len(value) ELSE size
    BY <1>1, <1>3, <2>1
  <2> QED
    BY <2>2, Zenon DEF Known, size, live
<1> QED
  BY <1>2, <1>3, Zenon

-----------------------------------------------------------------------------
(* Setting a value *)

\* The buffers of the other names in heap h, and the checkpoint's that were
\* not set since, are as they were.
KeptFor(h, name) ==
  /\ \A k \in DOMAIN m_xattr \ {name} : Holds(h, m_xattr[k], ValueOf(expect.live, k))
  /\ stored # NoCopy =>
       \A n \in DOMAIN stored \ (expect.since \cup {name}) :
         Holds(h, stored[n], Word(expect.saved, n))

\* entry shares no memory with the slots of other names.
ApartFrom(entry, name) ==
  /\ \A k \in DOMAIN m_xattr \ {name} : Apart(entry, m_xattr[k]) /\ Apart(m_xattr[k], entry)
  /\ stored # NoCopy =>
       \A n \in DOMAIN stored \ (expect.since \cup {name}) : Apart(stored[n], entry)

\* The type of a heap.
HeapType(h) == DOMAIN h \subseteq Addr /\ \A a \in DOMAIN h : h[a] \in Seq(Byte)

\* v is what is expected under name from now on, and size the longest.
NewExpect(name, v, size) ==
  /\ DOMAIN expect' = {"live", "saved", "since", "known"}
  /\ expect'.live = With(expect.live, name, [value |-> v, longest |-> size])
  /\ expect'.saved = expect.saved /\ expect'.known = expect.known
  /\ stored # NoCopy => expect'.since = expect.since \cup {name}

\* A slot that holds its value apart from the others keeps the invariant.
LEMMA SetKeeps ==
  ASSUME ValuesInv, NEW name \in Attr, NEW entry \in Slots, NEW v \in Seq(Byte),
         Len(v) <= entry.second, m_xattr' = With(m_xattr, name, entry),
         NewExpect(name, v, entry.second), UNCHANGED <<stored, image>>, HeapType(heap'),
         expect.known => Holds(heap', entry, v) /\ KeptFor(heap', name) /\ ApartFrom(entry, name)
  PROVE  ValuesInv'
<1> DEFINE new == [value |-> v, longest |-> entry.second]
<1>1. /\ DOMAIN m_xattr' = DOMAIN m_xattr \cup {name} /\ m_xattr'[name] = entry
      /\ \A n \in DOMAIN m_xattr \ {name} : m_xattr'[n] = m_xattr[n]
  <2>1. IsWith(m_xattr', m_xattr, name, entry)
    BY WithAt, Zenon
  <2> QED
    BY <2>1, Zenon DEF IsWith
<1>2. /\ DOMAIN expect'.live = DOMAIN expect.live \cup {name} /\ expect'.live[name] = new
      /\ \A n \in DOMAIN expect.live \ {name} : expect'.live[n] = expect.live[n]
      /\ expect'.saved = expect.saved /\ expect'.known = expect.known
  <2>1. expect'.live = With(expect.live, name, new) /\ expect'.saved = expect.saved
        /\ expect'.known = expect.known
    BY Zenon DEF NewExpect
  <2> HIDE DEF new
  <2>2. IsWith(expect'.live, expect.live, name, new)
    BY <2>1, WithAt, Zenon
  <2> QED
    BY <2>1, <2>2, Zenon DEF IsWith
<1>3. new.value = v /\ new.longest = entry.second
  OBVIOUS
<1> HIDE DEF new
<1>4. /\ ValueOf(expect'.live, name) = v /\ SizeAt(expect'.live, name, entry.second)
      /\ \A n \in DOMAIN m_xattr \ {name} :
           /\ ValueOf(expect'.live, n) = ValueOf(expect.live, n)
           /\ \A size : SizeAt(expect.live, n, size) => SizeAt(expect'.live, n, size)
  BY <1>2, <1>3, Zenon DEF ValueOf, SizeAt
<1>5. TypeInv'
  <2>1. IsMap(m_xattr')
    BY MapWith, Zenon DEF ValuesInv, TypeInv
  <2> QED
    BY <2>1, Zenon DEF ValuesInv, TypeInv, HeapType, NewExpect, IsMap
<1>6. SizesInv'
  <2>1. SizesOf(m_xattr', expect'.live)
    BY <1>1, <1>2, <1>4, Zenon DEF ValuesInv, SizesInv, SizesOf
  <2>2. stored' # NoCopy => SizesOf(stored', expect'.saved.live)
    BY <1>2, Zenon DEF ValuesInv, SizesInv
  <2>3. ImageInv'
    BY Zenon DEF ValuesInv, SizesInv, ImageInv
  <2> QED
    BY <2>1, <2>2, <2>3, Zenon DEF SizesInv, SizesOf
<1>7. ASSUME expect.known PROVE HeapInv'
  <2>1. \A n \in DOMAIN m_xattr' : Holds(heap', m_xattr'[n], ValueOf(expect'.live, n))
    BY <1>1, <1>4, <1>7, Zenon DEF KeptFor
  <2>2. \A n, k \in DOMAIN m_xattr' : n # k => Apart(m_xattr'[n], m_xattr'[k])
    BY <1>1, <1>7 DEF ValuesInv, HeapInv, ApartFrom
  <2>3. ASSUME stored # NoCopy, NEW n \in DOMAIN stored \ expect'.since
        PROVE  /\ Holds(heap', stored[n], Word(expect'.saved, n))
               /\ \A k \in DOMAIN m_xattr' \ {n} : Apart(stored[n], m_xattr'[k])
    <3>1. n \in DOMAIN stored \ (expect.since \cup {name}) /\ n \in DOMAIN stored \ expect.since
      BY <2>3, Zenon DEF NewExpect
    <3>2. Holds(heap', stored[n], Word(expect.saved, n)) /\ Apart(stored[n], entry)
      BY <1>7, <2>3, <3>1, Zenon DEF KeptFor, ApartFrom
    <3>3. \A k \in DOMAIN m_xattr \ {n} : Apart(stored[n], m_xattr[k])
      BY <1>7, <2>3, <3>1, Zenon DEF ValuesInv, HeapInv
    <3> QED
      BY <1>1, <1>2, <3>2, <3>3, Zenon
  <2>4. stored # NoCopy => IsSaved(stored, expect'.saved)
    BY <1>2, <1>7, Zenon DEF ValuesInv, HeapInv
  <2> QED
    BY <2>1, <2>2, <2>3, <2>4, Zenon DEF HeapInv
<1>8. HeapInv'
  BY <1>2, <1>7, Zenon DEF HeapInv
<1> QED
  BY <1>5, <1>6, <1>8, Zenon DEF ValuesInv

\* What is expected once a value is set.
LEMMA IsSetExpects ==
  ASSUME TypeInv, SizesInv, NEW name, NEW value \in Seq(Byte), IsSet(name, value)
  PROVE  NewExpect(name, value,
           IF Slot(name).second < Len(value) THEN Len(value) ELSE Slot(name).second)
<1> DEFINE s == IF stored = NoCopy THEN {} ELSE expect.since \cup {name}
           l == With(expect.live, name, Known(expect.live, name, value))
<1>1. expect' = [expect EXCEPT !.live = l, !.since = s]
  BY Zenon DEF IsSet
<1>2. l = With(expect.live, name, [value |-> value,
            longest |-> IF Slot(name).second < Len(value) THEN Len(value) ELSE Slot(name).second])
  BY KnownSize, Zenon
<1>3. stored # NoCopy => s = expect.since \cup {name}
  BY Zenon
<1> HIDE DEF s, l
<1>4. DOMAIN expect' = {"live", "saved", "since", "known"} /\ expect'.live = l
      /\ expect'.saved = expect.saved /\ expect'.since = s /\ expect'.known = expect.known
  BY <1>1 DEF TypeInv
<1> QED
  BY <1>2, <1>3, <1>4, Zenon DEF NewExpect

\* While bytes are known, the buffers of the other names and those that the
\* checkpoint has of names not set since are not the one of this name.
NotAt(p, entry) ==
  (entry.first = Null /\ entry.second = 0) \/ (entry.first \in DOMAIN heap /\ entry.first # p)
\* No other slot is at p.
OthersNotAt(p, name) ==
  /\ \A k \in DOMAIN m_xattr \ {name} : NotAt(p, m_xattr[k])
  /\ stored # NoCopy =>
       \A n \in DOMAIN stored \ (expect.since \cup {name}) : NotAt(p, stored[n])

\* While bytes are known, no other slot is where the slot of name is.
LEMMA Separate ==
  ASSUME ValuesInv, expect.known, NEW name
  PROVE  OthersNotAt(Slot(name).first, name)
<1>1. Null \notin DOMAIN heap
  BY XattrAssumption, Zenon DEF ValuesInv, TypeInv
<1>2. name \notin DOMAIN m_xattr => Slot(name).first = Null
  BY DEF Slot
<1>3. name \in DOMAIN m_xattr => Slot(name) = m_xattr[name]
  BY Zenon DEF Slot
<1>4. ASSUME stored # NoCopy, NEW n \in DOMAIN stored \ (expect.since \cup {name})
      PROVE  NotAt(Slot(name).first, stored[n])
  <2>1. /\ Holds(heap, stored[n], Word(expect.saved, n))
        /\ name \in DOMAIN m_xattr => Apart(stored[n], m_xattr[name])
    BY <1>4, Zenon DEF ValuesInv, HeapInv
  <2> QED
    BY <1>1, <1>2, <1>3, <2>1, Zenon DEF Holds, Apart, NotAt
<1>5. ASSUME NEW k \in DOMAIN m_xattr \ {name}
      PROVE  NotAt(Slot(name).first, m_xattr[k])
  <2>1. /\ Holds(heap, m_xattr[k], ValueOf(expect.live, k))
        /\ name \in DOMAIN m_xattr => Apart(m_xattr[k], m_xattr[name])
    BY Zenon DEF ValuesInv, HeapInv
  <2> QED
    BY <1>1, <1>2, <1>3, <2>1, Zenon DEF Holds, Apart, NotAt
<1> QED
  BY <1>4, <1>5, Zenon DEF OthersNotAt

\* A step that changes none of the variables keeps the invariant.
LEMMA Unchanged ==
  ASSUME ValuesInv, UNCHANGED <<heap, m_xattr, stored, image, expect>>
  PROVE  ValuesInv'
<1>1. TypeInv'
  BY Zenon DEF ValuesInv, TypeInv, IsMap
<1>2. SizesInv'
  BY Zenon DEF ValuesInv, SizesInv, SizesOf, ImageInv
<1>3. HeapInv'
  BY Zenon DEF ValuesInv, HeapInv
<1> QED
  BY <1>1, <1>2, <1>3, Zenon DEF ValuesInv

\* setxattr of a longer value, in memory of its own, keeps the invariant.
LEMMA ReallocatedKeeps ==
  ASSUME ValuesInv, NEW name \in Attr, NEW value \in Value, Slot(name).second < Len(value),
         Reallocated(name, value), UNCHANGED <<stored, image>>
  PROVE  ValuesInv'
<1> DEFINE old == Slot(name).first
<1>1. CASE old # Null /\ old \notin DOMAIN heap
  <2>1. UNCHANGED <<heap, m_xattr, expect>>
    BY <1>1, Zenon DEF Reallocated
  <2> QED
    BY <2>1, Unchanged, Zenon
<1>2. CASE ~(old # Null /\ old \notin DOMAIN heap)
  <2>1. PICK addr \in (Addr \ DOMAIN heap) \cup ({old} \ {Null}) :
          /\ m_xattr' = With(m_xattr, name, Grow(name, value, addr))
          /\ heap' = Reachable(With(Without(heap, old), addr, value), m_xattr', stored)
    BY <1>2, Zenon DEF Reallocated
  <2> DEFINE entry == Grow(name, value, addr)
             g == With(Without(heap, old), addr, value)
  <2>2. value \in Seq(Byte) /\ TypeInv /\ SizesInv /\ HeapType(heap)
    BY ValuesAreBytes, Zenon DEF ValuesInv, TypeInv, HeapType
  <2>3. addr \in Addr /\ addr # Null
    BY <1>2, <2>2, XattrAssumption, Zenon DEF HeapType
  <2>4. entry.first = addr /\ entry.second = Len(value) /\ entry \in Slots
    BY <2>2, <2>3 DEF Grow, Slots
  <2> HIDE DEF entry
  <2>5. NewExpect(name, value, entry.second)
    BY <1>2, <2>2, <2>4, IsSetExpects, Zenon DEF Reallocated
  <2>6. m_xattr' = With(m_xattr, name, entry)
    BY <2>1, Zenon DEF entry
  <2>7. IsMap(m_xattr') /\ IsWith(m_xattr', m_xattr, name, entry)
    BY <2>2, <2>4, <2>6, MapWith, WithAt, Zenon DEF TypeInv
  <2>8. Covers(heap', g, m_xattr', stored)
    BY <2>1, <2>7, ReachableCovers, Zenon
  <2>9. /\ DOMAIN g = (DOMAIN heap \ {old}) \cup {addr} /\ g[addr] = value
        /\ \A a \in DOMAIN heap \ {old, addr} : g[a] = heap[a]
    <3>1. IsWith(g, Without(heap, old), addr, value)
      BY WithAt, Zenon
    <3>2. DOMAIN Without(heap, old) = DOMAIN heap \ {old}
          /\ \A a \in DOMAIN heap \ {old} : Without(heap, old)[a] = heap[a]
      BY WithoutAt, Zenon
    <3> HIDE DEF g
    <3> QED
      BY <3>1, <3>2, Zenon DEF IsWith
  <2> HIDE DEF g
  <2>10. HeapType(heap')
    <3>1. DOMAIN g \subseteq Addr /\ \A a \in DOMAIN g : g[a] \in Seq(Byte)
      BY <2>2, <2>3, <2>9, Zenon DEF HeapType
    <3> QED
      BY <2>8, <3>1, Zenon DEF HeapType, Covers
  <2>11. ASSUME expect.known
         PROVE  Holds(heap', entry, value) /\ KeptFor(heap', name) /\ ApartFrom(entry, name)
    <3>1. OthersNotAt(old, name)
      BY <2>11, Separate, Zenon
    <3> HIDE DEF old
    <3>2. addr = old \/ addr \notin DOMAIN heap
      BY Zenon
    <3>3. Holds(g, m_xattr'[name], value)
      BY <2>4, <2>7, <2>9, Zenon DEF Holds, IsWith, Fits
    <3>4. Holds(heap', entry, value)
      BY <2>7, <2>8, <3>3, CoversHolds, Zenon DEF IsWith
    <3>5. \A k \in DOMAIN m_xattr \ {name} : Holds(g, m_xattr[k], ValueOf(expect.live, k))
      <4>1. \A k \in DOMAIN m_xattr \ {name} : Holds(heap, m_xattr[k], ValueOf(expect.live, k))
        BY <2>11, Zenon DEF ValuesInv, HeapInv
      <4> QED
        BY <2>9, <3>1, <3>2, <4>1, Zenon DEF Holds, OthersNotAt, NotAt
    <3>6. ASSUME stored # NoCopy, NEW n \in DOMAIN stored \ (expect.since \cup {name})
          PROVE  Holds(g, stored[n], Word(expect.saved, n))
      <4>1. Holds(heap, stored[n], Word(expect.saved, n))
        BY <2>11, <3>6, Zenon DEF ValuesInv, HeapInv
      <4> QED
        BY <2>9, <3>1, <3>2, <3>6, <4>1, Zenon DEF Holds, OthersNotAt, NotAt
    <3>7. KeptFor(heap', name)
      <4>1. \A k \in DOMAIN m_xattr \ {name} : k \in DOMAIN m_xattr' /\ m_xattr'[k] = m_xattr[k]
        BY <2>7, Zenon DEF IsWith
      <4>2. /\ \A n \in DOMAIN m_xattr' : \A v : Holds(g, m_xattr'[n], v) => Holds(heap', m_xattr'[n], v)
            /\ stored # NoCopy =>
                 \A n \in DOMAIN stored : \A v : Holds(g, stored[n], v) => Holds(heap', stored[n], v)
        BY <2>8, CoversHolds, Zenon
      <4>3. \A k \in DOMAIN m_xattr \ {name} : Holds(heap', m_xattr[k], ValueOf(expect.live, k))
        BY <3>5, <4>1, <4>2, Zenon
      <4>4. stored # NoCopy => \A n \in DOMAIN stored \ (expect.since \cup {name}) :
              Holds(heap', stored[n], Word(expect.saved, n))
        BY <3>6, <4>2, Zenon
      <4> QED
        BY <4>3, <4>4, Zenon DEF KeptFor
    <3>8. ApartFrom(entry, name)
      BY <2>3, <2>4, <3>1, <3>2, Zenon DEF ApartFrom, Apart, OthersNotAt, NotAt
    <3> QED
      BY <3>4, <3>7, <3>8, Zenon
  <2>12. Len(value) <= entry.second
    BY <2>2, <2>4
  <2> QED
    BY <2>2, <2>4, <2>5, <2>6, <2>10, <2>11, <2>12, SetKeeps, Zenon
<1> QED
  BY <1>1, <1>2, Zenon

\* setxattr of a value that the buffer has room for keeps the invariant.
LEMMA OverwrittenKeeps ==
  ASSUME ValuesInv, NEW name \in Attr, NEW value \in Value, ~(Slot(name).second < Len(value)),
         Overwritten(name, value), UNCHANGED <<stored, image>>
  PROVE  ValuesInv'
<1> DEFINE entry == Slot(name)
           p == entry.first
<1>1. /\ TypeInv /\ SizesInv /\ HeapType(heap) /\ entry \in Slots
      /\ value \in Seq(Byte) /\ NewExpect(name, value, entry.second)
  <2>1. value \in Seq(Byte) /\ TypeInv /\ SizesInv /\ HeapType(heap)
    BY ValuesAreBytes, Zenon DEF ValuesInv, TypeInv, HeapType
  <2> QED
    BY <2>1, SlotType, IsSetExpects, Zenon DEF Overwritten
<1>2. Len(value) <= entry.second
  BY <1>1 DEF Slots
<1>3. /\ DOMAIN heap' = DOMAIN heap /\ \A a \in DOMAIN heap \ {p} : heap'[a] = heap[a]
      /\ p \in DOMAIN heap => heap'[p] = Over(heap[p], value)
  <2>1. heap' = IF p \in DOMAIN heap THEN [heap EXCEPT ![p] = Over(@, value)] ELSE heap
    BY Zenon DEF Overwritten
  <2> HIDE DEF p
  <2> QED
    BY <2>1, Zenon
<1>4. HeapType(heap')
  <2>1. p \in DOMAIN heap => Over(heap[p], value) \in Seq(Byte)
    BY <1>1, OverType, Zenon DEF HeapType
  <2> HIDE DEF p
  <2> QED
    BY <1>1, <1>3, <2>1, Zenon DEF HeapType
<1>5. ASSUME expect.known
      PROVE  Holds(heap', entry, value) /\ KeptFor(heap', name) /\ ApartFrom(entry, name)
  <2>1. OthersNotAt(p, name)
    BY <1>5, Separate, Zenon
  <2>2. Holds(heap', entry, value)
    <3>1. CASE name \in DOMAIN m_xattr
      <4>1. entry = m_xattr[name] /\ Holds(heap, entry, ValueOf(expect.live, name))
        BY <1>5, <3>1, Zenon DEF ValuesInv, HeapInv, Slot
      <4> HIDE DEF entry
      <4>2. CASE entry.first = Null /\ entry.second = 0
        BY <4>2, Zenon DEF Holds
      <4>3. CASE p \in DOMAIN heap /\ Len(heap[p]) = entry.second
        <5>1. heap[p] \in Seq(Byte)
          BY <1>1, <4>3, Zenon DEF HeapType
        <5>2. Fits(Over(heap[p], value), entry.second, value)
          <6>1. Len(value) <= Len(heap[p])
            BY <1>2, <4>3, Zenon
          <6> QED
            BY <1>1, <4>3, <5>1, <6>1, OverFits, Zenon
        <5> QED
          BY <1>3, <4>3, <5>2, Zenon DEF Holds
      <4> QED
        BY <4>1, <4>2, <4>3, Zenon DEF Holds, Fits
    <3>2. CASE name \notin DOMAIN m_xattr
      <4>1. entry.first = Null /\ entry.second = 0
        BY <3>2 DEF Slot
      <4> QED
        BY <4>1, Zenon DEF Holds
    <3> QED
      BY <3>1, <3>2, Zenon
  <2> HIDE DEF p
  <2>3. KeptFor(heap', name)
    <3>1. \A k \in DOMAIN m_xattr \ {name} : Holds(heap, m_xattr[k], ValueOf(expect.live, k))
      BY <1>5, Zenon DEF ValuesInv, HeapInv
    <3>2. \A k \in DOMAIN m_xattr \ {name} : Holds(heap', m_xattr[k], ValueOf(expect.live, k))
      BY <1>3, <2>1, <3>1, Zenon DEF Holds, OthersNotAt, NotAt
    <3>3. ASSUME stored # NoCopy, NEW n \in DOMAIN stored \ (expect.since \cup {name})
          PROVE  Holds(heap', stored[n], Word(expect.saved, n))
      <4>1. Holds(heap, stored[n], Word(expect.saved, n))
        BY <1>5, <3>3, Zenon DEF ValuesInv, HeapInv
      <4> QED
        BY <1>3, <2>1, <3>3, <4>1, Zenon DEF Holds, OthersNotAt, NotAt
    <3> QED
      BY <3>2, <3>3, Zenon DEF KeptFor
  <2>4. ApartFrom(entry, name)
    BY <2>1, Zenon DEF ApartFrom, Apart, p, OthersNotAt, NotAt
  <2> QED
    BY <2>2, <2>3, <2>4, Zenon
<1>6. m_xattr' = With(m_xattr, name, entry)
  BY Zenon DEF Overwritten
<1> HIDE DEF entry
<1> QED
  BY <1>1, <1>2, <1>4, <1>5, <1>6, SetKeeps, Zenon

\* setxattr without memory leaves an entry, which is new and empty or as it was.
LEMMA NoMemoryKeeps ==
  ASSUME ValuesInv, NEW name \in Attr, NoMemory(name), UNCHANGED <<stored, image>>
  PROVE  ValuesInv'
<1>1. /\ TypeInv /\ SizesInv /\ HeapInv /\ UNCHANGED <<heap, expect>>
      /\ m_xattr' = With(m_xattr, name, Slot(name))
  BY Zenon DEF ValuesInv, NoMemory
<1>2. Slot(name) \in Slots
  BY <1>1, SlotType, Zenon
<1>3. IsMap(m_xattr') /\ IsWith(m_xattr', m_xattr, name, Slot(name))
  BY <1>1, <1>2, MapWith, WithAt, Zenon DEF TypeInv
<1>4. /\ name \in DOMAIN m_xattr => Slot(name) = m_xattr[name]
      /\ name \notin DOMAIN m_xattr => Slot(name).first = Null /\ Slot(name).second = 0
  BY DEF Slot
<1>5. /\ DOMAIN m_xattr' = DOMAIN m_xattr \cup {name}
      /\ \A n \in DOMAIN m_xattr' :
           (n \in DOMAIN m_xattr /\ m_xattr'[n] = m_xattr[n])
             \/ (n \notin DOMAIN m_xattr /\ m_xattr'[n].first = Null /\ m_xattr'[n].second = 0)
  BY <1>3, <1>4, Zenon DEF IsWith
<1>6. TypeInv'
  BY <1>1, <1>3, Zenon DEF TypeInv, IsMap
<1>7. SizesInv'
  <2>1. SizesOf(m_xattr', expect.live)
    <3>1. ASSUME NEW n \in DOMAIN m_xattr' PROVE SizeAt(expect.live, n, m_xattr'[n].second)
      BY <1>1, <1>5, Zenon DEF SizesInv, SizesOf, SizeAt
    <3> QED
      BY <1>1, <1>5, <3>1, Zenon DEF SizesInv, SizesOf
  <2> QED
    BY <1>1, <2>1, Zenon DEF SizesInv, SizesOf, ImageInv
<1>8. ASSUME expect.known PROVE HeapInv'
  <2>1. \A n \in DOMAIN m_xattr' : Holds(heap, m_xattr'[n], ValueOf(expect.live, n))
    BY <1>1, <1>5, <1>8, Zenon DEF HeapInv, Holds
  <2>2. \A e \in Slots : \A n \in DOMAIN m_xattr' :
          (n \in DOMAIN m_xattr => Apart(e, m_xattr[n])) => Apart(e, m_xattr'[n])
    BY <1>5, Zenon DEF Apart
  <2>3. \A n, k \in DOMAIN m_xattr' : n # k => Apart(m_xattr'[n], m_xattr'[k])
    <3> SUFFICES ASSUME NEW n \in DOMAIN m_xattr', NEW k \in DOMAIN m_xattr', n # k
                 PROVE  Apart(m_xattr'[n], m_xattr'[k])
      BY Zenon
    <3>1. CASE n \in DOMAIN m_xattr
      BY <1>1, <1>5, <1>8, <2>2, <3>1, Zenon DEF HeapInv, TypeInv, IsMap
    <3>2. CASE n \notin DOMAIN m_xattr
      BY <1>5, <3>2, Zenon DEF Apart
    <3> QED
      BY <3>1, <3>2, Zenon
  <2>4. ASSUME stored # NoCopy, NEW n \in DOMAIN stored \ expect.since
        PROVE  /\ Holds(heap, stored[n], Word(expect.saved, n))
               /\ \A k \in DOMAIN m_xattr' \ {n} : Apart(stored[n], m_xattr'[k])
    <3>1. stored[n] \in Slots
      BY <1>1, <2>4, Zenon DEF TypeInv, IsMap
    <3>2. Holds(heap, stored[n], Word(expect.saved, n))
          /\ \A k \in DOMAIN m_xattr \ {n} : Apart(stored[n], m_xattr[k])
      BY <1>1, <1>8, <2>4, Zenon DEF HeapInv
    <3> QED
      BY <2>2, <3>1, <3>2, Zenon
  <2> QED
    BY <1>1, <1>8, <2>1, <2>3, <2>4, Zenon DEF HeapInv
<1>9. HeapInv'
  BY <1>1, <1>8, Zenon DEF HeapInv
<1> QED
  BY <1>6, <1>7, <1>9, Zenon DEF ValuesInv

\* setxattr keeps the invariant.
LEMMA SetXAttrKeeps ==
  ASSUME ValuesInv, NEW name \in Attr, NEW value \in Value, NEW flags,
         SetXAttrAndReply(name, value, flags)
  PROVE  ValuesInv'
<1>1. UNCHANGED <<stored, image>>
  BY Zenon DEF SetXAttrAndReply
<1>2. CASE UNCHANGED <<heap, m_xattr, expect>>
  BY <1>1, <1>2, Unchanged, Zenon
<1>3. CASE Slot(name).second < Len(value) /\ Reallocated(name, value)
  BY <1>1, <1>3, ReallocatedKeeps, Zenon
<1>4. CASE NoMemory(name)
  BY <1>1, <1>4, NoMemoryKeeps, Zenon
<1>5. CASE ~(Slot(name).second < Len(value)) /\ Overwritten(name, value)
  BY <1>1, <1>5, OverwrittenKeeps, Zenon
<1> QED
  BY <1>2, <1>3, <1>4, <1>5, Zenon DEF SetXAttrAndReply

-----------------------------------------------------------------------------
(* The other handlers *)

\* removexattr keeps the invariant.
LEMMA RemoveXAttrKeeps ==
  ASSUME ValuesInv, NEW name \in Attr, RemoveXAttrAndReply(name)
  PROVE  ValuesInv'
<1>1. CASE name \notin DOMAIN m_xattr
  BY <1>1, Unchanged, Zenon DEF RemoveXAttrAndReply
<1>2. CASE name \in DOMAIN m_xattr
  <2>1. /\ m_xattr' = Without(m_xattr, name) /\ heap' = Reachable(heap, m_xattr', stored)
        /\ expect' = [expect EXCEPT !.live = Without(@, name)]
        /\ UNCHANGED <<stored, image>>
    BY <1>2, Zenon DEF RemoveXAttrAndReply, Erased
  <2>2. TypeInv /\ SizesInv /\ HeapInv
    BY Zenon DEF ValuesInv
  <2>3. /\ DOMAIN expect' = {"live", "saved", "since", "known"}
        /\ expect'.live = Without(expect.live, name) /\ expect'.saved = expect.saved
        /\ expect'.since = expect.since /\ expect'.known = expect.known
    BY <2>1, <2>2 DEF TypeInv
  <2>4. IsMap(m_xattr') /\ Covers(heap', heap, m_xattr', stored)
    BY <2>1, <2>2, MapWithout, ReachableCovers, Zenon DEF TypeInv
  <2>5. /\ DOMAIN m_xattr' = DOMAIN m_xattr \ {name}
        /\ \A n \in DOMAIN m_xattr' : m_xattr'[n] = m_xattr[n]
    BY <2>1, WithoutAt, Zenon
  <2>6. /\ DOMAIN expect'.live \subseteq DOMAIN m_xattr'
        /\ \A n \in DOMAIN m_xattr' :
             /\ ValueOf(expect'.live, n) = ValueOf(expect.live, n)
             /\ \A size : SizeAt(expect.live, n, size) => SizeAt(expect'.live, n, size)
    <3>1. DOMAIN expect.live \subseteq DOMAIN m_xattr
      BY <2>2, Zenon DEF SizesInv, SizesOf
    <3> DEFINE live == Without(expect.live, name)
    <3>2. /\ DOMAIN live = DOMAIN expect.live \ {name}
          /\ \A n \in DOMAIN expect.live \ {name} : live[n] = expect.live[n]
      BY WithoutAt, Zenon
    <3>3. expect'.live = live
      BY <2>3, Zenon
    <3> HIDE DEF live
    <3> QED
      BY <2>5, <3>1, <3>2, <3>3, Zenon DEF ValueOf, SizeAt
  <2>7. TypeInv'
    BY <2>1, <2>2, <2>3, <2>4, Zenon DEF TypeInv, Covers, IsMap
  <2>8. SizesInv'
    <3>1. SizesOf(m_xattr', expect'.live)
      BY <2>2, <2>5, <2>6, Zenon DEF SizesInv, SizesOf
    <3> QED
      BY <2>1, <2>2, <2>3, <3>1, Zenon DEF SizesInv, ImageInv
  <2>9. ASSUME expect.known PROVE HeapInv'
    <3>1. \A n \in DOMAIN m_xattr' : Holds(heap', m_xattr'[n], ValueOf(expect'.live, n))
      <4>1. \A n \in DOMAIN m_xattr' : Holds(heap, m_xattr'[n], ValueOf(expect'.live, n))
        BY <2>2, <2>5, <2>6, <2>9, Zenon DEF HeapInv
      <4> QED
        BY <2>4, <4>1, CoversHolds, Zenon
    <3>2. \A n, k \in DOMAIN m_xattr' : n # k => Apart(m_xattr'[n], m_xattr'[k])
      BY <2>2, <2>5, <2>9, Zenon DEF HeapInv
    <3>3. ASSUME stored # NoCopy, NEW n \in DOMAIN stored \ expect.since
          PROVE  /\ Holds(heap', stored[n], Word(expect.saved, n))
                 /\ \A k \in DOMAIN m_xattr' \ {n} : Apart(stored[n], m_xattr'[k])
      <4>1. /\ Holds(heap, stored[n], Word(expect.saved, n))
            /\ \A k \in DOMAIN m_xattr \ {n} : Apart(stored[n], m_xattr[k])
        BY <2>2, <2>9, <3>3, Zenon DEF HeapInv
      <4> QED
        BY <2>4, <2>5, <3>3, <4>1, CoversHolds, Zenon
    <3> QED
      BY <2>1, <2>2, <2>3, <2>9, <3>1, <3>2, <3>3, Zenon DEF HeapInv
  <2>10. HeapInv'
    BY <2>3, <2>9, Zenon DEF HeapInv
  <2> QED
    BY <2>7, <2>8, <2>10, Zenon DEF ValuesInv
<1> QED
  BY <1>1, <1>2, Zenon

\* The bytes read from a slot are as many as its size.
LEMMA BytesType ==
  ASSUME HeapType(heap), NEW entry \in Slots, NEW b \in Bytes(entry)
  PROVE  b \in Seq(Byte) /\ Len(b) = entry.second
<1>1. entry.second \in Nat
  BY DEF Slots
<1>2. CASE entry.second = 0
  BY <1>2 DEF Bytes
<1>3. CASE entry.second # 0
  <2>1. PICK p \in DOMAIN heap : Len(heap[p]) >= entry.second /\ b = SubSeq(heap[p], 1, entry.second)
    BY <1>3, Zenon DEF Bytes
  <2>2. heap[p] \in Seq(Byte)
    BY <2>1, Zenon DEF HeapType
  <2> DEFINE s == heap[p]
             n == entry.second
  <2>3. s \in Seq(Byte) /\ n \in Nat /\ Len(s) >= n /\ b = SubSeq(s, 1, n)
    BY <1>1, <2>1, <2>2, Zenon
  <2> HIDE DEF s, n
  <2>4. b \in Seq(Byte) /\ Len(b) = n
    BY <2>3
  <2> QED
    BY <2>4, Zenon DEF n
<1> QED
  BY <1>2, <1>3, Zenon

\* What is read of an entry that holds a value: as many bytes as its size,
\* which begin with the value and which the entry holds, too.
LEMMA BytesHeld ==
  ASSUME HeapType(heap), NEW entry \in Slots, NEW v \in Seq(Byte), Len(v) <= entry.second,
         Holds(heap, entry, v)
  PROVE  \E w \in Seq(Byte) :
           Bytes(entry) = {w} /\ Fits(w, entry.second, v) /\ Holds(heap, entry, w)
<1>1. entry.second \in Nat
  BY DEF Slots
<1>2. CASE entry.second = 0
  <2> DEFINE w == <<>>
  <2>1. w \in Seq(Byte) /\ Len(w) = 0 /\ DOMAIN w = {}
    OBVIOUS
  <2>2. Bytes(entry) = {w}
    BY <1>2, Zenon DEF Bytes
  <2>3. DOMAIN v = {}
    BY <1>2
  <2>4. entry.first = Null \/ (entry.first \in DOMAIN heap /\ Len(heap[entry.first]) = 0)
    BY <1>2, Zenon DEF Holds, Fits
  <2> HIDE DEF w
  <2>5. Fits(w, entry.second, v)
    BY <1>2, <2>1, <2>3, Zenon DEF Fits
  <2>6. Holds(heap, entry, w)
    BY <1>2, <2>1, <2>4, Zenon DEF Holds, Fits
  <2> QED
    BY <2>1, <2>2, <2>5, <2>6, Zenon
<1>3. CASE entry.second # 0
  <2> DEFINE w == heap[entry.first]
  <2>1. entry.first \in DOMAIN heap /\ Fits(w, entry.second, v)
    BY <1>3, Zenon DEF Holds
  <2>2. w \in Seq(Byte) /\ Len(w) = entry.second
    BY <2>1, Zenon DEF HeapType, Fits
  <2> HIDE DEF w
  <2>3. Len(w) >= entry.second /\ SubSeq(w, 1, entry.second) = w
    BY <1>1, <2>2
  <2>4. Bytes(entry) = {w}
    BY <1>3, <2>1, <2>3, Zenon DEF Bytes, w
  <2>5. Holds(heap, entry, w)
    BY <2>1, <2>2, Zenon DEF Holds, Fits, w
  <2> QED
    BY <2>1, <2>2, <2>4, <2>5, Zenon
<1> QED
  BY <1>2, <1>3, Zenon

\* Bytes as long as each other that agree are the same.
LEMMA FitsWhole ==
  ASSUME NEW w \in Seq(Byte), NEW v \in Seq(Byte), Fits(w, Len(v), v)
  PROVE  w = v
<1>1. Len(w) = Len(v) /\ \A i \in DOMAIN v : w[i] = v[i]
  BY Zenon DEF Fits
<1> QED
  BY <1>1

\* What begins with bytes that begin with a value begins with the value.
LEMMA FitsTrans ==
  ASSUME NEW b, NEW w \in Seq(Byte), NEW v \in Seq(Byte), NEW size \in Nat, Len(v) <= size,
         Fits(b, size, w), Fits(w, size, v)
  PROVE  Fits(b, size, v)
<1>1. \A i \in DOMAIN v : i \in DOMAIN w
  BY DEF Fits
<1> QED
  BY <1>1, Zenon DEF Fits

\* The copy constructor shares every buffer with the copy.
LEMMA CheckpointKeeps == ASSUME ValuesInv, checkpoint PROVE ValuesInv'
<1> DEFINE read == [n \in DOMAIN m_xattr |-> Bytes(m_xattr[n])]
           saved == [live |-> expect.live, read |-> read]
<1>1. TypeInv /\ SizesInv /\ HeapInv /\ HeapType(heap)
  BY Zenon DEF ValuesInv, TypeInv, HeapType
<1>2. /\ stored' = m_xattr /\ UNCHANGED <<heap, m_xattr, image>>
      /\ expect' = [expect EXCEPT !.saved = saved, !.since = {}]
  BY Zenon DEF checkpoint
<1>3. saved.live = expect.live /\ saved.read = read /\ \A n \in DOMAIN m_xattr : read[n] = Bytes(m_xattr[n])
  OBVIOUS
<1> HIDE DEF saved, read
<1>4. /\ DOMAIN expect' = {"live", "saved", "since", "known"} /\ expect'.live = expect.live
      /\ expect'.saved = saved /\ expect'.since = {} /\ expect'.known = expect.known
  BY <1>1, <1>2 DEF TypeInv
<1>5. TypeInv'
  BY <1>1, <1>2, <1>4, Zenon DEF TypeInv, IsMap
<1>6. SizesInv'
  BY <1>1, <1>2, <1>3, <1>4, Zenon DEF SizesInv, SizesOf, ImageInv
<1>7. ASSUME expect.known PROVE HeapInv'
  <2>1. ASSUME NEW n \in DOMAIN m_xattr
        PROVE  /\ saved.read[n] = {Word(saved, n)} /\ Word(saved, n) \in Seq(Byte)
               /\ Fits(Word(saved, n), m_xattr[n].second, ValueOf(saved.live, n))
               /\ Holds(heap, m_xattr[n], Word(saved, n))
    <3> DEFINE v == ValueOf(expect.live, n)
    <3>1. m_xattr[n] \in Slots /\ SizeAt(expect.live, n, m_xattr[n].second) /\ Holds(heap, m_xattr[n], v)
      BY <1>1, <1>7, Zenon DEF TypeInv, IsMap, SizesInv, SizesOf, HeapInv
    <3>2. m_xattr[n].second \in Nat
      BY <3>1 DEF Slots
    <3>3. v \in Seq(Byte) /\ Len(v) <= m_xattr[n].second
      BY <3>1, <3>2, ValueOfType, Zenon
    <3> HIDE DEF v
    <3>4. PICK w \in Seq(Byte) : Bytes(m_xattr[n]) = {w} /\ Fits(w, m_xattr[n].second, v)
                                 /\ Holds(heap, m_xattr[n], w)
      BY <1>1, <3>1, <3>3, BytesHeld, Zenon
    <3>5. saved.read[n] = {w}
      BY <1>3, <3>4, Zenon
    <3>6. Word(saved, n) = w
      BY <3>5, Zenon DEF Word
    <3> QED
      BY <1>3, <3>4, <3>5, <3>6, Zenon DEF v
  <2>2. IsSaved(m_xattr, saved)
    BY <1>1, <1>7, <2>1, Zenon DEF HeapInv, IsSaved
  <2> QED
    BY <1>1, <1>2, <1>4, <1>7, <2>1, <2>2, Zenon DEF HeapInv
<1>8. HeapInv'
  BY <1>4, <1>7, Zenon DEF HeapInv
<1> QED
  BY <1>5, <1>6, <1>8, Zenon DEF ValuesInv

\* A restore brings the slots back; if nothing was set since the checkpoint,
\* they hold what they did.
LEMMA RestoreKeeps == ASSUME ValuesInv, restore PROVE ValuesInv'
<1>1. TypeInv /\ SizesInv /\ HeapInv
  BY Zenon DEF ValuesInv
<1>2. /\ stored # NoCopy /\ m_xattr' = stored /\ stored' = NoCopy /\ image' = image
      /\ heap' = Reachable(heap, m_xattr', NoCopy)
      /\ expect' = [live |-> expect.saved.live, saved |-> NoCopy, since |-> {},
                    known |-> expect.known /\ expect.since = {}]
  BY Zenon DEF restore
<1>3. /\ DOMAIN expect' = {"live", "saved", "since", "known"} /\ expect'.live = expect.saved.live
      /\ expect'.known = (expect.known /\ expect.since = {})
  BY <1>2
<1>4. IsMap(stored) /\ SizesOf(stored, expect.saved.live)
  BY <1>1, <1>2, Zenon DEF TypeInv, SizesInv
<1>5. Covers(heap', heap, m_xattr', NoCopy)
  BY <1>2, <1>4, ReachableCovers, Zenon
<1>6. TypeInv'
  BY <1>1, <1>2, <1>3, <1>4, <1>5, Zenon DEF TypeInv, Covers, IsMap
<1>7. SizesInv'
  BY <1>1, <1>2, <1>3, <1>4, Zenon DEF SizesInv, SizesOf, ImageInv
<1>8. ASSUME expect.known, expect.since = {} PROVE HeapInv'
  <2>1. IsSaved(stored, expect.saved)
    BY <1>1, <1>2, <1>8, Zenon DEF HeapInv
  <2>2. ASSUME NEW n \in DOMAIN stored
        PROVE  Holds(heap', stored[n], ValueOf(expect.saved.live, n))
    <3> DEFINE w == Word(expect.saved, n)
               v == ValueOf(expect.saved.live, n)
    <3>1. /\ stored[n] \in Slots /\ SizeAt(expect.saved.live, n, stored[n].second)
          /\ Holds(heap, stored[n], w) /\ w \in Seq(Byte) /\ Fits(w, stored[n].second, v)
      <4>1. n \in DOMAIN stored \ expect.since
        BY <1>8, Zenon
      <4> QED
        BY <1>1, <1>2, <1>4, <1>8, <2>1, <4>1, Zenon DEF IsMap, SizesOf, IsSaved, HeapInv
    <3>2. stored[n].second \in Nat
      BY <3>1 DEF Slots
    <3>3. v \in Seq(Byte) /\ Len(v) <= stored[n].second
      BY <3>1, <3>2, ValueOfType, Zenon
    <3> HIDE DEF v, w
    <3>4. \A b : Fits(b, stored[n].second, w) => Fits(b, stored[n].second, v)
      BY <3>1, <3>2, <3>3, FitsTrans, Zenon
    <3>5. Holds(heap, stored[n], v)
      BY <3>1, <3>4, Zenon DEF Holds
    <3>6. Holds(heap', m_xattr'[n], v)
      BY <1>2, <1>5, <3>5, CoversHolds, Zenon
    <3> QED
      BY <1>2, <3>6, Zenon DEF v
  <2> QED
    BY <1>2, <1>3, <2>1, <2>2, Zenon DEF HeapInv, IsSaved
<1>9. HeapInv'
  BY <1>3, <1>8, Zenon DEF HeapInv
<1> QED
  BY <1>6, <1>7, <1>9, Zenon DEF ValuesInv

\* A pickle writes what the slots hold.
LEMMA PickleKeeps == ASSUME ValuesInv, Pickle PROVE ValuesInv'
<1> DEFINE bytes == [n \in DOMAIN m_xattr |-> CHOOSE b \in Bytes(m_xattr[n]) : TRUE]
<1>1. TypeInv /\ SizesInv /\ HeapInv /\ HeapType(heap)
  BY Zenon DEF ValuesInv, TypeInv, HeapType
<1>2. /\ \A n \in DOMAIN m_xattr : Bytes(m_xattr[n]) # {}
      /\ image' = [bytes |-> bytes, live |-> expect.live, known |-> expect.known]
      /\ UNCHANGED <<heap, m_xattr, stored, expect>>
  BY Zenon DEF Pickle
<1>3. DOMAIN bytes = DOMAIN m_xattr /\ \A n \in DOMAIN m_xattr : bytes[n] \in Bytes(m_xattr[n])
  BY <1>2, Zenon
<1> HIDE DEF bytes
<1>4. image'.bytes = bytes /\ image'.live = expect.live /\ image'.known = expect.known
  BY <1>2
<1>5. ASSUME NEW n \in DOMAIN bytes
      PROVE  /\ bytes[n] \in Seq(Byte) /\ SizeAt(expect.live, n, Len(bytes[n]))
             /\ expect.known => Fits(bytes[n], Len(bytes[n]), ValueOf(expect.live, n))
  <2> DEFINE v == ValueOf(expect.live, n)
  <2>1. m_xattr[n] \in Slots /\ SizeAt(expect.live, n, m_xattr[n].second)
    BY <1>1, <1>3, Zenon DEF TypeInv, IsMap, SizesInv, SizesOf
  <2>2. bytes[n] \in Seq(Byte) /\ Len(bytes[n]) = m_xattr[n].second
    BY <1>1, <1>3, <2>1, BytesType, Zenon
  <2>3. ASSUME expect.known PROVE Fits(bytes[n], Len(bytes[n]), v)
    <3>1. m_xattr[n].second \in Nat
      BY <2>1 DEF Slots
    <3>2. v \in Seq(Byte) /\ Len(v) <= m_xattr[n].second
      BY <2>1, <3>1, ValueOfType, Zenon
    <3>3. Holds(heap, m_xattr[n], v)
      BY <1>1, <1>3, <2>3, Zenon DEF HeapInv
    <3> HIDE DEF v
    <3>4. PICK w \in Seq(Byte) : Bytes(m_xattr[n]) = {w} /\ Fits(w, m_xattr[n].second, v)
      BY <1>1, <2>1, <3>2, <3>3, BytesHeld, Zenon
    <3>5. bytes[n] = w
      BY <1>3, <3>4, Zenon
    <3> QED
      BY <2>2, <3>4, <3>5, Zenon
  <2> QED
    BY <2>1, <2>2, <2>3, Zenon
<1>6. ImageInv'
  <2>1. DOMAIN expect.live \subseteq DOMAIN m_xattr /\ DOMAIN m_xattr \subseteq Attr
    BY <1>1, Zenon DEF SizesInv, SizesOf, TypeInv, IsMap
  <2> QED
    BY <1>3, <1>4, <1>5, <2>1, Zenon DEF ImageInv
<1>7. TypeInv'
  BY <1>1, <1>2, Zenon DEF TypeInv, IsMap
<1>8. SizesInv'
  BY <1>1, <1>2, <1>6, Zenon DEF SizesInv, SizesOf
<1>9. HeapInv'
  BY <1>1, <1>2, Zenon DEF HeapInv
<1> QED
  BY <1>7, <1>8, <1>9, Zenon DEF ValuesInv

\* A load gives every value a buffer of its own.
LEMMA LoadKeeps == ASSUME ValuesInv, Load PROVE ValuesInv'
<1> DEFINE bytes == image.bytes
<1>1. TypeInv /\ SizesInv
  BY Zenon DEF ValuesInv
<1>2. PICK f \in Injection(DOMAIN bytes, Addr) :
        /\ m_xattr' = [n \in DOMAIN bytes |-> [first |-> f[n], second |-> Len(bytes[n])]]
        /\ heap' = [a \in Range(f) |-> bytes[CHOOSE n \in DOMAIN bytes : f[n] = a]]
  BY Zenon DEF Load
<1>3. /\ image # NoCopy /\ stored' = NoCopy /\ image' = image
      /\ expect' = [live |-> image.live, saved |-> NoCopy, since |-> {}, known |-> image.known]
  BY Zenon DEF Load
<1>4. /\ DOMAIN f = DOMAIN bytes /\ \A n \in DOMAIN bytes : f[n] \in Addr
      /\ \A n, k \in DOMAIN bytes : f[n] = f[k] => n = k
  BY DEF Injection, IsInjective
<1>5. /\ DOMAIN image.live \subseteq DOMAIN bytes /\ DOMAIN bytes \subseteq Attr
      /\ \A n \in DOMAIN bytes :
           /\ bytes[n] \in Seq(Byte) /\ SizeAt(image.live, n, Len(bytes[n]))
           /\ image.known => Fits(bytes[n], Len(bytes[n]), ValueOf(image.live, n))
  BY <1>1, <1>3, Zenon DEF SizesInv, ImageInv
<1> HIDE DEF bytes
<1>6. /\ DOMAIN m_xattr' = DOMAIN bytes
      /\ \A n \in DOMAIN bytes : m_xattr'[n].first = f[n] /\ m_xattr'[n].second = Len(bytes[n])
  BY <1>2
<1>7. /\ DOMAIN heap' = Range(f)
      /\ \A n \in DOMAIN bytes : f[n] \in DOMAIN heap' /\ heap'[f[n]] = bytes[n]
      /\ \A a \in DOMAIN heap' : \E n \in DOMAIN bytes : a = f[n]
  <2>1. DOMAIN heap' = Range(f) /\ Range(f) = {f[n] : n \in DOMAIN bytes}
    BY <1>2, <1>4, Zenon DEF Range
  <2>2. ASSUME NEW n \in DOMAIN bytes
        PROVE  f[n] \in Range(f) /\ (CHOOSE k \in DOMAIN bytes : f[k] = f[n]) = n
    BY <1>4, <2>1, Zenon
  <2> QED
    BY <1>2, <2>1, <2>2, Zenon
<1>8. /\ DOMAIN expect' = {"live", "saved", "since", "known"}
      /\ expect'.live = image.live /\ expect'.known = image.known
  BY <1>3
<1>9. IsMap(m_xattr')
  BY <1>2, <1>4, <1>5 DEF IsMap, Slots
<1>10. TypeInv'
  <2>1. DOMAIN heap' \subseteq Addr /\ \A a \in DOMAIN heap' : heap'[a] \in Seq(Byte)
    <3> SUFFICES ASSUME NEW a \in DOMAIN heap' PROVE a \in Addr /\ heap'[a] \in Seq(Byte)
      BY Zenon
    <3>1. PICK n \in DOMAIN bytes : a = f[n]
      BY <1>7, Zenon
    <3> QED
      BY <1>4, <1>5, <1>7, <3>1, Zenon
  <2> QED
    BY <1>1, <1>3, <1>8, <1>9, <2>1, Zenon DEF TypeInv, IsMap
<1>11. SizesInv'
  <2>1. SizesOf(m_xattr', image.live)
    BY <1>5, <1>6, Zenon DEF SizesOf
  <2>2. ImageInv'
    BY <1>1, <1>3, Zenon DEF SizesInv, ImageInv
  <2> QED
    BY <1>3, <1>8, <2>1, <2>2, Zenon DEF SizesInv, SizesOf
<1>12. ASSUME image.known PROVE HeapInv'
  <2>1. \A n \in DOMAIN m_xattr' : Holds(heap', m_xattr'[n], ValueOf(expect'.live, n))
    <3> SUFFICES ASSUME NEW n \in DOMAIN bytes
                 PROVE  Holds(heap', m_xattr'[n], ValueOf(image.live, n))
      BY <1>6, <1>8, Zenon
    <3>1. /\ m_xattr'[n].first \in DOMAIN heap' /\ heap'[m_xattr'[n].first] = bytes[n]
          /\ m_xattr'[n].second = Len(bytes[n])
      BY <1>6, <1>7, Zenon
    <3>2. Fits(bytes[n], Len(bytes[n]), ValueOf(image.live, n))
      BY <1>5, <1>12, Zenon
    <3> QED
      BY <3>1, <3>2, Zenon DEF Holds
  <2>2. \A n, k \in DOMAIN m_xattr' : n # k => Apart(m_xattr'[n], m_xattr'[k])
    BY <1>4, <1>6, Zenon DEF Apart
  <2> QED
    BY <1>3, <2>1, <2>2, Zenon DEF HeapInv
<1>13. HeapInv'
  BY <1>8, <1>12, Zenon DEF HeapInv
<1> QED
  BY <1>10, <1>11, <1>13, Zenon DEF ValuesInv

\* The first state satisfies the invariant.
LEMMA InitValues == Init => ValuesInv
<1> SUFFICES ASSUME Init PROVE ValuesInv
  OBVIOUS
<1>1. /\ DOMAIN m_xattr = {} /\ DOMAIN heap = {} /\ stored = NoCopy /\ image = NoCopy
      /\ DOMAIN expect = {"live", "saved", "since", "known"} /\ DOMAIN expect.live = {}
      /\ m_xattr \in [{} -> Slots]
  BY DEF Init
<1> QED
  BY <1>1, Zenon DEF ValuesInv, TypeInv, SizesInv, ImageInv, HeapInv, SizesOf, IsMap

\* Every step keeps the invariant.
LEMMA NextValues == ValuesInv /\ [Next]_vars => ValuesInv'
<1> SUFFICES ASSUME ValuesInv, [Next]_vars PROVE ValuesInv'
  OBVIOUS
<1>1. CASE UNCHANGED vars
  BY <1>1, Unchanged, Zenon DEF vars
<1>2. ASSUME NEW name \in Attr, NEW value \in Value, NEW flags \in {"NONE", "CREATE", "REPLACE"},
             SetXAttrAndReply(name, value, flags)
      PROVE  ValuesInv'
  BY <1>2, SetXAttrKeeps, Zenon
<1>3. ASSUME NEW name \in Attr, RemoveXAttrAndReply(name) PROVE ValuesInv'
  BY <1>3, RemoveXAttrKeeps, Zenon
<1> QED
  BY <1>1, <1>2, <1>3, CheckpointKeeps, RestoreKeeps, PickleKeeps, LoadKeeps, Zenon DEF Next

\* The invariant holds in every state.
LEMMA ValuesInductive == Spec => []ValuesInv
  BY InitValues, NextValues, PTL DEF Spec

-----------------------------------------------------------------------------
(* The theorems *)

\* Under the invariant, getxattr reads what was set.
LEMMA ValuesAreRead == ValuesInv => ValuesAreThoseSet
<1> SUFFICES ASSUME ValuesInv PROVE ValuesAreThoseSet
  OBVIOUS
<1>1. /\ DOMAIN expect.live \subseteq DOMAIN m_xattr /\ HeapType(heap)
      /\ \A n \in DOMAIN m_xattr : m_xattr[n] \in Slots /\ SizeAt(expect.live, n, m_xattr[n].second)
  BY Zenon DEF ValuesInv, TypeInv, HeapType, IsMap, SizesInv, SizesOf
<1>2. \A n \in DOMAIN m_xattr \ DOMAIN expect.live : GetXAttrAndReply(n, 0) = {0}
  BY <1>1, Zenon DEF SizeAt, GetXAttrAndReply
<1>3. ASSUME NEW n \in DOMAIN expect.live
      PROVE  LET value == expect.live[n].value
                 size == expect.live[n].longest
             IN  /\ GetXAttrAndReply(n, 0) = {size}
                 /\ (size > 0 /\ expect.known) =>
                      \E reply \in GetXAttrAndReply(n, size) :
                        Len(reply) = size /\ SubSeq(reply, 1, Len(value)) = value
  <2> DEFINE v == expect.live[n].value
             size == expect.live[n].longest
             entry == m_xattr[n]
  <2>1. /\ n \in DOMAIN m_xattr /\ entry \in Slots /\ entry.second = size
        /\ v \in Seq(Byte) /\ Len(v) <= size /\ ValueOf(expect.live, n) = v
    BY <1>1, <1>3, Zenon DEF SizeAt, ValueOf
  <2>2. GetXAttrAndReply(n, 0) = {size}
    BY <2>1, Zenon DEF GetXAttrAndReply
  <2>3. ASSUME size > 0, expect.known
        PROVE  \E reply \in GetXAttrAndReply(n, size) :
                 Len(reply) = size /\ SubSeq(reply, 1, Len(v)) = v
    <3>1. Holds(heap, entry, v)
      BY <2>1, <2>3, Zenon DEF ValuesInv, HeapInv
    <3>2. entry.second \in Nat
      BY <2>1 DEF Slots
    <3> HIDE DEF v, size, entry
    <3>3. PICK w \in Seq(Byte) : Bytes(entry) = {w} /\ Fits(w, size, v)
      BY <1>1, <2>1, <3>1, BytesHeld, Zenon
    <3>4. size # 0 /\ ~(entry.second > size)
      BY <2>1, <2>3, <3>2
    <3>5. GetXAttrAndReply(n, size) = {w}
      BY <2>1, <3>3, <3>4, Zenon DEF GetXAttrAndReply, entry
    <3>6. Len(w) = size /\ \A i \in DOMAIN v : w[i] = v[i]
      BY <3>3, Zenon DEF Fits
    <3>7. SubSeq(w, 1, Len(v)) = v
      BY <2>1, <3>2, <3>6
    <3> QED
      BY <3>5, <3>6, <3>7, Zenon
  <2> QED
    BY <2>2, <2>3, Zenon
<1> QED
  BY <1>1, <1>2, <1>3, Zenon DEF ValuesAreThoseSet, ListXAttrAndReply

\* Whatever the names, the values and the addresses that malloc and realloc
\* give: getxattr tells a size that is enough, and reads bytes that begin with
\* the value set last, and are it unless a longer one was set before, though
\* checkpoints share the buffers, through loads and through restores that
\* follow no setxattr; setxattr that fails leaves at most an empty attribute.
THEOREM ValuesCorrect == Spec => []ValuesAreThoseSet
  BY ValuesInductive, ValuesAreRead, PTL

\* Under the invariant, an attribute not set since keeps its value.
LEMMA UnsetAreRead == ValuesInv => UnsetValuesAreKept
<1> SUFFICES ASSUME ValuesInv, stored # NoCopy, expect.known,
                    NEW n \in DOMAIN stored \ expect.since
             PROVE  Bytes(stored[n]) = expect.saved.read[n]
  BY Zenon DEF UnsetValuesAreKept
<1> DEFINE v == Word(expect.saved, n)
           entry == stored[n]
<1>1. /\ HeapType(heap) /\ entry \in Slots /\ expect.saved.read[n] = {v} /\ v \in Seq(Byte)
      /\ Len(v) = entry.second /\ Holds(heap, entry, v)
  BY Zenon DEF ValuesInv, TypeInv, HeapType, IsMap, HeapInv, IsSaved, Fits
<1> HIDE DEF v, entry
<1>2. Len(v) <= entry.second
  <2>1. v \in Seq(Byte)
    BY <1>1, Zenon
  <2>2. Len(v) <= Len(v)
    BY <2>1
  <2> QED
    BY <1>1, <2>2, Zenon
<1>3. PICK w \in Seq(Byte) : Bytes(entry) = {w} /\ Fits(w, entry.second, v)
  BY <1>1, <1>2, BytesHeld, Zenon
<1>4. w = v
  BY <1>1, <1>3, FitsWhole, Zenon
<1> QED
  BY <1>1, <1>3, <1>4, Zenon DEF entry

\* The values of a checkpoint whose names were not set since stay in the
\* buffers it shares with the inode, byte for byte, whatever else is set,
\* removed and reallocated, unless a restore before it followed a setxattr.
THEOREM UnsetValuesCorrect == Spec => []UnsetValuesAreKept
  BY ValuesInductive, UnsetAreRead, PTL

=============================================================================
