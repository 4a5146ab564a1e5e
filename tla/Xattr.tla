------------------------------- MODULE Xattr -------------------------------
(***************************************************************************)
(* The extended attributes of one inode: the handlers of inode.cpp over    *)
(* buffers on the heap, the copies that checkpoint and restore make of the *)
(* map m_xattr (Inode's copy constructor copies the pointers, not what     *)
(* they point to), and Inode::Pickle and Load.  A pointer whose buffer has *)
(* been freed may come to point to another buffer.                         *)
(***************************************************************************)
EXTENDS Integers, Sequences, Functions

CONSTANTS
  Attr,       \* names of attributes
  Value,      \* bound: the values that are set, sequences of bytes
  Addr,       \* bound: the addresses of buffers
  Null,       \* the null pointer
  NoCopy,     \* no checkpoint, no state file
  MaxRestores \* bound: the restores of a run

\* The bytes that values are made of, and the entries of a map.
Byte == UNION {Range(value) : value \in Value}
Slots == [first : Addr \cup {Null}, second : Nat]

ASSUME XattrAssumption ==
  /\ Null \notin Addr /\ MaxRestores \in Nat /\ Value \subseteq Seq(Byte)
  /\ \A names \in SUBSET Attr : NoCopy \notin [names -> Slots]

VARIABLES
  heap,      \* the allocated buffers that something still points to
  m_xattr,   \* the map of the inode: pointer and size by name
  stored,    \* the map of its copy in a checkpoint, or NoCopy
  image,     \* the values in the state file, or NoCopy, and what was expected
  up,        \* the daemon runs: free of a freed pointer aborts it
  restores,  \* counts up to MaxRestores
  expect     \* history: what the clients have set and what the checkpoint read

vars == <<heap, m_xattr, stored, image, up, restores, expect>>

-----------------------------------------------------------------------------
Pointers(map) == IF map = NoCopy THEN {} ELSE {map[n].first : n \in DOMAIN map}

\* Buffers that nothing points to are leaked, and matter no more.
Reachable(h, map, copy) ==
  Restrict(h, DOMAIN h \cap (Pointers(map) \cup Pointers(copy)))

With(map, name, entry) ==
  [n \in DOMAIN map \cup {name} |-> IF n = name THEN entry ELSE map[n]]
Without(map, name) == Restrict(map, DOMAIN map \ {name})

\* What m_xattr[name] is; a name that was not there has no buffer.
Slot(name) ==
  IF name \in DOMAIN m_xattr THEN m_xattr[name] ELSE [first |-> Null, second |-> 0]

\* value written over the start of buf.
Over(buf, value) ==
  [k \in DOMAIN buf |-> IF k \in DOMAIN value THEN value[k] ELSE buf[k]]

\* What clients know of a name: the value that was set last, and the length of
\* the longest one set since the attribute was made.
Known(live, name, value) ==
  [value |-> value,
   longest |-> IF name \in DOMAIN live /\ live[name].longest > Len(value)
               THEN live[name].longest ELSE Len(value)]

\* A client is told that the value is set: live has it, and since the names
\* that were set after the checkpoint.
IsSet(name, value) ==
  expect' = [expect EXCEPT !.live = With(@, name, Known(@, name, value)),
                           !.since = IF stored = NoCopy THEN {} ELSE @ \cup {name}]

Init ==
  /\ heap = <<>> /\ m_xattr = <<>> /\ stored = NoCopy /\ image = NoCopy
  /\ up = TRUE /\ restores = 0
  /\ expect = [live |-> <<>>, saved |-> NoCopy, since |-> {}, known |-> TRUE]

-----------------------------------------------------------------------------
(* SetXAttrAndReply *)

\* XATTR_CREATE and XATTR_REPLACE.
FlagsRefuse(name, flags) ==
  \/ flags = "CREATE" /\ name \in DOMAIN m_xattr
  \/ flags = "REPLACE" /\ name \notin DOMAIN m_xattr

\* Fault: a value that grows keeps its size.
GrowKeepsSize(name, value, addr) == [first |-> addr, second |-> Slot(name).second]
Grow(name, value, addr) == [first |-> addr, second |-> Len(value)]

\* Too small a buffer is reallocated, in place or elsewhere; the new value
\* fills it.  Reallocating a freed pointer aborts.
Reallocated(name, value) ==
  LET old == Slot(name).first
      free == Addr \ DOMAIN heap
  IN  IF old # Null /\ old \notin DOMAIN heap
      THEN up' = FALSE /\ UNCHANGED <<heap, m_xattr, expect>>
      ELSE /\ \E addr \in free \cup ({old} \ {Null}) :
                /\ m_xattr' = With(m_xattr, name, Grow(name, value, addr))
                /\ heap' = Reachable(With(Without(heap, old), addr, value), m_xattr', stored)
           /\ IsSet(name, value)
           /\ UNCHANGED up

\* E2BIG: nothing is set, but m_xattr[name] has made an entry for a new name.
NoMemory(name) ==
  /\ m_xattr' = With(m_xattr, name, Slot(name))
  /\ UNCHANGED <<heap, up, expect>>

\* A freed buffer takes the bytes without anyone seeing it.
Overwritten(name, value) ==
  LET slot == Slot(name)
  IN  /\ m_xattr' = With(m_xattr, name, slot)
      /\ heap' = IF slot.first \in DOMAIN heap
                 THEN [heap EXCEPT ![slot.first] = Over(@, value)] ELSE heap
      /\ IsSet(name, value)
      /\ UNCHANGED up

SetXAttrAndReply(name, value, flags) ==
  /\ up
  /\ \/ FlagsRefuse(name, flags) /\ UNCHANGED <<heap, m_xattr, up, expect>>
     \/ /\ ~FlagsRefuse(name, flags)
        /\ IF Slot(name).second < Len(value)
           THEN Reallocated(name, value) \/ NoMemory(name)
           ELSE Overwritten(name, value)
  /\ UNCHANGED <<stored, image, restores>>

\* Fault: the buffer is freed.
ErasedFrees(name) == Restrict(heap, DOMAIN heap \ {m_xattr[name].first})
\* m_xattr.erase(it) does not free the buffer.
Erased(name) == heap

RemoveXAttrAndReply(name) ==
  /\ up
  /\ IF name \notin DOMAIN m_xattr THEN UNCHANGED <<heap, m_xattr, expect>>
     ELSE /\ m_xattr' = Without(m_xattr, name)
          /\ heap' = Reachable(Erased(name), m_xattr', stored)
          /\ expect' = [expect EXCEPT !.live = Without(@, name)]
  /\ UNCHANGED <<stored, image, up, restores>>

\* The bytes of an entry, as a set: empty, for unknown, if its buffer was freed
\* and what is there now, if anything, is shorter.
Bytes(entry) ==
  IF entry.second = 0 THEN {<<>>}
  ELSE {SubSeq(heap[p], 1, entry.second) :
          p \in {p \in DOMAIN heap : p = entry.first /\ Len(heap[p]) >= entry.second}}

\* The replies of GetXAttrAndReply and ListXAttrAndReply for a size that is
\* large enough, as sets of the possible ones.  A size that is not large
\* enough has ERANGE, and the size 0 the size that is.
GetXAttrAndReply(name, size) ==
  IF name \notin DOMAIN m_xattr THEN {"ENODATA"}
  ELSE IF size = 0 THEN {m_xattr[name].second}
  ELSE IF m_xattr[name].second > size THEN {"ERANGE"}
  ELSE Bytes(m_xattr[name])
ListXAttrAndReply == DOMAIN m_xattr

-----------------------------------------------------------------------------
(* Copies of the inode *)

\* Inode(const Inode &): m_xattr = src.m_xattr.
checkpoint ==
  /\ up /\ stored = NoCopy
  /\ stored' = m_xattr
  /\ expect' = [expect EXCEPT
       !.saved = [live |-> expect.live, read |-> [n \in DOMAIN m_xattr |-> Bytes(m_xattr[n])]],
       !.since = {}]
  /\ UNCHANGED <<heap, m_xattr, image, up, restores>>

\* The old inode and the checkpoint are deleted; no destructor frees buffers.
\* Of names set since, buffers have changed, moved or been freed: the bytes are
\* then no longer known, and what becomes of them is left open until a load.
restore ==
  /\ up /\ stored # NoCopy /\ restores < MaxRestores
  /\ m_xattr' = stored /\ stored' = NoCopy
  /\ heap' = Reachable(heap, m_xattr', NoCopy)
  /\ restores' = restores + 1
  /\ expect' = [live |-> expect.saved.live, saved |-> NoCopy, since |-> {},
                known |-> expect.known /\ expect.since = {}]
  /\ UNCHANGED <<image, up>>

\* The state file has the bytes of every value; those of a freed buffer are
\* unknown, and this is not followed further.
Pickle ==
  /\ up /\ \A n \in DOMAIN m_xattr : Bytes(m_xattr[n]) # {}
  /\ stored = NoCopy
  /\ image' = [bytes |-> [n \in DOMAIN m_xattr |-> CHOOSE b \in Bytes(m_xattr[n]) : TRUE],
               live |-> expect.live, known |-> expect.known]
  /\ UNCHANGED <<heap, m_xattr, stored, up, restores, expect>>

\* Every value gets a buffer of its own; clear_states drops the checkpoint.
Load ==
  /\ up /\ image # NoCopy
  /\ LET bytes == image.bytes
     IN  \E f \in Injection(DOMAIN bytes, Addr) :
           /\ m_xattr' = [n \in DOMAIN bytes |-> [first |-> f[n], second |-> Len(bytes[n])]]
           /\ heap' = [a \in Range(f) |-> bytes[CHOOSE n \in DOMAIN bytes : f[n] = a]]
  /\ stored' = NoCopy
  /\ expect' = [live |-> image.live, saved |-> NoCopy, since |-> {}, known |-> image.known]
  /\ UNCHANGED <<image, up, restores>>

Next ==
  \/ \E name \in Attr, value \in Value, flags \in {"NONE", "CREATE", "REPLACE"} :
       SetXAttrAndReply(name, value, flags)
  \/ \E name \in Attr : RemoveXAttrAndReply(name)
  \/ checkpoint \/ restore \/ Pickle \/ Load

Spec == Init /\ [][Next]_vars

-----------------------------------------------------------------------------
(* Properties *)

\* Clients get back what they have set, through reallocation, sharing with a
\* checkpoint, restoring and reloading.  Every name set and not removed is
\* listed; a name that is listed and was not set (setxattr failed) is empty.
\* The size told for a name is that of the longest value set under it, and
\* what is read begins with the value set last: it is that value, unless a
\* longer one was set before, since SetXAttrAndReply never shrinks.  The bytes
\* are not said to survive a restore that comes after a setxattr.
ValuesAreThoseSet ==
  /\ DOMAIN expect.live \subseteq ListXAttrAndReply
  /\ \A n \in ListXAttrAndReply \ DOMAIN expect.live : GetXAttrAndReply(n, 0) = {0}
  /\ \A n \in DOMAIN expect.live :
       LET value == expect.live[n].value
           size == expect.live[n].longest
       IN  /\ GetXAttrAndReply(n, 0) = {size}
           /\ (size > 0 /\ expect.known) =>
                \E reply \in GetXAttrAndReply(n, size) :
                  Len(reply) = size /\ SubSeq(reply, 1, Len(value)) = value

\* The copy constructor shares the buffers with the checkpoint.  A value in it
\* whose name was not set since reads as it did when the checkpoint was made,
\* whatever was set under other names, removed and allocated.
UnsetValuesAreKept ==
  (stored # NoCopy /\ expect.known) =>
    \A n \in DOMAIN stored \ expect.since : Bytes(stored[n]) = expect.saved.read[n]

\* README: "checkpoint/restore".  The values in a checkpoint are those the
\* attributes had when it was made, whatever is set later.
CheckpointKeepsValues ==
  stored # NoCopy => \A n \in DOMAIN stored : Bytes(stored[n]) = expect.saved.read[n]

\* SetXAttrAndReply asks "If they want to make the whole thing shorter, then
\* what?"  What is read is what was set last, also when that is shorter.
LastSetIsRead ==
  expect.known => \A n \in DOMAIN expect.live : Bytes(m_xattr[n]) = {expect.live[n].value}

\* SetXAttrAndReply: a setxattr answered with E2BIG has set nothing, so the
\* names listed are those set.
FailedSetLeavesNoName == ListXAttrAndReply = DOMAIN expect.live

=============================================================================
