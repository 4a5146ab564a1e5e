------------------------------ MODULE FileSpec ------------------------------
(***************************************************************************)
(* What a regular file promises its clients: a string of bytes that writes *)
(* overlay and truncation cuts or extends with zeros, the copy of it that  *)
(* a checkpoint keeps, and the two as they are in the state file.          *)
(* Buffers, blocks and capacities are not mentioned.                       *)
(***************************************************************************)
EXTENDS Integers, Sequences

CONSTANTS
  Byte, Zero,  \* the bytes, and the one that fills holes
  NoCopy,      \* no checkpoint, no state file
  Data,        \* bound: the strings that are written
  Offset,      \* bound: the offsets of writes and reads
  Size         \* bound: the sizes of truncations and reads

VARIABLES
  contents,  \* the bytes of the file
  saved,     \* the contents at the last checkpoint, or NoCopy
  pickled,   \* what the state file has of the two, or NoCopy
  done       \* the last request was carried out

vars == <<contents, saved, pickled, done>>

\* c with data laid over it at off; a gap between the two is filled with zeros.
Overlay(c, off, data) ==
  [k \in 1..(IF off + Len(data) > Len(c) THEN off + Len(data) ELSE Len(c)) |->
     IF off < k /\ k <= off + Len(data) THEN data[k - off]
     ELSE IF k <= Len(c) THEN c[k] ELSE Zero]

\* c cut or extended to size bytes.
Resized(c, size) == [k \in 1..size |-> IF k <= Len(c) THEN c[k] ELSE Zero]

\* The bytes of c that a read of size bytes at off returns.
Slice(c, off, size) ==
  [k \in 1..(IF off > Len(c) THEN 0
             ELSE IF off + size > Len(c) THEN Len(c) - off ELSE size) |-> c[k + off]]

Init == contents = <<>> /\ saved = NoCopy /\ pickled = NoCopy /\ done = TRUE

Refuse == done' = FALSE /\ UNCHANGED <<contents, saved, pickled>>

Change(c) == contents' = c /\ done' = TRUE /\ UNCHANGED <<saved, pickled>>

Write(off, data) == Change(Overlay(contents, off, data))

Truncate(size) == Change(Resized(contents, size))

Checkpoint ==
  /\ saved = NoCopy /\ saved' = contents
  /\ done' = TRUE /\ UNCHANGED <<contents, pickled>>

Restore ==
  /\ saved # NoCopy
  /\ contents' = saved /\ saved' = NoCopy
  /\ done' = TRUE /\ UNCHANGED pickled

Pickle ==
  /\ pickled' = [contents |-> contents, saved |-> saved]
  /\ done' = TRUE /\ UNCHANGED <<contents, saved>>

Load ==
  /\ pickled # NoCopy
  /\ contents' = pickled.contents /\ saved' = pickled.saved
  /\ done' = TRUE /\ UNCHANGED pickled

Next ==
  \/ Refuse
  \/ \E off \in Offset, data \in Data : Write(off, data)
  \/ \E size \in Size : Truncate(size)
  \/ Checkpoint \/ Restore \/ Pickle \/ Load

Spec == Init /\ [][Next]_vars

=============================================================================
